------------------------- MODULE AttestationService -------------------------
(***************************************************************************)
(* The attestation program: its credential, schema and attestation         *)
(* instructions, run by transactions on the accounts of the ledger.        *)
(*                                                                         *)
(* A transaction is signed by a set of wallets and executes instructions   *)
(* one after the other; the runtime keeps transactions that touch the same *)
(* accounts apart, so one runs at a time.  It either commits all of its    *)
(* effects or none: any check of the program that fails (an error code, a  *)
(* panic) makes the whole transaction Abort.                               *)
(***************************************************************************)
EXTENDS Ledger, DataValidation

CONSTANTS
  SignerList,      \* authorized-signer lists, sequences of wallets
  Description,     \* schema descriptions, sequences of bytes
  Layout,          \* layouts: sequences of bytes
  FieldNames,      \* field-name lists, [count, bytes] once serialized
  Data,            \* attestation data: sequences of bytes
  Expiry,          \* expiry timestamps, i64: 0 is never, negatives included
  InitialLamports, \* the balance of every wallet at the start
  TransferAmount,  \* bound: the amounts of plain transfers
  Payee,           \* bound: who gets transfers and the rent of closed accounts
  Issuer,          \* bound: the wallets that create credentials
  MaxInstructions, \* bound: instructions of one transaction
  MaxClock,        \* bound: the last timestamp
  MaxIssued        \* bound: attestations of one schema with the same data

ASSUME DomainAssumption ==
  /\ SignerList \subseteq Seq(Wallet)
  /\ Description \subseteq Seq(0 .. 255)
  /\ Layout \subseteq Seq(0 .. 255)
  /\ FieldNames \subseteq [count : Nat, bytes : Nat]
  /\ Data \subseteq Seq(0 .. 255)
  /\ Expiry \subseteq Int
ASSUME BoundAssumption ==
  /\ InitialLamports \in Nat
  /\ TransferAmount \subseteq Nat \ {0}
  /\ Payee \subseteq Address
  /\ Issuer \subseteq Wallet
  /\ MaxInstructions \in Nat
  /\ MaxClock \in Nat
  /\ MaxIssued \in Nat

(* Attestation.token_account of an attestation without a token.            *)
NoToken == NullKey

-----------------------------------------------------------------------------
(* What the accounts of the program hold.                                  *)

Credential(authority, name, authorizedSigners) ==
  [kind |-> "credential", authority |-> authority, name |-> name,
   authorized_signers |-> authorizedSigners]

\* Fault: the new schema always says it is version 1.
SchemaFirstVersion(credential, name, description, layout, fieldNames, version) ==
  [kind |-> "schema", credential |-> credential, name |-> name,
   description |-> description, layout |-> layout,
   field_names |-> fieldNames, is_paused |-> FALSE, version |-> 1]

Schema(credential, name, description, layout, fieldNames, version) ==
  [kind |-> "schema", credential |-> credential, name |-> name,
   description |-> description, layout |-> layout,
   field_names |-> fieldNames, is_paused |-> FALSE, version |-> version]

Attestation(nonce, credential, schema, data, signer, expiry, token) ==
  [kind |-> "attestation", nonce |-> nonce, credential |-> credential,
   schema |-> schema, data |-> data, signer |-> signer, expiry |-> expiry,
   token_account |-> token]

(* The smallest zeroed account that parses: a Credential of the null key,  *)
(* without a name and without signers.                                     *)
BlankCredential == Credential(NullKey, <<>>, <<>>)

CredentialData ==
  [kind : {"credential"}, authority : Wallet \cup {NullKey},
   name : Name \cup {<<>>}, authorized_signers : SignerList \cup {<<>>}]
SchemaData ==
  [kind : {"schema"}, credential : CredentialKey, name : Name,
   description : Description, layout : Layout, field_names : FieldNames,
   is_paused : BOOLEAN, version : 1 .. MaxVersion]
AttestationData ==
  [kind : {"attestation"}, nonce : Nonce, credential : CredentialKey,
   schema : SchemaAddress, data : Data, signer : Wallet, expiry : Expiry,
   token_account : HoldingAddress \cup {NoToken}]

AccountData ==
  {NoData} \cup CredentialData \cup SchemaData \cup AttestationData

Account ==
  [owner : {"system", "sas"}, lamports : Nat, space : Nat,
   data : AccountData]

(* The space the handlers ask for when they create an account.             *)

CredentialSpace(name, authorizedSigners) ==
  1 + (4 + Len(authorizedSigners) * 32) + 32 + (4 + Len(name))

SchemaSpace(name, description, layout, fieldNames) ==
  1 + 32 + (4 + Len(name)) + (4 + Len(description)) + (4 + Len(layout))
    + (4 + fieldNames.bytes) + 1 + 1

AttestationSpace(data) == 1 + 32 + 32 + 32 + (4 + Len(data)) + 32 + 8 + 32

\* Fault: an account is never made smaller.
ResizedSpaceGrowOnly(space, from, to) ==
  IF to > from THEN space + to - from ELSE space

(* The space of an account one part of which goes from a length to another. *)
ResizedSpace(space, from, to) == space + to - from

(* The length of AccountSerialize::to_bytes, the discriminator included.   *)
EncodedLen(d) ==
  CASE d.kind = "none" -> 0
    [] d.kind = "credential" ->
         1 + 32 + 4 + Len(d.name) + 4 + 32 * Len(d.authorized_signers)
    [] d.kind = "schema" ->
         1 + 32 + 4 + Len(d.name) + 4 + Len(d.description)
           + 4 + Len(d.layout) + 4 + d.field_names.bytes + 1 + 1
    [] d.kind = "attestation" ->
         1 + 32 + 32 + 32 + 4 + Len(d.data) + 32 + 8 + 32

(* Schema::validate *)
LayoutValid(layout, fieldNames) ==
  /\ \A i \in 1 .. Len(layout) : layout[i] <= MaxDataType
  /\ fieldNames.count = Len(layout)

-----------------------------------------------------------------------------
VARIABLES
  accounts,  \* the ledger, with the effects of the running transaction
  events,    \* CloseAttestationEvents emitted so far, a bag
  issued,    \* attestations created so far by schema and data, a bag (ghost)
  saved,     \* the state at the last commit: what everyone else sees
  signers,   \* the wallets that signed the running transaction, or {}
  ixs,       \* instructions it has executed
  clock      \* the timestamp of the current block

vars == <<accounts, events, issued, saved, signers, ixs, clock>>

Event == [schema : SchemaAddress, data : Data]

(* What a transaction may change, and gets back when it aborts.            *)
Chain == [accounts |-> accounts, events |-> events, issued |-> issued]

Init ==
  /\ accounts = [a \in Address |->
       IF a \in Wallet THEN [Vacant EXCEPT !.lamports = InitialLamports]
       ELSE Vacant]
  /\ events = [e \in Event |-> 0]
  /\ issued = [e \in Event |-> 0]
  /\ saved = Chain
  /\ signers = {}
  /\ ixs = 0
  /\ clock = 1

(* verify_owner_mutability, then try_from_bytes: the account belongs to    *)
(* the program and has the discriminator of that kind.                     *)
HeldIn(ledger, a, kind) ==
  /\ ledger[a].owner = "sas"
  /\ ledger[a].data.kind = kind
Holds(a, kind) == HeldIn(accounts, a, kind)

\* Fault: the signature is not compared with the authority.
AuthorityUnchecked(c) == Holds(c, "credential")

(* The authority of the Credential at c signed.                            *)
AuthoritySigned(c) ==
  /\ Holds(c, "credential")
  /\ accounts[c].data.authority \in signers

\* Fault: the schema may be under another credential.
SchemaOfAny(s, c) == Holds(s, "schema")

(* s is a Schema under the Credential at c.                                *)
SchemaOf(s, c) ==
  /\ Holds(s, "schema")
  /\ accounts[s].data.credential = c

\* Fault: the list of authorized signers is not looked at.
AnySignerAuthorized(signer, c) == signer \in signers /\ Holds(c, "credential")

(* Credential::validate_authorized_signer, on the list as it is now.       *)
SignerAuthorized(signer, c) ==
  /\ signer \in signers
  /\ Holds(c, "credential")
  /\ \E i \in 1 .. Len(accounts[c].data.authorized_signers) :
       accounts[c].data.authorized_signers[i] = signer

\* Fault: the status of the schema is not looked at.
ActiveAlways(s) == TRUE

(* The schema still takes attestations.                                    *)
Active(s) == ~accounts[s].data.is_paused

\* Fault: the data is not validated.
ConformsUnchecked(data, s) == TRUE

(* The data was accepted for the layout of the schema at s.                *)
Conforms(data, s) == ValidateData(accounts[s].data.layout, data) = "ok"

(* A running transaction does one more instruction.                        *)
Instruction ==
  /\ signers # {}
  /\ ixs < MaxInstructions
  /\ ixs' = ixs + 1
  /\ UNCHANGED <<saved, signers, clock>>

-----------------------------------------------------------------------------
(* Credential instructions.                                                *)

CreateCredential(authority, name, list, payer) ==
  LET c == CredentialPda(authority, name)
      space == CredentialSpace(name, list)
  IN  /\ Instruction
      /\ authority \in signers
      /\ ValidSeed(name)
      /\ CanCreate(accounts, signers, payer, c, space)
      /\ accounts' = Create(accounts, payer, c, space,
                            Credential(authority, name, list))
      /\ UNCHANGED <<events, issued>>

ChangeAuthorizedSigners(c, list, payer) ==
  LET credential == accounts[c].data
      space == ResizedSpace(accounts[c].space,
                 32 * Len(credential.authorized_signers), 32 * Len(list))
  IN  /\ Instruction
      /\ AuthoritySigned(c)
      /\ CanResize(accounts, signers, payer, c, space)
      /\ accounts' = Resize(accounts, payer, c, space,
                            [credential EXCEPT !.authorized_signers = list])
      /\ UNCHANGED <<events, issued>>

-----------------------------------------------------------------------------
(* Schema instructions.                                                    *)

(* Create the schema of the given name and version under c.                *)
NewSchema(c, name, description, layout, fieldNames, version, payer) ==
  LET s == SchemaPda(c, name, version)
      space == SchemaSpace(name, description, layout, fieldNames)
  IN  /\ Instruction
      /\ ValidSeed(name)
      /\ LayoutValid(layout, fieldNames)
      /\ CanCreate(accounts, signers, payer, s, space)
      /\ accounts' = Create(accounts, payer, s, space,
                       Schema(c, name, description, layout, fieldNames, version))
      /\ UNCHANGED <<events, issued>>

\* Fault: versions start at 2.
FirstVersionOffByOne == 2

FirstVersion == 1

CreateSchema(c, name, description, layout, fieldNames, payer) ==
  /\ AuthoritySigned(c)
  /\ NewSchema(c, name, description, layout, fieldNames, FirstVersion, payer)

(* Name and description come from the existing schema, whatever its        *)
(* version and status; u8::checked_add panics past MaxVersion.             *)
ChangeSchemaVersion(c, s, layout, fieldNames, payer) ==
  LET schema == accounts[s].data
  IN  /\ AuthoritySigned(c)
      /\ SchemaOf(s, c)
      /\ schema.version < MaxVersion
      /\ NewSchema(c, schema.name, schema.description, layout, fieldNames,
                   schema.version + 1, payer)

ChangeSchemaStatus(c, s, paused) ==
  /\ Instruction
  /\ AuthoritySigned(c)
  /\ SchemaOf(s, c)
  /\ accounts' = [accounts EXCEPT ![s].data.is_paused = paused]
  /\ UNCHANGED <<events, issued>>

ChangeSchemaDescription(c, s, description, payer) ==
  LET schema == accounts[s].data
      space == ResizedSpace(accounts[s].space,
                 Len(schema.description), Len(description))
  IN  /\ Instruction
      /\ AuthoritySigned(c)
      /\ SchemaOf(s, c)
      /\ CanResize(accounts, signers, payer, s, space)
      /\ accounts' = Resize(accounts, payer, s, space,
                            [schema EXCEPT !.description = description])
      /\ UNCHANGED <<events, issued>>

-----------------------------------------------------------------------------
(* Attestation instructions.                                               *)

NotExpired(expiry) == expiry = 0 \/ expiry >= clock

(* What process_create_attestation asks for, and the ledger it leaves; the *)
(* token account is the one of the recipient, if any.                      *)
CanCreateAttestation(signer, c, s, nonce, data, expiry, payer) ==
  /\ SignerAuthorized(signer, c)
  /\ SchemaOf(s, c)
  /\ Active(s)
  /\ NotExpired(expiry)
  /\ CanCreate(accounts, signers, payer, AttestationPda(c, s, nonce),
               AttestationSpace(data))
  /\ Conforms(data, s)

AttestationCreated(signer, c, s, nonce, data, expiry, payer, token) ==
  Create(accounts, payer, AttestationPda(c, s, nonce), AttestationSpace(data),
         Attestation(nonce, c, s, data, signer, expiry, token))

(* Accounting (ghost): one more attestation of s with this data.           *)
Issue(s, data) ==
  LET e == [schema |-> s, data |-> data]
  IN  /\ issued[e] < MaxIssued
      /\ issued' = [issued EXCEPT ![e] = @ + 1]
      /\ UNCHANGED events

CreateAttestation(signer, c, s, nonce, data, expiry, payer) ==
  /\ Instruction
  /\ CanCreateAttestation(signer, c, s, nonce, data, expiry, payer)
  /\ accounts' = AttestationCreated(signer, c, s, nonce, data, expiry, payer,
                                    NoToken)
  /\ Issue(s, data)

\* Fault: the token account is not compared with the attestation's.
CanCloseAnyToken(signer, c, a, payee, token) ==
  /\ SignerAuthorized(signer, c)
  /\ Holds(a, "attestation")
  /\ accounts[a].data.credential = c
  /\ payee # a

(* What process_close_attestation asks for.  Nothing is asked of the       *)
(* schema, of the expiry or of who gets the rent.                          *)
CanCloseAttestation(signer, c, a, payee, token) ==
  /\ SignerAuthorized(signer, c)
  /\ Holds(a, "attestation")
  /\ accounts[a].data.token_account = token
  /\ accounts[a].data.credential = c
  /\ payee # a

(* The event carries what the account held before it was closed.           *)
EmitClose(a) ==
  LET attestation == accounts[a].data
      e == [schema |-> attestation.schema, data |-> attestation.data]
  IN  /\ events' = [events EXCEPT ![e] = @ + 1]
      /\ UNCHANGED issued

CloseAttestation(signer, c, a, payee) ==
  /\ Instruction
  /\ CanCloseAttestation(signer, c, a, payee, NoToken)
  /\ accounts' = Close(accounts, a, payee)
  /\ EmitClose(a)

-----------------------------------------------------------------------------
(* Instructions of the System program in the same transactions.            *)

(* Anyone can send lamports to any address, one that holds nothing and one *)
(* that belongs to the program included.                                   *)
SendLamports(from, to, amount) ==
  /\ Instruction
  /\ from # to
  /\ CanPay(accounts, signers, from, amount)
  /\ accounts' = Transfer(accounts, from, to, amount)
  /\ UNCHANGED <<events, issued>>

(* A wallet allocates zeroed space in its own account and assigns it to    *)
(* the program; the runtime wants it rent exempt.                          *)
AssignWallet(w) ==
  LET space == EncodedLen(BlankCredential)
  IN  /\ Instruction
      /\ w \in signers
      /\ IsVacant(accounts, w)
      /\ accounts[w].lamports >= RequiredLamports(space)
      /\ accounts' = [accounts EXCEPT
           ![w] = [owner |-> "sas", lamports |-> @.lamports,
                   space |-> space, data |-> BlankCredential]]
      /\ UNCHANGED <<events, issued>>

-----------------------------------------------------------------------------
(* Transactions and time.                                                  *)

Begin(signed) ==
  /\ signers = {}
  /\ signers' = signed
  /\ ixs' = 0
  /\ UNCHANGED <<accounts, events, issued, saved, clock>>

Commit ==
  /\ signers # {}
  /\ RentStateOk(accounts)
  /\ accounts' = Purge(accounts)
  /\ saved' = [Chain EXCEPT !.accounts = Purge(accounts)]
  /\ signers' = {}
  /\ ixs' = 0
  /\ UNCHANGED <<events, issued, clock>>

Abort ==
  /\ signers # {}
  /\ accounts' = saved.accounts
  /\ events' = saved.events
  /\ issued' = saved.issued
  /\ signers' = {}
  /\ ixs' = 0
  /\ UNCHANGED <<saved, clock>>

Tick ==
  /\ signers = {}
  /\ clock < MaxClock
  /\ clock' = clock + 1
  /\ UNCHANGED <<accounts, events, issued, saved, signers, ixs>>

CredentialNext ==
  \E payer \in Wallet, list \in SignerList :
    \/ \E authority \in Issuer, name \in Name :
         CreateCredential(authority, name, list, payer)
    \/ \E c \in CredentialKey : ChangeAuthorizedSigners(c, list, payer)

SchemaNext ==
  \E c \in CredentialKey :
    \/ \E payer \in Wallet, layout \in Layout, fieldNames \in FieldNames :
         \/ \E name \in Name, description \in Description :
              CreateSchema(c, name, description, layout, fieldNames, payer)
         \/ \E s \in SchemaAddress :
              ChangeSchemaVersion(c, s, layout, fieldNames, payer)
    \/ \E s \in SchemaAddress :
         \/ \E paused \in BOOLEAN : ChangeSchemaStatus(c, s, paused)
         \/ \E payer \in Wallet, description \in Description :
              ChangeSchemaDescription(c, s, description, payer)

AttestationNext ==
  \E signer \in Wallet, c \in CredentialKey :
    \/ \E s \in SchemaAddress, nonce \in Nonce, data \in Data,
          expiry \in Expiry, payer \in Wallet :
         CreateAttestation(signer, c, s, nonce, data, expiry, payer)
    \/ \E a \in AttestationAddress, payee \in Payee :
         CloseAttestation(signer, c, a, payee)

SystemNext ==
  \/ \E from \in Wallet, to \in Payee, amount \in TransferAmount :
       SendLamports(from, to, amount)
  \/ \E w \in Squatter : AssignWallet(w)

Next ==
  \/ CredentialNext
  \/ SchemaNext
  \/ AttestationNext
  \/ SystemNext
  \/ \E signed \in (SUBSET Wallet) \ {{}} : Begin(signed)
  \/ Commit
  \/ Abort
  \/ Tick

Spec == Init /\ [][Next]_vars

-----------------------------------------------------------------------------
(* Properties.                                                             *)

(* Types of the variables; the accounts, events and issues of the last     *)
(* commit have the types of the current ones.                              *)
ChainType ==
  [accounts : [Address -> Account], events : [Event -> Nat],
   issued : [Event -> Nat]]

TypeOK ==
  /\ accounts \in [Address -> Account]
  /\ events \in [Event -> Nat]
  /\ issued \in [Event -> Nat]
  /\ saved \in ChainType
  /\ signers \in SUBSET Wallet
  /\ ixs \in 0 .. MaxInstructions
  /\ clock \in Nat

(* The address a program account must lie at, from what it holds.          *)
OwnPda(d) ==
  CASE d.kind = "credential"  -> CredentialPda(d.authority, d.name)
    [] d.kind = "schema"      -> SchemaPda(d.credential, d.name, d.version)
    [] d.kind = "attestation" -> AttestationPda(d.credential, d.schema, d.nonce)

(* The handlers derive an address only when they create an account and     *)
(* later trust owner and discriminator alone.  That is enough: whatever    *)
(* the program owns lies at the address its own contents derive, or is a   *)
(* zeroed wallet, and a zeroed wallet stays one: it can never be given     *)
(* signers although it parses as a Credential.                             *)
BoundIn(ledger) ==
  \A a \in Address :
    IF ledger[a].owner = "sas"
      THEN \/ ledger[a].data.kind # "none" /\ a = OwnPda(ledger[a].data)
           \/ a \in Squatter /\ ledger[a].data = BlankCredential
      ELSE ledger[a].data = NoData /\ ledger[a].space = 0

PdaBinding == BoundIn(accounts)

(* A schema's credential exists, an attestation's schema exists and is     *)
(* under the credential the attestation names: no call order or mix-up of  *)
(* the accounts of two issuers leaves an orphan.                           *)
RootedIn(ledger) ==
  \A a \in Address :
    LET d == ledger[a].data
    IN  /\ HeldIn(ledger, a, "schema") =>
             HeldIn(ledger, d.credential, "credential")
        /\ HeldIn(ledger, a, "attestation") =>
             /\ HeldIn(ledger, d.schema, "schema")
             /\ ledger[d.schema].data.credential = d.credential

Lineage == RootedIn(accounts)

(* A schema version other than the first comes after the one before it     *)
(* under the same name: change_schema_version may be called on any version *)
(* and skips none.                                                         *)
ContiguousIn(ledger) ==
  \A s \in SchemaAddress :
    HeldIn(ledger, s, "schema") /\ s.version > 1 =>
      HeldIn(ledger, SchemaPda(s.credential, s.name, s.version - 1), "schema")

VersionsContiguous == ContiguousIn(accounts)

(* Data was checked once, when the attestation was created; it still       *)
(* follows the layout now stored in the schema it names, and that layout   *)
(* is a valid one with one field name per field.                           *)
ConformingIn(ledger) ==
  \A a \in Address :
    LET d == ledger[a].data
    IN  /\ HeldIn(ledger, a, "schema") => LayoutValid(d.layout, d.field_names)
        /\ HeldIn(ledger, a, "attestation") =>
             ValidateData(ledger[d.schema].data.layout, d.data) = "ok"

AttestationsConform == ConformingIn(accounts)

(* The space computed by hand in the handlers, incrementally when lists    *)
(* and descriptions change, is the length of what to_bytes writes: the     *)
(* copy_from_slice at the end of each handler never panics.                *)
FitsIn(ledger) ==
  \A a \in Address : ledger[a].space = EncodedLen(ledger[a].data)

DataFitsAccount == FitsIn(accounts)

(* No prefunding, growth or shrinking leaves an account of the program     *)
(* below the rent-exempt balance for its size.                             *)
ExemptIn(ledger) ==
  \A a \in Address :
    ledger[a].owner = "sas" =>
      ledger[a].lamports >= RequiredLamports(ledger[a].space)

RentExempt == ExemptIn(accounts)

(* No lamports are created or destroyed: what a credential or schema grows *)
(* by and what a closed attestation held is somebody's loss or gain.       *)
LamportsConserved ==
  TotalLamports(accounts) = InitialLamports * Cardinality(Wallet)

LiveAttestations(e) ==
  {a \in AttestationAddress :
     /\ Holds(a, "attestation")
     /\ accounts[a].data.schema = e.schema
     /\ accounts[a].data.data = e.data}

(* Every attestation ever created is either live or has had exactly one    *)
(* close event with its schema and data: no double close within a          *)
(* transaction, no closed account that comes back when it is refunded, and *)
(* nothing left of a transaction that aborts.                              *)
EventAccounting ==
  \A e \in Event : issued[e] = events[e] + Cardinality(LiveAttestations(e))

(* create_attestation.rs:62 says "Validate expiry is greater than current  *)
(* timestamp": an attestation the running transaction has just created     *)
(* never expires or does so after the current time.                        *)
ExpiryInFuture ==
  \A a \in AttestationAddress :
    Holds(a, "attestation") /\ saved.accounts[a].data.kind # "attestation" =>
      accounts[a].data.expiry = 0 \/ accounts[a].data.expiry > clock

-----------------------------------------------------------------------------
(* Properties of what a transaction may do to the committed state.         *)

Before(a) == saved.accounts[a]
After(a) == saved'.accounts[a]

(* A schema is never removed, and neither its credential, name, version    *)
(* nor layout ever changes; a credential is never removed either, and its  *)
(* authority and name are for good.  There is no instruction to close or   *)
(* migrate them, and none that closes attestations does it by accident.    *)
SchemasKept ==
  /\ \A s \in SchemaAddress :
       Before(s).data.kind = "schema" =>
         \E status \in BOOLEAN, description \in Description :
           After(s).data = [Before(s).data EXCEPT !.is_paused = status,
                                           !.description = description]
  /\ \A c \in CredentialKey :
       Before(c).data.kind = "credential" =>
         \E list \in SignerList \cup {<<>>} :
           After(c).data = [Before(c).data EXCEPT !.authorized_signers = list]

SchemasPermanent == [][SchemasKept]_saved

(* A credential or schema changes in a transaction only if the authority   *)
(* signed it (or, for a zeroed wallet, its owner did); an attestation      *)
(* comes or goes only if the authority did or a wallet its credential      *)
(* listed before the transaction.                                          *)
ListedBefore(c) ==
  {Before(c).data.authorized_signers[i] :
     i \in 1 .. Len(Before(c).data.authorized_signers)}

ChangeAuthorised(a) ==
  CASE a \in Wallet -> a \in signers
    [] a \in CredentialAddress -> a.authority \in signers
    [] a \in SchemaAddress -> After(a.credential).data.authority \in signers
    [] a \in AttestationAddress ->
         \/ After(a.credential).data.authority \in signers
         \/ /\ Before(a.credential).data.kind = "credential"
            /\ ListedBefore(a.credential) \cap signers # {}

ChangesAuthorised ==
  \A a \in Address : After(a).data # Before(a).data => ChangeAuthorised(a)

OnlyAuthorisedChanges == [][ChangesAuthorised]_saved

(* While a schema is paused nobody but its authority gets an attestation   *)
(* issued under it, whatever the order of the instructions that pause,     *)
(* resume and issue.                                                       *)
PauseRespected ==
  \A e \in Event :
    /\ Before(e.schema).data.kind = "schema"
    /\ Before(e.schema).data.is_paused
    /\ saved'.issued[e] > saved.issued[e]
    => Before(e.schema.credential).data.authority \in signers

PausedSchemasFrozen == [][PauseRespected]_saved

(* A transaction takes lamports only from wallets that signed it and, when *)
(* it closes one, from the address of an attestation: never from a         *)
(* credential or a schema, live or funded ahead of its creation.           *)
FundsKept ==
  \A a \in Address :
    After(a).lamports < Before(a).lamports =>
      \/ a \in signers
      \/ a \in AttestationAddress /\ saved'.events # saved.events

FundsSafe == [][FundsKept]_saved

=============================================================================
