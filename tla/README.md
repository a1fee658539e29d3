# A TLA+ model of the Solana Attestation Service

The program under `src/program` keeps three kinds of accounts on Solana.  A
*credential* belongs to an authority and lists the signers allowed to attest
for it.  A *schema* hangs under a credential and describes, as a layout of type
codes, what an attestation under it contains.  An *attestation* hangs under a
schema and holds data that follows the layout.  An attestation may be
*tokenized*: its holder then has a token of a mint that belongs to it.

This directory models the program, the Rust client that makes requests for it,
the tools for layouts and data, and the two demos that use it.  TLC checks small
instances; TLAPS proves all but one of the same safety properties for all
instances, that the program implements an abstract registry among them.

## 1. The system

| Component | Source | State | Operations |
|---|---|---|---|
| Credential instructions | `processor/create_credential.rs`, `change_authorized_signers.rs`, `state/credential.rs` | Credential accounts | create; replace the signer list, resizing the account |
| Schema instructions | `processor/create_schema.rs`, `change_schema_{status,description,version}.rs`, `state/schema.rs` | Schema accounts | create version 1; pause and resume; replace the description, resizing; add a version |
| Attestation instructions | `processor/create_attestation.rs`, `close_attestation.rs`, `emit_event.rs`, `events.rs`, `state/attestation.rs` | Attestation accounts; events in the log | create after validating data and expiry; close, refund and emit an event |
| Data validation | `Attestation::validate_data`, `Schema::validate` | an offset and two loops | walk a layout over bytes |
| Accounts and rent | `processor/shared/pda_utils.rs`, `account_checks.rs` | lamports, owner and size of every account | create at a derived address, resize, drain |
| Tokenized attestations | `processor/tokenize_schema.rs`, `create_tokenized_attestation.rs`, `close_tokenized_attestation.rs` | Token-2022 mints, groups, token accounts | tokenize a schema; mint and burn with an attestation |
| Instruction dispatch | `entrypoint.rs`, `lib.rs`, `macros.rs` | none | one byte selects the handler, which matches accounts and reads arguments |
| Rust client | `clients/rust/src/generated` | fields of a builder | build a request, directly or for a call by another program |
| Layout tools | `cereal_macro/src/lib.rs`, `clients/typescript/src/utils.ts` | none | take the layout of a struct; serialize data by a layout |
| Guide demos | `examples/rust/attestation-flow-guide` | keypairs and where they are | create, attest, verify and close over the network |
| Error codes, IDL, account decoders, TypeScript client, tests, scripts | `error.rs`, `idl/`, `clients/`, `core/`, `integration_tests/`, `scripts/` | none | see section 6 |

**How they interact.**  There is no shared memory and no thread: the state of
the system is the ledger, and everything goes through accounts named by the
caller.  A client builds a request, wallets sign it, the runtime checks the
privileges it asks for and the program dispatches it.  A handler receives a
list of accounts, checks signatures, owner and discriminator, calls the System
and Token-2022 programs for lamports, space and tokens, and writes bytes.  Only
the `create_*` handlers derive an address; all others trust that an account
with the right owner and discriminator is what it says.  Attestation handlers
read a credential and a schema that other instructions, of other people, may
have changed in between, or earlier in the same transaction.
`close_attestation` calls the program itself (`emit_event`) so that the event
is in the log; the tokenized handlers run the plain ones as their first or last
part.  A demo sends one transaction after the other over an unreliable network
and waits for each to be confirmed.

**What is hard here.**

* *Interleaving and stale state.*  Signer lists, schema status and layouts are
  read when an attestation is made, and change afterwards.  A transaction may
  change them and use them.  The verifier of the demos compares an expiry with
  a clock that is not the chain's.
* *Partial failure.*  Each handler creates accounts, pays and only then checks
  (`create_attestation` validates the data last; `close_attestation` checks the
  event authority after the account is gone; a tokenized attestation is made by
  a series of calls).  Correctness relies on the whole transaction being undone.
* *Legal calls in unexpected orders.*  Anyone may send lamports to an address
  before it exists or after it is closed; a closed attestation can be funded
  again and created again in one transaction; a version may be derived from any
  earlier version; a wallet of zeroes assigned to the program parses as a
  credential, because 0 is that discriminator; a holder may burn the token and
  close the token account without the program.
* *Bookkeeping kept in two places.*  The size of an account is computed by hand
  and updated by differences while the bytes are written as a whole; the layout
  of requests is in the handlers and in the client; type codes are in the
  program, the macro and the helper; mints follow attestations.
* *Boundaries.*  u8 versions, expiry equal to now, funding just below and above
  the rent, `saturating_sub`, a mint space that is one byte short, a group that
  is full, counts in the data that lie.
* *Delivery.*  Transactions are lost, repeated and late; a blockhash expires
  while the client waits.

**What makes each part correct.**  Credentials and schemas: they are permanent,
lie at the address their contents derive, change only when the authority signed,
and versions have no gap.  Attestations: created only by authorised signers
under an active schema, they follow its layout, refer to accounts that exist,
and are closed with exactly one event.  Accounts: always rent exempt, always
exactly as large as their contents, and nobody's lamports are taken. Validation:
it accepts exactly the data that parts into the sizes of its fields, in time
bounded by the data.  Tokens: a mint exists exactly as long as its attestation,
and its supply is where the attestation says.  Requests: well-made ones are
served as they were meant, and nothing is served that was not signed for.
Demos: steps take effect once and in order, and the verdict is the right one.

`PROJECT.json` lists every hazard at its line with the properties that would
catch it.

## 2. Modules

```
 DataValidation ---- ValidationSpec <== ValidationLoop ---- SchemaTools ---- MCValidationLoop
   |       \                                                        \-------- ValidationProofs
   |        Registry <== RegistryRefinement ---- MCAttestationService
   |                       |            \---------------------------- RegistryProofs
 Ledger --- AttestationService --- InstructionProofs                        |
                 |                        \--- AttestationServiceProofs     |
                 |                                  \--- TokenizationProofs-/|
             Tokenization ------- MCTokenization         |                   |
                 |      \--------------------------------/                   |
              GuideDemo ---- MCGuideDemo                                     |
                      \---------------------------------------- GuideDemoProofs

 ClientInterface --- ClientRequests --- HandlerInterface
                           \------------------------------ ClientRequestsProofs

 DataInduction --- InstructionProofs, ValidationProofs

 (---- is extended by;  <== is implemented by)
```

**`Ledger`** is a library of operators on a ledger, a function from addresses to
accounts `[owner, lamports, space, data]`.  An address is a wallet or a record
of the seeds it is derived from: `find_program_address` is a hash, taken to be
injective, and no key signs for its result (`AddressAssumption`).  `data` is
what the bytes parse to, not the bytes.  `Create` is `create_pda_account` with
both branches, `Resize` the code shared by the two handlers that change a size,
`Close` the draining of an attestation.  `Purge` and `RentStateOk` are what the
runtime does at the end of a transaction: it drops accounts without lamports and
refuses those with fewer than the rent.  The `Can...` operators are the checks
of the program and of the runtime.

**`DataValidation`** is `validate_data` as an operator over a sequence of bytes,
with a panic (a slice past the end, a type code that does not exist) kept apart
from an error.

**`AttestationService`** is the state machine of the program:

| Variable | In the code |
|---|---|
| `accounts` | all accounts, as the running transaction sees them |
| `events` | how many `CloseAttestationEvent`s were emitted, by schema and data |
| `issued` | how many attestations were created, by schema and data (history only) |
| `saved` | `accounts`, `events` and `issued` at the last commit |
| `signers`, `ixs` | the wallets that signed the running transaction, the instructions it has done |
| `clock` | `Clock::get()?.unix_timestamp` |

Each handler is one action of the same name, with its whole effect.
`Begin`, `Commit` and `Abort` are the runtime's: every failing check, error or
panic of the code is a disabled action, after which only `Abort` (or another
instruction, in a transaction that would have been another one) is possible.
The runtime locks the accounts of a transaction, so one runs at a time;
interleaving is between the instructions of transactions in sequence and, within
one transaction, between instructions of different signers.  `SendLamports` and
`AssignWallet` are what other programs' instructions can do to the accounts of
this one.  The accounts an action names are arbitrary, so calls that mix up the
accounts of two issuers are included.

**`Registry`** is what the service promises, without addresses, accounts, rent
or sizes: credentials, schemas and attestations, known by who is responsible
and what they are called, in a draft that authors edit and publish as a whole.
**`RegistryRefinement`** maps the ledger to it: an account counts as the entry
its address is derived for.  `ImplementsRegistry` says that every behaviour of
`AttestationService` is then one of `Registry`.

**`ValidationLoop`** is `validate_data` as it runs, one step for a field, a
string of a `Vec<String>` or a check of the offset.  It implements
**`ValidationSpec`**, one step that returns what `DataValidation` says.  Its
`LayoutSized` says what is accepted without a loop or an offset: there are cuts
that part the data into as many parts as the layout has fields, each of the size
of a value of its type.  `IsEncoding` asks for more, that each part *is* a value: a
bool is 0 or 1, a string is UTF-8.  The code does not look at that.

**`SchemaTools`** puts the tools in front of the loops: an issuer takes the layout
of a struct from the derive macro, or writes it by hand where the macro does not
compile; an attester serializes the struct in Rust (Borsh) or an object in
TypeScript (`serializeAttestationData`); the program validates what comes out.
The type codes of macro, helper and program are three tables of the module, as
they are in the code.

**`Tokenization`** adds `tokens`, the accounts at the addresses of mints and token
accounts, and `savedTokens`.  Its three instructions run in the transactions of
`AttestationService`, whose `CreateAttestation` and `CloseAttestation` are their
first and last part.  The Token-2022 and Associated Token Account programs are
external: what they do is modelled from the calls the handlers make, and from
what a holder may do alone (`BurnToken`, `CloseHolding`, `CreateHolding`).

**`ClientInterface`** writes down what each of the 48 request makers of the
client puts into a request, **`HandlerInterface`** what each handler takes out of
one, both as tables read off the code independently.  **`ClientRequests`** puts a
caller, the runtime and the dispatch between them: the caller fills in a builder
and slips up to `MaxSlips` times.

**`GuideDemo`** drives `Tokenization` by the two demo programs.  A step is a
transaction (`fund_payer`, `create_credential`, ...) or a look at the chain.  The
demo signs and sends it and waits; the network delivers it at any time, any
number of times or never; the runtime executes it at most once, and not once its
blockhash has expired, at which the demo gives up.  Every RPC call may give an
error: one about a transaction ends the demo (`RpcError`), before the transaction
is out or after; one about an account (`Fetch`, `VerifyToken`) makes the look come
out as if nothing were there.  `VerifyToken` has the unwraps and asserts of the
code, so it panics on anything but the mint it expects (`AsExpected`), and on an
account with nothing but lamports.  Meanwhile time passes, the local clock is set
(`ClockSet`), and another party acts: the issuer pauses the schema or lists the
second attester alone, the holder burns the token, the second attester closes
the attestation, replaces it, or sends lamports to where its mint was; their
transactions too commit or abort.

Comments that begin `Fault:` mark alternatives of an operator that contain a
plausible bug.  Nothing uses them; each shows that some property would notice.
The `MC` modules give TLC its sets.

## 3. Runs

| Run | What is explored | Properties |
|---|---|---|
| `lifecycle` | One issuer, one attester that is or is not listed, two schema versions, two valid layouts and an invalid one, two data strings, time 1..2, expiry 0 or 1; one instruction per transaction | `TypeOK`, `PdaBinding`, `VersionsContiguous`, `AttestationsConform`, `SchemasPermanent` |
| `resize` | Rent of one lamport per byte; signer lists of 0..2 and descriptions of 0..3 bytes; transfers ahead of creation that stay below or exceed a rent | `DataFitsAccount`, `RentExempt`, `LamportsConserved` |
| `atomic` | Transactions of up to three instructions; two attestations with the same contents closed to each other or to the issuer, refunded, created again; time 1..2 | `EventAccounting`, `FundsSafe`, `ImplementsRegistry` |
| `two_issuers` | Transactions of two instructions and any set of signers; two issuers, each possibly listed by the other; one may hand its wallet to the program | `PdaBinding`, `Lineage`, `OnlyAuthorisedChanges`, `PausedSchemasFrozen` |
| `expiry` | Time 1..2, expiry 0..2 | `ExpiryInFuture` is violated |
| `tokens` | A group of one or two places, two nonces, an issuer and a holder; plain and tokenized creation and closing, burning, closing and making of token accounts, in transactions of two instructions | `TokensTypeOK`, `MintsMatchAttestations`, `SupplyAtTokenAccount`, `MembersDistinct`, `BurnedForGood`, `PlacesUsedOnce` |
| `token_rent` | Rent of one lamport per byte; payments ahead to every token address; a mint space of none, one byte short and right | `TokenAccountsExempt`, `TokenLamportsConserved` |
| `validation` | Layouts of up to two of seven type codes; data of up to four pieces, among them prefixes that lie, half prefixes and single bytes; and what the tools make of structs of up to two fields of nine types, with one name or two | `TypeOK`, `ReadsBounded`, `AcceptsBySizes`, `DerivedSchemasWork`, `KeepsPromise` |
| `helper` | Structs of one field of each of the 26 types | `HelperBytesValid` is violated |
| `requests` | All 24 builders, with up to two slips: a field forgotten, a key mixed up, an account added, a signature or a flag left out | `TypeOK`, `CompleteRequestsServed`, `NothingMisread`, `EventsOnlyFromProgram`, `ServedForSigners` |
| `demo` | Both demos with their own data; RPC errors at every call; one transaction of another party of up to three instructions; a clock off by one either way and set anew; the shortest placeholder and the longest addresses | `DemoTypeOK`, `EffectsInOrder`, `OutcomeExplained`, `RentReturned`, `VerdictsRight`, `PanicExplained`, `Ends` |
| `demo_expiry` | The same, with the second attester's replacement that never expires | `NeverExpiresVerified` is violated |

**Bounds.**  They are constants in the guards: `MaxInstructions`, `MaxClock`,
`MaxIssued` (attestations ever created with the same schema and data),
`MaxOthers`, `MaxSlips`, the sets `Issuer`, `Payee`, `TransferAmount`,
`Recipient` and `TokenPayment`, and `InitialLamports`.  Why they suffice:

* A transaction commits all or nothing, so its length matters only for sequences
  inside it, and the longest interesting one is close, refund, create (three).
* No handler looks at more than one credential, schema and attestation, so two of
  a kind, with different authorities, expose any mix-up; two attestations are
  enough to give a group with a place taken, used up and taken again.  Nonces only
  tell them apart, so `tokens` counts states up to their exchange
  (`NonceSymmetry`).
* Sizes enter by length only, and growing, shrinking and growing again from a
  list kept shorter or longer needs three lengths.  `MaxVersion` stands for 255:
  at 2 a version can be exhausted.
* Rent is free in the runs that are not about lamports (an account then needs
  one lamport), which keeps the ledger small.
* A layout is read field by field with the offset as the only memory, so two
  fields show what one leaves to the next.  Element sizes are those of the code.
* Two slips can hide each other (a key mixed up and a signature left out), and
  what one slip leads to is never undone by a third.
* In `demo` the rents are to scale: a byte costs a lamport and the airdrop is the
  number of bytes one SOL pays for.  `MintSpace` and `MetadataLen` hold the values
  that the demo's own data leads to.  Three instructions let another party close
  an attestation and replace it or pay the address of its mint.  With `MaxClock` 2
  and a lifetime of one unit the attestation can expire before it is created and
  between fetch and verdict.  Time and the others stop when the demo has ended,
  and the clock is set only when the client is about to read it: neither makes a
  difference to it.  States with a panic, a verdict on a copy of the second
  attester, on an account closed after it was fetched, on an expired one and on
  one that was not fetched, and a creation that comes too late, are all reached.
  Issuer and second attester are one wallet in this run, and so are user and first
  attester: with wallets of their own for the latter two there are as many states
  (35642), for no step of a demo has the one sign or pay for the other, but twice
  as many addresses.

Deadlock is checked except where the system ends: a validation, a request and a
demo that is done.

**Fairness.**  None is assumed of the service: nothing obliges anybody to send a
transaction and no handler runs by itself.  `ValidationLoop` has weak fairness
of `Next`, and so has `SchemaTools`: a sequential program runs on, as the
promise of one verdict asks for (`KeepsPromise`).  `GuideDemo` has weak fairness
of the demo's own steps, of the runtime finishing a transaction it began, and of
a blockhash expiring, which the progress of the chain guarantees. Nothing is
assumed of the network, of time, of RPC errors or of the other parties: the demo
must end although no transaction may ever be delivered and no call need ever
give an error (`Ends`).

**Refinements.**  `ImplementsRegistry` is checked in the run with the longest
transactions, where an abort has most to undo and an address may be emptied,
funded and used again.  `KeepsPromise` shows that the loops return what the
operator says, fairness included; everything else uses the operator.

**Findings.**

* `create_attestation.rs:62` says that expiry is validated to be *greater than*
  the current timestamp; line 64 rejects only a smaller one, so an attestation
  may be born at the very second at which it expires (`expiry`).
* `compactLayoutMapping` of the TypeScript helper takes code 24 for a vector of
  strings and code 25 for a char (`utils.ts:46`); in the program they are
  `VecChar` and `VecString` (`schema.rs:38`).  Data for such a schema is not the
  "valid byte array" of `utils.ts:86`: the program refuses it, or the serializer
  throws (`helper`).
* `verify_attestation` of the demo holds an attestation valid only before its
  expiry (`standard-demo/src/main.rs:354`), also one with the expiry 0, of which
  `state/attestation.rs:28` says "0 means never expired" (`demo_expiry`).

**Worth knowing.** Some things were seen that no run of its own is for.
`validate_data` adds up sizes and looks at no byte between them: a bool of 7
(`state/attestation.rs:84`) and a string that is not UTF-8 are accepted, and
stored as what `state/attestation.rs:24` calls "Data that was verified and
matches the Schema". That is proved (`BoolsAreNotLookedAt`), and
`AcceptsBySizes` says no more of the data than that; how a char lies in its four
bytes no one lays down. A schema may have two fields of one name, for the
program only counts names; the helper collects fields by name (`utils.ts:76`)
and serializes one of them, which the program refuses (`Keys`). The builders for
calls by other programs document the flags of a remaining account as writable
and signer, in this order (`emit_event.rs:293`), while
`invoke_signed_with_remaining_accounts` takes the first for the signer
(`emit_event.rs:180`; `RemainingMeta` does the same); no handler takes remaining
accounts, so nothing that is served depends on it. The derive macro compares the
ident of a type with `"Vec<u8>"` and so on, but the ident of a vector is `Vec`,
so no struct with a vector compiles (`Derivable`). And, though no document says
otherwise: once a holder has burned the token, the attestation can never be
closed (`BurnedForGood`), and closing an attestation does not give back its
place in the group (`PlacesUsedOnce`). The tokenization demo sizes the metadata
with a placeholder key that is shorter in base 58 than the addresses written
later; the slack between the size it computes and the size that is used makes up
for it exactly (`OutcomeExplained`, with the shortest placeholder).

## 4. Proofs

Everything here holds for all constants that satisfy the named assumptions, and
is checked to the last leaf.  `PROJECT.json` lists the theorems; the modules
build on each other:

| Module | Shows |
|---|---|
| `DataInduction` | Induction over the naturals, functions defined by recursion along a sequence, sums over finite sets (lemmas only) |
| `InstructionProofs` | What each operator of the ledger and each instruction changes (lemmas only) |
| `AttestationServiceProofs` | All invariants and action properties of the program |
| `TokenizationProofs` | Those of tokens, and the former again with the tokenized instructions |
| `RegistryProofs` | The program implements the registry, without and with tokens |
| `ValidationProofs` | The loops take a bounded number of steps and agree with `ValidateData`, and that with `LayoutSized`; no encoding is refused; schemas of the derive macro work for Borsh and the helper |
| `ClientRequestsProofs` | All invariants of requests |
| `GuideDemoProofs` | The steps of the demos take effect once and in order; the service's guarantees hold meanwhile; verdicts, panics and rent are as they should; no lamport is lost |

**The ledger.**  `TypeOK`, `PdaBinding`, `Lineage`, `VersionsContiguous`,
`AttestationsConform`, `DataFitsAccount` and `RentExempt` are proved together,

```
IInv == TypeOK /\ LedgerInv(accounts) /\ ZeroedIn(accounts)
               /\ LedgerInv(saved.accounts) /\ ZeroedIn(saved.accounts)
```

with `LedgerInv` the conjunction of the last six.  None is inductive alone.  The
size of a resized account is a natural number only because the old size is the
length of the old contents (`FitsIn`); it stays rent exempt when it shrinks
because it was before and rent grows with size (`RentMonotone`); a handler may
rewrite an account it found by owner and discriminator because it lies at its own
address (`BoundIn`), the exception being a zeroed wallet, whose authority is the
null key, which never signs and whose contents stay zero (`ZeroedIn`); a new
version has a predecessor because the schema it is derived from lies where its
version says.  `saved` is there for `Abort`.

The argument has three layers: what each ledger operator changes
(`CreateUpdates`, `ResizeUpdates`, `CloseUpdates`, `TransferUpdates`); that a
change at one account keeps `LedgerInv` if what is written is sound next to the
rest and what others rely on is carried over (`UpdateInv`, from `InvSound`,
`SoundCarried`, `SoundInv`); and one lemma per instruction (`...Good`) that
checks these conditions.  `ValidateData` is opaque here: what matters is that
the layout it was given does not change.

**Whole transactions.**  `SchemasPermanent`, `OnlyAuthorisedChanges`,
`PausedSchemasFrozen` and `FundsSafe` speak of the step that commits, and so of
all that the instructions of a transaction did together.  `ServiceInv` therefore
says in each state how the ledger may differ from the last commit:

* `Settled`: between transactions it does not;
* `KeptSince`: credentials and schemas that were there are there, with the names,
  layout and version they had;
* `ChangedByEntitled`: what changed belongs to a signer, or to an issuer whose
  authority or listed attester is one, by the list *before* the transaction or by
  an authority that signs itself;
* `IssuedWhilePaused`, `FundedSince`: the same for attestations issued under a
  paused schema, and for balances that went down (a signer's, or an attestation's
  when an event was emitted); `EventsGrow` keeps an event that was counted.

The point at which this is more than the property of one instruction is a
transaction that lists an attester and lets it attest: the instruction sees the
new list, the property the old, and what closes the gap is that the authority
must have signed (`ChangedByEntitled` at the credential).  `EventAccounting` is
`AccountedIn`, with the addition that at any time finitely many attestations are
live, so that one more or less changes the count by one.

**Lamports.**  `TotalLamports` is a sum over all addresses; the proof rests on
one fact, that changing a function at one argument changes its sum by the
difference (`SumChanged`), so that each operator of the ledger shifts the total
by a known amount: nothing for a transfer, a creation or a closing, and with the
runtime's purge only empty accounts go.  `ConservedInv` is about the ledger and
the last commit.  Addresses are 32 bytes: `FinitenessAssumption` and
`TokenFinitenessAssumption` say that there are finitely many, and only the
conservation theorems use it.

**Tokens.**  `TokenizedInv` adds to `ServiceInv` that mints, supply and members
match the attestations (`TokensGood`, of the ledger and of the last commit) and
three relations to the last commit: a token burned then leaves mint and
attestation alone (`BurnedSince`), groups do not shrink (`GroupsKeptSince`), and
a mint with a new number was counted since (`NumberedSince`).  That nobody else
holds a token of a mint rests on all three parts of `TokensGood` at once: a token
account with an amount belongs to an attestation that names it, which has a
mint, which has a supply.  A tokenized instruction is an effect of the
attestation instruction it contains, or a payment, as far as the program's own
accounts are concerned (`TokenizedStep`); so all earlier invariants carry over
without a second proof, and so does the registry.

**The registry.**  `RegistryOf(ledger, events)` splits into three functions, and
ids and addresses correspond one to one (`CredentialPlaces`, `SchemaPlaces`,
`AttestationPlaces`).  `InstructionProofs` sums up each instruction as one of a
few effects on the ledger; each is one edit of the draft or none
(`EffectStep`), a commit publishes, an abort drops the draft.  That the account
at an address is the entry the address is derived for, on which everything
rests, is `BoundIn`.

**Validation.**  `4 * reads <= offset` makes `ReadsBounded` inductive: four bytes
were paid for every prefix read, and a prefix is read only inside the data.  For
`AcceptsBySizes` the cuts are forced by the sizes (`Forced`): the loop stands at one
of them and inside a vector of strings at the start of one of them.  For every
layout and data, the operator `ValidateData` is `"ok"` exactly if there are such
cuts (`VerdictIsBySizes`); a true encoding has the right sizes, so it is never
refused (`EncodingsNeverRefused`), but the converse is false
(`BoolsAreNotLookedAt`).  And step by step the loops come to nothing
but its verdict (`OneVerdict`, the safety part of `KeepsPromise`; `Tracking` says
where in the recursion of the operator the loops are).  The library's induction
takes an operator for the induction hypothesis, which the provers cannot
instantiate; `DataInduction` states it of a set instead, which is enough for a
recursion along a sequence of fixed length.

A count of the steps left (`StepsLeft`) starts at `4 * Len(layout) + Len(data) +
3`, is never negative and falls with every step (`StepsRunOut`).  It needs
`ReadsBounded`: the strings of a `Vec<String>` are paid for by the bytes of
their prefixes, not by the count.

**Tools.**  All tools, for every struct, give `validate_data` a layout and data
that are bytes (`InitTools`), so what is proved of it holds of what they send
(`ToolsDataJudged`, `ToolsOneVerdict`), that of the mismatched codes of the helper
included.  For `DerivedSchemasWork` the initial states do the work: a derivable
type is one of the first thirteen (`DerivedType`), on which the three tables
agree (`HelperTypeOfCode`); distinct names make the helper's object the struct
(`DistinctKeys`, `DistinctLast`, `HelperIsBorsh`); what Borsh makes of each field
is a value of its type (`DerivedValue`); and a concatenation is cut where it was
joined (`JoinedParts`, `FlattenIsSized`).  The loops then accept it because
its sizes are right.

**Requests.**  The two tables are compared once and for all, builder by builder
and handler by handler (`BuildersFit` and what it rests on): that the positions,
flags and argument kinds of the client are those the handler reads.  What a
caller then does with a builder is the inductive part: `RequestInv` keeps the
order of the accounts whatever flag is lost, what was checked by the runtime and
the handler, and, as long as the caller has not slipped, that every account is
the one it is named for and every signature there (`Honest`).

**Demos.**  The order of the steps uses nothing of what the transactions do.
`DemoInv` says that the client has sent nothing past its step and goes on only
when the step is committed (`OneAhead`), that what is committed is remembered
(`LogKept`) and that a transaction that runs was not executed before
(`RunningFits`).  A transaction that commits can then only be the one of the step
the client is at, however late it comes.

Every step of a demo and of those beside it is a step of `Tokenization` or none,
with the exception of `fund_payer`, the airdrop (`StepIsServiceStep`), which is
shown to keep the invariant as any payment does (`AirdropGood`).  So all
invariants and action properties of the service, and the registry, hold while
demos run over their network (`InvariantsInDemos`, `TransactionsInDemos`,
`TokensInDemos`, `RegistryInDemos`).

What a demo finds on the ledger needs more.  `StageIn` says, of a set of steps
that were executed, that the attestation is there from the step that issues it,
with the expiry it was asked for, to the one that closes it, and neither it nor
its mint before and after; that there is nothing at any address the demo does
not use; and that all lamports are of the airdrop.  `LedgerFollows` states it of
the last commit and the steps in the log, and of the running ledger and those
with the step that runs (`Staged`), as long as nobody else has acted (`others =
0`), and adds that what the verifier has fetched is what there was to fetch,
unless it was missed (`CopyRight`).  It is inductive only next to `DemoInv`, by
which the steps in the log are a beginning of the list, so that nothing is
issued twice.  `RentComesBack` follows.

With others acting, less is known, and `Vouched` is what remains: an attestation of
a user of the demo, on the ledger, at the last commit or among the fetched
copies, is of `TestUser`, and either of the demo's attester with the expiry of
this run, whose issuing step was then sent, or of the second attester, who has
then acted.  Each instruction keeps it because it leaves that account alone,
writes it for the attester that signed, or closes it.  Next to `StageIn` for the
case that nobody has acted, it gives `VerdictsAreRight`: a verdict is about the
copy, whose expiry is known by who signed it.  `PanicsAreExplained` rests on the
invariants of the tokens for whoever acts (a mint is in the group of the schema of
its attestation and has both keys and values in order, `MintsMatchAttestations`,
with `PdaBinding` for which schema that is), and on `StageIn` for that the mint is
there when nobody has.
`NothingLostInDemos` is the part about lamports by itself, whoever acts.

**Assumptions.**  Wallets and derived addresses are disjoint and the null key is
no wallet; names, lists and data are sequences of their element types; the bounds
are numbers or subsets of the sets they bound; for the sums, addresses are
finitely many; structs have fields of types that a layout has a code for
(`StructAssumption`); and the service admits what the demos pass to it, whose keys
are new (`ArgumentAssumption`).

**Model-checked only.**

* `Ends` and the fairness in `KeepsPromise`: liveness.
* `OutcomeExplained`: whether a transaction is refused is said with `ENABLED`,
  which the provers do not know, and that the rents the demos compute suffice is a
  matter of their numbers.  That no look panics when nobody has interfered is
  `PanicsAreExplained`.

The three violations (`expiry`, `helper`, `demo_expiry`) are TLC's too.

## 5. Abstractions

* In the state machines instruction arguments are values, not bytes; the bounds
  checks of the argument parsers only make more calls fail.  The order and the
  kind of the encoded arguments are in `ClientRequests`.
* Accounts hold parsed contents; `to_bytes` appears through its length.  Field
  names are a count and a length in bytes.
* Errors are not told apart: every failing instruction aborts its transaction.
  An instruction is one step, so what a handler did before it failed is never
  seen; that the runtime undoes it is assumed, and what is checked of aborts is
  those between instructions.
* Transaction fees, the compute budget, the loaded-data limit and the maximum
  account size of 10 MiB are not modelled; the growth limit per instruction is.
* `RentExempt` holds inside transactions too, so it does not rest on the
  runtime's check at their end; the mints do (`token_rent`).
* Timestamps do not run backwards.
* Zeroed accounts assigned to the program are wallets of exactly the smallest
  size that parses.  Another program could also assign derived
  addresses of its own: they behave like wallets that cannot sign.
* Mints are not transferable, so a token stays where it was minted; token
  accounts are the associated ones.  Anybody may make one, but nobody else gets
  a token of the mint.
* In `SchemaTools` a number is a small one and a text a letter, field names are
  not numbers (which JavaScript would sort first), and a tool that gives up sends
  nothing.  Data is read back by the same mapping it was written by, which is
  not modelled.
* Layouts with the code 26, which `Schema::validate` lets no schema have, are
  in `validation` only.
* The two looks of a demo at the chain (for the user and for a stranger) fetch
  both accounts together: nobody attests the stranger, so it makes no difference.
  Each of the two fetches may fail by itself.
* Of an RPC error only that it happens is modelled.  The retries inside the RPC
  client are part of the network; an error before a transaction is out and one
  after it end the demo alike.
* The other parties of a demo do what is named in `OthersInstruction`, with the
  demo's own arguments where they replace an attestation.  Transaction fees, which
  would be taken from the payer, and balances of others are not part of it.
* The demos' names and texts are in the model by their length.

## 6. Not modelled, and why

* *Error codes*: which code is returned does not change the state.
* *Account decoders and the IDL*: the decoders read the fields in the order in
  which the program writes them, by derived Borsh code; there is no branch to
  check.  The IDL is the input both clients are generated from.
* *TypeScript client*: the twin of the Rust client, generated from the same IDL
  by the same tool; `pdas.ts` hashes the seeds that the Rust client does.
* *Integration tests*: read for the intended behaviour.  *Scripts*: tooling.

## 7. Plan

What is left is a proof that a demo nobody interferes with is not refused: guards
of the ten transactions as predicates of their own, in place of `ENABLED`, and a
ledger invariant with the exact balance of the payer after each step.
