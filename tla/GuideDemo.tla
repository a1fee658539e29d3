----------------------------- MODULE GuideDemo -----------------------------
(***************************************************************************)
(* The demos of the attestation flow guide, as clients of the service: a   *)
(* program that goes through a list of steps, each a transaction that it   *)
(* signs, sends over the network and waits for, or a look at the chain.    *)
(*                                                                         *)
(* The network may lose a transaction, and deliver it more than once or    *)
(* late, for the RPC client sends it again and again; the runtime executes *)
(* a signed transaction at most once and none whose blockhash has expired. *)
(* An RPC call may give an error at any time, and the local clock may be   *)
(* set anew.  Meanwhile the other parties act: the issuer pauses the       *)
(* schema or lists another attester, the holder burns the token, the       *)
(* second attester, once listed, closes the attestation, replaces it by    *)
(* one of its own, or sends lamports to where its mint was.                *)
(***************************************************************************)
EXTENDS Tokenization

CONSTANTS
  Payer, Authority, Signer1, Signer2, TestUser,  \* the keypairs of a demo
  RandomUser,     \* a key that nobody ever attested
  Airdrop,        \* LAMPORTS_PER_SOL
  DemoName,       \* the name of credential and schema
  DemoData,       \* TestData, serialized
  DemoLayout,     \* schema_layout
  DemoFields,     \* schema_fields
  DemoText,       \* schema_description
  Lifetime,       \* attestation_expiry_days, in units of the clock
  Drift,          \* how far the local clock may be off the chain's
  AddressLen,     \* lengths of an address in base 58
  PlaceholderLen, \* those of Pubkey::new_unique(), which begins with zeros
  MaxOthers       \* bound: transactions of the other parties

ASSUME DemoAssumption ==
  /\ {Payer, Authority, Signer1, Signer2, TestUser} \subseteq Wallet
  /\ {TestUser, RandomUser} \subseteq Nonce
  /\ Lifetime \in Nat /\ Drift \subseteq Int
  /\ \A d \in Drift : d >= -1  \* the epoch is past on the local clock too
  /\ AddressLen \subseteq Nat /\ PlaceholderLen \subseteq Nat
  /\ Airdrop \in Nat /\ MaxOthers \in Nat

VARIABLES
  flow,     \* the steps of the demo that was asked for
  pc,       \* the step it is at
  phase,    \* what it is doing there
  sent,     \* the steps whose transaction is out on the network
  expired,  \* those whose blockhash is too old
  status,   \* what became of the transactions, by step
  running,  \* the transaction on the ledger: a step's, "others", or "none"
  log,      \* the steps whose transactions were committed (ghost)
  copy,     \* attestations fetched for verification, by user
  answer,   \* the verdicts on the users
  errors,   \* the steps whose transaction an RPC call gave up on (ghost)
  missed,   \* the users whose attestation was there and not fetched (ghost)
  others,   \* transactions of the other parties so far
  env       \* clock drift and key lengths of this run

demoVars == <<flow, pc, phase, sent, expired, status, running, log, copy,
              answer, errors, missed, others, env>>

----------------------------------------------------------------------------
(* Steps and addresses.                                                    *)

StandardFlow ==
  <<"fund_payer", "create_credential", "create_schema", "create_attestation",
    "update_authorized_signers", "verify_attestation", "close_attestation">>
TokenizedFlow ==
  <<"fund_payer", "create_credential", "create_schema", "tokenize_schema",
    "create_tokenized_attestation", "verify_attestation",
    "verify_token_attestation", "close_tokenized_attestation">>

Looks == {"verify_attestation", "verify_token_attestation"}
Steps == {StandardFlow[i] : i \in DOMAIN StandardFlow}
           \cup {TokenizedFlow[i] : i \in DOMAIN TokenizedFlow}
Transactions == Steps \ Looks
Issuing == {"create_attestation", "create_tokenized_attestation"}
Ended == {"done", "failed", "panicked"}
Users == {TestUser, RandomUser}

credential_pda == CredentialPda(Authority, DemoName)
schema_pda == SchemaPda(credential_pda, DemoName, 1)
attestation_pda(user) == AttestationPda(credential_pda, schema_pda, user)
attestation_mint_pda == AttestationMintPda(attestation_pda(TestUser))
schema_mint_pda == SchemaMintPda(schema_pda)
recipient_token_account == HoldingPda(TestUser, attestation_mint_pda)

Step == flow[pc]
LocalTime == clock + env.drift

\* calculate_schema_mint_size: the length of a mint with a group pointer,
\* which the demo passes as the largest number of members.
SchemaMintSize == 166 + 68

\* The metadata of the token: update authority and mint, name, symbol and
\* URI, and the keys of attestation and schema in base 58, whose lengths
\* `keys` adds up.
MetadataSize(keys) ==
  32 + 32 + (4 + 13) + (4 + 6) + (4 + 33) + 4 + (4 + 11 + 4) + (4 + 6 + 4) + keys

\* calculate_token_metadata_size and what the Token-2022 program makes of it:
\* tlv_size_of counts a type of 8 bytes and a length of 4, the extension of a
\* mint has 2 of each.
TokenMetadataSize == 12 + MetadataSize(2 * env.placeholder)
MetadataWritten == 4 + MetadataSize(env.addresses)

\* Fault: the membership is not counted.
AttestationMintSizeWithoutMember == MintSpaceCreated + TokenMetadataSize

\* calculate_attestation_mint_size: the mint with its extensions, a member of
\* a group included, and the metadata with a placeholder for both keys.
AttestationMintSize == MintSpaceCreated + MemberSpace + TokenMetadataSize

\* The service is one that knows what the demos pass to it, and their keypairs
\* are new ones that nobody has sent anything to.
ASSUME ArgumentAssumption ==
  /\ Authority \in Issuer /\ DemoName \in Name /\ DemoText \in Description
  /\ DemoLayout \in Layout /\ DemoFields \in FieldNames /\ DemoData \in Data
  /\ {<<Signer1>>, <<Signer2>>, <<Signer1, Signer2>>} \subseteq SignerList
  /\ {Payer, Signer2} \subseteq Payee /\ TestUser \in Recipient
  /\ MaxClock >= 1 /\ 0 \in Expiry
  /\ \A t \in 1 .. MaxClock, d \in Drift \cup {0} : t + d + Lifetime \in Expiry
  /\ SchemaMintSize \in MaxSize
  /\ \A j, k \in AddressLen : 4 + MetadataSize(j + k) \in MetadataLen
  /\ \A p \in PlaceholderLen :
       MintSpaceCreated + MemberSpace + 12 + MetadataSize(2 * p) \in MintSpace
  /\ TestUser # RandomUser /\ Signer1 # Signer2
  /\ InitialLamports = 0

----------------------------------------------------------------------------
(* What the transaction of a step does, and who signs it with the payer.   *)

SignersOf(step) ==
  CASE step = "fund_payer" -> {Payer}
    [] step \in {"create_credential", "create_schema", "tokenize_schema",
                 "update_authorized_signers"} -> {Payer, Authority}
    [] OTHER -> {Payer, Signer1}

fund_payer ==
  /\ Instruction
  /\ accounts' = Credit(accounts, Payer, Airdrop)
  /\ UNCHANGED <<events, issued>>

create_credential ==
  CreateCredential(Authority, DemoName, <<Signer1>>, Payer)

create_schema ==
  CreateSchema(credential_pda, DemoName, DemoText, DemoLayout, DemoFields,
               Payer)

create_attestation ==
  CreateAttestation(Signer1, credential_pda, schema_pda, TestUser, DemoData,
                    env.expiry, Payer)

update_authorized_signers ==
  ChangeAuthorizedSigners(credential_pda, <<Signer1, Signer2>>, Payer)

close_attestation ==
  CloseAttestation(Signer1, credential_pda, attestation_pda(TestUser), Payer)

tokenize_schema ==
  TokenizeSchema(credential_pda, schema_pda, SchemaMintSize, Payer)

create_tokenized_attestation ==
  CreateTokenizedAttestation(Signer1, credential_pda, schema_pda, TestUser,
    DemoData, env.expiry, Payer, TestUser, MetadataWritten, AttestationMintSize)

close_tokenized_attestation ==
  CloseTokenizedAttestation(Signer1, credential_pda,
    attestation_pda(TestUser), recipient_token_account, Payer)

PlainInstruction(step) ==
  \/ step = "fund_payer" /\ fund_payer
  \/ step = "create_credential" /\ create_credential
  \/ step = "create_schema" /\ create_schema
  \/ step = "create_attestation" /\ create_attestation
  \/ step = "update_authorized_signers" /\ update_authorized_signers
  \/ step = "close_attestation" /\ close_attestation

DemoInstruction(step) ==
  \/ PlainInstruction(step) /\ UNCHANGED tokenVars
  \/ step = "tokenize_schema" /\ tokenize_schema
  \/ step = "create_tokenized_attestation" /\ create_tokenized_attestation
  \/ step = "close_tokenized_attestation" /\ close_tokenized_attestation

----------------------------------------------------------------------------
(* The demo.                                                               *)

DemoInit ==
  /\ TokenizedInit
  /\ flow \in {StandardFlow, TokenizedFlow}
  /\ pc = 1
  /\ phase = "ready"
  /\ sent = {}
  /\ expired = {}
  /\ status = [t \in Transactions |-> "none"]
  /\ running = "none"
  /\ log = <<>>
  /\ copy = [u \in Users |-> NoData]
  /\ answer = [u \in Users |-> "none"]
  /\ errors = {}
  /\ missed = {}
  /\ others = 0
  /\ env \in [drift : Drift, placeholder : PlaceholderLen,
              addresses : {j + k : j, k \in AddressLen}, expiry : {0}]

Chained == <<vars, tokenVars>>

\* Fault: a step after the last one.
AdvancePastEnd == phase' = "ready" /\ pc' = pc + 1

\* The next step, or the end of the demo.
Advance == IF pc = Len(flow) THEN phase' = "done" /\ UNCHANGED pc
           ELSE phase' = "ready" /\ pc' = pc + 1

\* An instruction is made with the time of day, simulated for its compute
\* units, signed and sent. What the simulation says of its success is not
\* looked at.
Send == /\ phase = "ready"
        /\ Step \in Transactions
        /\ sent' = sent \cup {Step}
        /\ phase' = "waiting"
        /\ env' = IF Step \in Issuing
                    THEN [env EXCEPT !.expiry = LocalTime + Lifetime]
                    ELSE env
        /\ UNCHANGED <<flow, pc, expired, status, running, log, copy, answer,
                       errors, missed, others, Chained>>

\* An RPC call gives an error, which goes up to main: before anything is sent
\* (get_latest_blockhash, simulate_transaction, request_airdrop), or after it,
\* and then the transaction may be executed all the same.
RpcError == /\ phase \in {"ready", "waiting"}
            /\ Step \in Transactions
            /\ phase' = "failed"
            /\ errors' = errors \cup {Step}
            /\ UNCHANGED <<flow, pc, sent, expired, status, running, log, copy,
                           answer, missed, others, env, Chained>>

Confirm == /\ phase = "waiting"
           /\ status[Step] = "committed"
           /\ Advance
           /\ UNCHANGED <<flow, sent, expired, status, running, log, copy,
                          answer, errors, missed, others, env, Chained>>

\* Fault: the client waits for an answer that may never come.
FailWhenRefused == /\ phase = "waiting"
                   /\ status[Step] = "failed"
                   /\ phase' = "failed"
                   /\ UNCHANGED <<flow, pc, sent, expired, status, running,
                                  log, copy, answer, errors, missed, others,
                                  env, Chained>>

\* The error goes up to main: the transaction failed, or it was not seen to
\* be confirmed before its blockhash expired, which it may be all the same.
Fail == /\ phase = "waiting"
        /\ \/ status[Step] = "failed" /\ UNCHANGED expired
           \/ status[Step] = "none" /\ Step \in expired /\ UNCHANGED expired
           \/ status[Step] = "committed" /\ expired' = expired \cup {Step}
        /\ phase' = "failed"
        /\ UNCHANGED <<flow, pc, sent, status, running, log, copy, answer,
                       errors, missed, others, env, Chained>>

\* verify_attestation, for both users: the account as last confirmed, or
\* nothing when get_account gives an error, then the time of day.
Fetch == /\ phase = "ready"
         /\ Step = "verify_attestation"
         /\ \E lost \in SUBSET Users :
              /\ copy' = [u \in Users |->
                             IF u \in lost THEN NoData
                             ELSE saved.accounts[attestation_pda(u)].data]
              /\ missed' = {u \in lost :
                   saved.accounts[attestation_pda(u)].data # NoData}
         /\ phase' = "fetched"
         /\ UNCHANGED <<flow, pc, sent, expired, status, running, log, answer,
                        errors, others, env, Chained>>

\* Fault: an account that is there is enough.
ValidWhileThere(attestation) == attestation.kind = "attestation"

IsValid(attestation) == /\ attestation.kind = "attestation"
                        /\ LocalTime < attestation.expiry

Judge == /\ phase = "fetched"
         /\ answer' = [u \in Users |-> IF IsValid(copy[u]) THEN "verified"
                                       ELSE "not verified"]
         /\ Advance
         /\ UNCHANGED <<flow, sent, expired, status, running, log, copy,
                        errors, missed, others, env, Chained>>

\* What verify_token_attestation unwraps and asserts of the mint.
AsExpected(mint) ==
  /\ mint.kind = "mint"
  /\ mint.group = schema_mint_pda
  /\ mint.additional_metadata[1] = <<"attestation", attestation_pda(TestUser)>>
  /\ mint.additional_metadata[2] = <<"schema", schema_pda>>

\* The demo goes on if get_account gives an error, as it does where there is
\* no account, and if the account is the mint it should be. It panics on
\* anything else that is there, if only lamports.
VerifyToken == LET account == savedTokens[attestation_mint_pda] IN
               /\ phase = "ready"
               /\ Step = "verify_token_attestation"
               /\ \/ Advance
                  \/ /\ account.lamports > 0 /\ ~AsExpected(account.data)
                     /\ phase' = "panicked"
                     /\ UNCHANGED pc
               /\ UNCHANGED <<flow, sent, expired, status, running, log, copy,
                              answer, errors, missed, others, env, Chained>>

----------------------------------------------------------------------------
(* The network and the runtime.                                            *)

\* Fault: the runtime does not remember what it executed.
ExecutableAgain(step) == step \in sent \ expired

Executable(step) == /\ step \in sent \ expired
                    /\ status[step] = "none"

\* A copy of the transaction arrives and is executed.
Deliver(step) == /\ Executable(step)
                 /\ running = "none"
                 /\ Begin(SignersOf(step))
                 /\ running' = step
                 /\ UNCHANGED <<flow, pc, phase, sent, expired, status, log,
                                copy, answer, errors, missed, others, env,
                                tokenVars>>

Execute == /\ running \in Transactions
           /\ ixs = 0
           /\ DemoInstruction(running)
           /\ UNCHANGED demoVars

CommitStep == /\ running \in Transactions
              /\ ixs = 1
              /\ CommitTokens
              /\ status' = [status EXCEPT ![running] = "committed"]
              /\ log' = Append(log, running)
              /\ running' = "none"
              /\ UNCHANGED <<flow, pc, phase, sent, expired, copy, answer,
                             errors, missed, others, env>>

\* Its instruction fails, or leaves an account without rent, or takes more
\* compute units than it did when it was simulated on another state.
Refused == \/ ixs = 0 /\ ~ENABLED DemoInstruction(running)
           \/ ixs = 1 /\ ~(RentStateOk(accounts) /\ RentStateOk(tokens))
           \/ others > 0

AbortStep == /\ running \in Transactions
             /\ Refused
             /\ AbortTokens
             /\ status' = [status EXCEPT ![running] = "failed"]
             /\ running' = "none"
             /\ UNCHANGED <<flow, pc, phase, sent, expired, log, copy, answer,
                            errors, missed, others, env>>

\* The blockhash of a transaction gets too old. For one that was executed it
\* makes no difference but to the client, see Fail.
Expire(step) == /\ step \in sent \ expired
                /\ status[step] = "none"
                /\ running # step
                /\ expired' = expired \cup {step}
                /\ UNCHANGED <<flow, pc, phase, sent, status, running, log,
                               copy, answer, errors, missed, others, env,
                               Chained>>

\* Bound: not once the demo is over, which makes no difference to it.
TimePasses == /\ running = "none"
              /\ phase \notin Ended
              /\ Tick
              /\ UNCHANGED <<tokenVars, demoVars>>

\* The local clock is set anew. What it was between two looks of the client at
\* it makes no difference, so it is when the client is about to look.
ClockSet == /\ running = "none"
            /\ \/ phase = "ready" /\ Step \in Issuing
               \/ phase = "fetched"
            /\ \E d \in Drift : env' = [env EXCEPT !.drift = d]
            /\ UNCHANGED <<flow, pc, phase, sent, expired, status, running, log,
                           copy, answer, errors, missed, others, Chained>>

----------------------------------------------------------------------------
(* The other parties.                                                      *)

\* Bound: as for time.
OthersBegin(wallet) ==
  /\ running = "none"
  /\ phase \notin Ended
  /\ others < MaxOthers
  /\ Begin({wallet})
  /\ running' = "others"
  /\ others' = others + 1
  /\ UNCHANGED <<flow, pc, phase, sent, expired, status, log, copy, answer,
                 errors, missed, env, tokenVars>>

\* Replacing an attestation takes two instructions; the rent of the old one
\* pays for the new one, which never expires or lives as long as the demo's,
\* or goes on to the address of the mint.
OthersInstruction ==
  \/ /\ \/ ChangeSchemaStatus(credential_pda, schema_pda, TRUE)
        \/ ChangeAuthorizedSigners(credential_pda, <<Signer2>>, Authority)
        \/ CloseAttestation(Signer2, credential_pda,
                            attestation_pda(TestUser), Signer2)
        \/ \E expiry \in {0, clock + Lifetime} :
             CreateAttestation(Signer2, credential_pda, schema_pda, TestUser,
                               DemoData, expiry, Signer2)
     /\ UNCHANGED tokenVars
  \/ CloseTokenizedAttestation(Signer2, credential_pda,
       attestation_pda(TestUser), recipient_token_account, Signer2)
  \/ \E amount \in TokenPayment :
       FundToken(Signer2, attestation_mint_pda, amount)
  \/ BurnToken(recipient_token_account)

OthersAct == /\ running = "others"
             /\ OthersInstruction
             /\ UNCHANGED demoVars

\* Theirs may fail as well, at any point.
OthersEnd == /\ running = "others"
             /\ CommitTokens \/ AbortTokens
             /\ running' = "none"
             /\ UNCHANGED <<flow, pc, phase, sent, expired, status, log, copy,
                            answer, errors, missed, others, env>>

Demo == Send \/ Confirm \/ Fail \/ Fetch \/ Judge \/ VerifyToken
Runtime == Execute \/ CommitStep \/ AbortStep \/ OthersEnd
Network == \E step \in Transactions : Deliver(step)

DemoNext == \/ Demo
            \/ Runtime
            \/ Network
            \/ \E step \in Transactions : Expire(step)
            \/ RpcError
            \/ TimePasses
            \/ ClockSet
            \/ \E wallet \in {Authority, Signer2, TestUser} :
                 OthersBegin(wallet)
            \/ OthersAct

demoAll == <<Chained, demoVars>>

DemoSpec == DemoInit /\ [][DemoNext]_demoAll

\* The demo goes on, the runtime finishes what it began, and blockhashes get
\* too old. Nothing is asked of the network, and RPC errors need not happen.
Fairness == /\ WF_demoAll(Demo)
            /\ WF_demoAll(Runtime)
            /\ WF_demoAll(\E step \in Transactions : Expire(step))

FairDemoSpec == DemoSpec /\ Fairness

----------------------------------------------------------------------------
(* Properties.                                                             *)

Phases == {"ready", "waiting", "fetched"} \cup Ended

\* Where the demo is, and what it and the runtime remember.
DemoTypeOK ==
  /\ flow \in {StandardFlow, TokenizedFlow}
  /\ pc \in DOMAIN flow
  /\ phase \in Phases
  /\ expired \subseteq sent /\ sent \subseteq Transactions
  /\ status \in [Transactions -> {"none", "committed", "failed"}]
  /\ running \in Transactions \cup {"none", "others"}
  /\ answer \in [Users -> {"none", "verified", "not verified"}]
  /\ errors \subseteq Steps /\ missed \subseteq Users

\* However often a transaction is sent and however late it arrives, the steps
\* take effect once each and in their order, and the demo is at most one step
\* behind: what it gave up waiting for may still happen, nothing after it.
Taken(n) == {flow[i] : i \in 1 .. n} \cap Transactions
Precedes(s, t) ==
  \E i, j \in DOMAIN flow : i < j /\ flow[i] = s /\ flow[j] = t

EffectsInOrder ==
  /\ \A i, j \in DOMAIN log : i < j => Precedes(log[i], log[j])
  /\ Range(log) \in {Taken(pc - 1), Taken(pc)}
  /\ phase = "done" => Range(log) = Taken(Len(flow))

\* A demo that nobody interferes with ends badly for three reasons only: an
\* RPC call of the step it is at gave an error, the transaction was not
\* confirmed in time, or it issues the attestation and came a lifetime late,
\* which the difference of the clocks may shorten. In particular no step fails
\* for what those before it did, and the rent it asks for a mint is enough,
\* although the placeholder it sizes the metadata with is shorter in base 58
\* than the addresses that are written there.
OutcomeExplained ==
  phase \in {"failed", "panicked"} =>
    \/ others > 0
    \/ Step \in errors
    \/ Step \in expired
    \/ Step \in Issuing /\ env.expiry < clock

\* When it is done the attestation and its mint are gone, and all that the
\* airdrop gave the payer is in its wallet or the rent of what stays.
Remaining == {credential_pda, schema_pda, Payer}
RemainingTokens == {schema_mint_pda, recipient_token_account}

RentReturned ==
  phase = "done" /\ others = 0 =>
    /\ accounts[attestation_pda(TestUser)] = Vacant
    /\ tokens[attestation_mint_pda] = Vacant
    /\ Airdrop =
         MapThenSumSet(LAMBDA a : accounts[a].lamports, Remaining)
           + MapThenSumSet(LAMBDA t : tokens[t].lamports, RemainingTokens)

\* Whatever changes between the fetch and the verdict, whoever acts and
\* however the local clock is set: a stranger is not verified, the attester's
\* word is good as long as it asked for and no longer, even when the account
\* was closed after it was fetched, and the user is refused only when that
\* time is over, the account could not be fetched, or others had acted.
SignedBy(attestation, signer) ==
  attestation.kind = "attestation" /\ attestation.signer = signer

VerdictsRight ==
  [][answer' # answer =>
       /\ answer'[RandomUser] = "not verified"
       /\ answer'[TestUser] = "verified" =>
            \/ LocalTime < env.expiry
            \/ others > 0 /\ SignedBy(copy[TestUser], Signer2)
       /\ answer'[TestUser] = "not verified" =>
            \/ LocalTime >= env.expiry
            \/ TestUser \in missed
            \/ others > 0 /\ ~SignedBy(copy[TestUser], Signer1)]_answer

\* The look at the token panics only where there is no mint any more, for the
\* others have closed it and sent lamports to its address: a mint that is there
\* is in the group of the schema and has the metadata, in the order in which it
\* is looked at.
PanicExplained ==
  [][phase' = "panicked" =>
       /\ others > 0
       /\ savedTokens[attestation_mint_pda].data.kind # "mint"]_phase

\* state/attestation.rs:28 says of the expiry: "0 means never expired". So an
\* attestation with that expiry is verified whenever it is looked at.
NeverExpiresVerified ==
  \A u \in Users :
    copy[u].kind = "attestation" /\ copy[u].expiry = 0 =>
      answer[u] # "not verified"

\* Whatever the network and the others do, the demo ends.
Ends == <>(phase \in Ended)

=============================================================================
