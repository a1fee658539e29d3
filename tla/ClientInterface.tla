-------------------------- MODULE ClientInterface --------------------------
(***************************************************************************)
(* What the Rust client puts into a request: for every instruction of the  *)
(* program the discriminator, the arguments in the order in which Borsh    *)
(* writes them, and the accounts with the flags of their AccountMeta.      *)
(* Every instruction comes in four forms that are used apart:              *)
(*                                                                         *)
(*   X            the request itself, as `X::instruction` makes it;        *)
(*   XBuilder     a builder that makes it from optional fields;            *)
(*   XCpi         the same request, made by a program for a call of its    *)
(*                own (`invoke_signed_with_remaining_accounts`);           *)
(*   XCpiBuilder  the builder of that call.                                *)
(*                                                                         *)
(* A builder demands every argument and every account without a default.   *)
(***************************************************************************)
EXTENDS Sequences, Integers

\* AccountMeta::new and AccountMeta::new_readonly, with is_signer
Payer(name) == [name |-> name, writable |-> TRUE, signer |-> TRUE]
Writable(name) == [name |-> name, writable |-> TRUE, signer |-> FALSE]
Signing(name) == [name |-> name, writable |-> FALSE, signer |-> TRUE]
Readonly(name) == [name |-> name, writable |-> FALSE, signer |-> FALSE]

\* The arguments, by what Borsh writes for their types: strings and byte
\* vectors alike are a length and bytes, so nothing tells them apart there.
Bytes(name) == <<name, "length-prefixed bytes">>
String(name) == Bytes(name)
Strings(name) == <<name, "counted, length-prefixed byte strings">>
Keys(name) == <<name, "counted keys">>
Key(name) == <<name, "32 bytes">>
Int64(name) == <<name, "8 bytes">>
UInt64(name) == Int64(name)
UInt16(name) == <<name, "2 bytes">>
Bool(name) == <<name, "1 byte">>

NoDefaults == {}

\* A builder makes `request` when all is set but what has a default.
Builder(request, defaults) ==
  [request |-> request, defaults |-> defaults]

\* The same discriminator, arguments and accounts, for a call from a program.
Cpi(request) ==
  [discriminator |-> request.discriminator,
   args |-> request.args,
   accounts |-> request.accounts,
   invoked |-> TRUE]

----------------------------------------------------------------------------
CreateCredential ==
  [discriminator |-> 0,
   args |-> <<String("name"), Keys("signers")>>,
   accounts |->
    <<Payer("payer"), Writable("credential"), Signing("authority"),
      Readonly("system_program")>>,
   invoked |-> FALSE]
CreateCredentialBuilder == Builder(CreateCredential, {"system_program"})
CreateCredentialCpi == Cpi(CreateCredential)
CreateCredentialCpiBuilder == Builder(CreateCredentialCpi, NoDefaults)

CreateSchema ==
  [discriminator |-> 1,
   args |-> <<String("name"), String("description"), Bytes("layout"),
             Strings("field_names")>>,
   accounts |->
    <<Payer("payer"), Signing("authority"), Readonly("credential"),
      Writable("schema"), Readonly("system_program")>>,
   invoked |-> FALSE]
CreateSchemaBuilder == Builder(CreateSchema, {"system_program"})
CreateSchemaCpi == Cpi(CreateSchema)
CreateSchemaCpiBuilder == Builder(CreateSchemaCpi, NoDefaults)

ChangeSchemaStatus ==
  [discriminator |-> 2,
   args |-> <<Bool("is_paused")>>,
   accounts |->
    <<Signing("authority"), Readonly("credential"),
      Writable("schema")>>,
   invoked |-> FALSE]
ChangeSchemaStatusBuilder == Builder(ChangeSchemaStatus, NoDefaults)
ChangeSchemaStatusCpi == Cpi(ChangeSchemaStatus)
ChangeSchemaStatusCpiBuilder == Builder(ChangeSchemaStatusCpi, NoDefaults)

ChangeAuthorizedSigners ==
  [discriminator |-> 3,
   args |-> <<Keys("signers")>>,
   accounts |->
    <<Payer("payer"), Signing("authority"), Writable("credential"),
      Readonly("system_program")>>,
   invoked |-> FALSE]
ChangeAuthorizedSignersBuilder == Builder(ChangeAuthorizedSigners,
  {"system_program"})
ChangeAuthorizedSignersCpi == Cpi(ChangeAuthorizedSigners)
ChangeAuthorizedSignersCpiBuilder ==
  Builder(ChangeAuthorizedSignersCpi, NoDefaults)

ChangeSchemaDescription ==
  [discriminator |-> 4,
   args |-> <<String("description")>>,
   accounts |->
    <<Payer("payer"), Signing("authority"), Readonly("credential"),
      Writable("schema"), Readonly("system_program")>>,
   invoked |-> FALSE]
ChangeSchemaDescriptionBuilder == Builder(ChangeSchemaDescription,
  {"system_program"})
ChangeSchemaDescriptionCpi == Cpi(ChangeSchemaDescription)
ChangeSchemaDescriptionCpiBuilder ==
  Builder(ChangeSchemaDescriptionCpi, NoDefaults)

ChangeSchemaVersion ==
  [discriminator |-> 5,
   args |-> <<Bytes("layout"), Strings("field_names")>>,
   accounts |->
    <<Payer("payer"), Signing("authority"), Readonly("credential"),
      Readonly("existing_schema"), Writable("new_schema"),
      Readonly("system_program")>>,
   invoked |-> FALSE]
ChangeSchemaVersionBuilder == Builder(ChangeSchemaVersion,
  {"system_program"})
ChangeSchemaVersionCpi == Cpi(ChangeSchemaVersion)
ChangeSchemaVersionCpiBuilder == Builder(ChangeSchemaVersionCpi, NoDefaults)

CreateAttestation ==
  [discriminator |-> 6,
   args |-> <<Key("nonce"), Bytes("data"), Int64("expiry")>>,
   accounts |->
    <<Payer("payer"), Signing("authority"), Readonly("credential"),
      Readonly("schema"), Writable("attestation"),
      Readonly("system_program")>>,
   invoked |-> FALSE]
CreateAttestationBuilder == Builder(CreateAttestation,
  {"system_program"})
CreateAttestationCpi == Cpi(CreateAttestation)
CreateAttestationCpiBuilder == Builder(CreateAttestationCpi, NoDefaults)

CloseAttestation ==
  [discriminator |-> 7,
   args |-> <<>>,
   accounts |->
    <<Payer("payer"), Signing("authority"), Readonly("credential"),
      Writable("attestation"), Readonly("event_authority"),
      Readonly("system_program"), Readonly("attestation_program")>>,
   invoked |-> FALSE]
CloseAttestationBuilder == Builder(CloseAttestation,
  {"event_authority", "system_program", "attestation_program"})
CloseAttestationCpi == Cpi(CloseAttestation)
CloseAttestationCpiBuilder == Builder(CloseAttestationCpi, NoDefaults)

TokenizeSchema ==
  [discriminator |-> 9,
   args |-> <<UInt64("max_size")>>,
   accounts |->
    <<Payer("payer"), Signing("authority"), Readonly("credential"),
      Readonly("schema"), Writable("mint"), Readonly("sas_pda"),
      Readonly("system_program"), Readonly("token_program")>>,
   invoked |-> FALSE]
TokenizeSchemaBuilder == Builder(TokenizeSchema,
  {"system_program", "token_program"})
TokenizeSchemaCpi == Cpi(TokenizeSchema)
TokenizeSchemaCpiBuilder == Builder(TokenizeSchemaCpi, NoDefaults)

\* A fault: name, symbol and uri in the order of the token metadata.
CreateTokenizedAttestationReordered ==
  [discriminator |-> 10,
   args |-> <<Key("nonce"), Bytes("data"), Int64("expiry"),
             String("name"), String("symbol"), String("uri"),
             UInt16("mint_account_space")>>,
   accounts |->
    <<Payer("payer"), Signing("authority"), Readonly("credential"),
      Readonly("schema"), Writable("attestation"),
      Readonly("system_program"), Writable("schema_mint"),
      Writable("attestation_mint"), Readonly("sas_pda"),
      Writable("recipient_token_account"), Readonly("recipient"),
      Readonly("token_program"),
      Readonly("associated_token_program")>>,
   invoked |-> FALSE]
CreateTokenizedAttestation ==
  [discriminator |-> 10,
   args |-> <<Key("nonce"), Bytes("data"), Int64("expiry"),
             String("name"), String("uri"), String("symbol"),
             UInt16("mint_account_space")>>,
   accounts |->
    <<Payer("payer"), Signing("authority"), Readonly("credential"),
      Readonly("schema"), Writable("attestation"),
      Readonly("system_program"), Writable("schema_mint"),
      Writable("attestation_mint"), Readonly("sas_pda"),
      Writable("recipient_token_account"), Readonly("recipient"),
      Readonly("token_program"),
      Readonly("associated_token_program")>>,
   invoked |-> FALSE]
CreateTokenizedAttestationBuilder == Builder(CreateTokenizedAttestation,
  {"system_program", "token_program", "associated_token_program"})
CreateTokenizedAttestationCpi == Cpi(CreateTokenizedAttestation)
CreateTokenizedAttestationCpiBuilder ==
  Builder(CreateTokenizedAttestationCpi, NoDefaults)

CloseTokenizedAttestation ==
  [discriminator |-> 11,
   args |-> <<>>,
   accounts |->
    <<Payer("payer"), Signing("authority"), Readonly("credential"),
      Writable("attestation"), Readonly("event_authority"),
      Readonly("system_program"), Readonly("attestation_program"),
      Writable("attestation_mint"), Readonly("sas_pda"),
      Writable("attestation_token_account"),
      Readonly("token_program")>>,
   invoked |-> FALSE]
CloseTokenizedAttestationBuilder == Builder(CloseTokenizedAttestation,
  {"event_authority", "system_program", "attestation_program",
   "token_program"})
CloseTokenizedAttestationCpi == Cpi(CloseTokenizedAttestation)
CloseTokenizedAttestationCpiBuilder ==
  Builder(CloseTokenizedAttestationCpi, NoDefaults)

EmitEvent ==
  [discriminator |-> 228,
   args |-> <<>>,
   accounts |->
    <<Signing("event_authority")>>,
   invoked |-> FALSE]
EmitEventBuilder == Builder(EmitEvent, {"event_authority"})
EmitEventCpi == Cpi(EmitEvent)
EmitEventCpiBuilder == Builder(EmitEventCpi, NoDefaults)

============================================================================
