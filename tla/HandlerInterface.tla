-------------------------- MODULE HandlerInterface --------------------------
(***************************************************************************)
(* What the program takes out of a request before it looks into any        *)
(* account: for every discriminator the handler with                       *)
(*                                                                         *)
(*   roles    the pattern its list of accounts is matched against;         *)
(*   signers  the roles that have to sign: those passed to verify_signer   *)
(*            and the payer where a transfer takes lamports from it;       *)
(*   written  the roles whose data or lamports change, by its own hand or  *)
(*            by the programs it calls;                                    *)
(*   parsers  the fields read from the instruction data, one sequence for  *)
(*            every pass over it ("" is skipped).                          *)
(*                                                                         *)
(* The accounts that are created are taken not to be funded and those that *)
(* change to grow, so that the payer of the handler does pay.              *)
(***************************************************************************)
EXTENDS Sequences, Integers

ReadBytes(field) == <<field, "length-prefixed bytes">>
ReadStrings(field) == <<field, "counted, length-prefixed byte strings">>
ReadKeys(field) == <<field, "counted keys">>
ReadKey(field) == <<field, "32 bytes">>
Read8(field) == <<field, "8 bytes">>
Read2(field) == <<field, "2 bytes">>
Read1(field) == <<field, "1 byte">>

Paying(writes) == {"payer"} \cup writes
Issued == {"payer", "authority"}

\* A fault: the accounts in the order of the other instructions.
ProcessCreateCredentialReordered ==
  [roles |-> <<"payer", "authority", "credential", "system_program">>,
   signers |-> Issued,
   written |-> Paying({"credential"}),
   parsers |-> << <<ReadBytes("name"), ReadKeys("signers")>> >>]
ProcessCreateCredential ==
  [roles |-> <<"payer", "credential", "authority", "system_program">>,
   signers |-> Issued,
   written |-> Paying({"credential"}),
   parsers |-> << <<ReadBytes("name"), ReadKeys("signers")>> >>]

ProcessCreateSchema ==
  [roles |-> <<"payer", "authority", "credential", "schema",
               "system_program">>,
   signers |-> Issued,
   written |-> Paying({"schema"}),
   parsers |-> << <<ReadBytes("name"), ReadBytes("description"),
                    ReadBytes("layout"), ReadStrings("field_names")>> >>]

\* A fault: verify_signer is forgotten.
ProcessChangeSchemaStatusUnsigned ==
  [roles |-> <<"authority", "credential", "schema">>,
   signers |-> {},
   written |-> {"schema"},
   parsers |-> << <<Read1("is_paused")>> >>]
ProcessChangeSchemaStatus ==
  [roles |-> <<"authority", "credential", "schema">>,
   signers |-> {"authority"},
   written |-> {"schema"},
   parsers |-> << <<Read1("is_paused")>> >>]

ProcessChangeAuthorizedSigners ==
  [roles |-> <<"payer", "authority", "credential", "system_program">>,
   signers |-> Issued,
   written |-> Paying({"credential"}),
   parsers |-> << <<ReadKeys("signers")>> >>]

ProcessChangeSchemaDescription ==
  [roles |-> <<"payer", "authority", "credential", "schema",
               "system_program">>,
   signers |-> Issued,
   written |-> Paying({"schema"}),
   parsers |-> << <<ReadBytes("description")>> >>]

ProcessChangeSchemaVersion ==
  [roles |-> <<"payer", "authority", "credential", "existing_schema",
               "new_schema", "system_program">>,
   signers |-> Issued,
   written |-> Paying({"new_schema"}),
   parsers |-> << <<ReadBytes("layout"), ReadStrings("field_names")>> >>]

ProcessCreateAttestation ==
  [roles |-> <<"payer", "authority", "credential", "schema", "attestation",
               "system_program">>,
   signers |-> Issued,
   written |-> Paying({"attestation"}),
   parsers |-> << <<ReadKey("nonce"), ReadBytes("data"), Read8("expiry")>> >>]

\* The rent goes to the payer, which need not sign for it.
ProcessCloseAttestation ==
  [roles |-> <<"payer", "authority", "credential", "attestation",
               "event_authority", "system_program", "attestation_program">>,
   signers |-> {"authority"},
   written |-> Paying({"attestation"}),
   parsers |-> <<>>]

ProcessTokenizeSchema ==
  [roles |-> <<"payer", "authority", "credential", "schema", "mint",
               "sas_pda", "system_program", "token_program">>,
   signers |-> Issued,
   written |-> Paying({"mint"}),
   parsers |-> << <<Read8("max_size")>> >>]

\* The first accounts and the first pass are those of a plain attestation.
ProcessCreateTokenizedAttestation ==
  [roles |-> ProcessCreateAttestation.roles \o
             <<"schema_mint", "attestation_mint", "sas_pda",
               "recipient_token_account", "recipient", "token_program",
               "associated_token_program">>,
   signers |-> Issued,
   written |-> ProcessCreateAttestation.written \cup
               {"schema_mint", "attestation_mint", "recipient_token_account"},
   parsers |-> ProcessCreateAttestation.parsers \o
               << <<ReadKey(""), ReadBytes(""), Read8(""), ReadBytes("name"),
                    ReadBytes("uri"), ReadBytes("symbol"),
                    Read2("mint_account_space")>> >>]

ProcessCloseTokenizedAttestation ==
  [roles |-> ProcessCloseAttestation.roles \o
             <<"attestation_mint", "sas_pda", "attestation_token_account",
               "token_program">>,
   signers |-> ProcessCloseAttestation.signers,
   written |-> ProcessCloseAttestation.written \cup
               {"attestation_mint", "attestation_token_account"},
   parsers |-> <<>>]

\* A fault: the address of the event authority is enough.
ProcessEmitEventUnsigned ==
  [roles |-> <<"event_authority">>,
   signers |-> {},
   written |-> {},
   parsers |-> <<>>]
ProcessEmitEvent ==
  [roles |-> <<"event_authority">>,
   signers |-> {"event_authority"},
   written |-> {},
   parsers |-> <<>>]

\* process_instruction: the handlers by the discriminators they answer to
Dispatch(discriminator) ==
  CASE discriminator = 0   -> {ProcessCreateCredential}
    [] discriminator = 1   -> {ProcessCreateSchema}
    [] discriminator = 2   -> {ProcessChangeSchemaStatus}
    [] discriminator = 3   -> {ProcessChangeAuthorizedSigners}
    [] discriminator = 4   -> {ProcessChangeSchemaDescription}
    [] discriminator = 5   -> {ProcessChangeSchemaVersion}
    [] discriminator = 6   -> {ProcessCreateAttestation}
    [] discriminator = 7   -> {ProcessCloseAttestation}
    [] discriminator = 9   -> {ProcessTokenizeSchema}
    [] discriminator = 10  -> {ProcessCreateTokenizedAttestation}
    [] discriminator = 11  -> {ProcessCloseTokenizedAttestation}
    [] discriminator = 228 -> {ProcessEmitEvent}
    [] OTHER               -> {}

=============================================================================
