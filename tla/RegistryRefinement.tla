------------------------- MODULE RegistryRefinement -------------------------
(***************************************************************************)
(* The registry that the accounts of the program stand for: an account     *)
(* counts as the entry its address is derived for.  Lamports, sizes,       *)
(* owners, token accounts and zeroed wallets do not show.                  *)
(***************************************************************************)
EXTENDS AttestationService

CredentialAt(c) == CredentialPda(c[1], c[2])
SchemaAt(s) == SchemaPda(CredentialAt(s.credential), s.name, s.version)
AttestationAt(a) ==
  AttestationPda(CredentialAt(a.schema.credential), SchemaAt(a.schema), a.nonce)

Ids == INSTANCE Registry
         WITH draft <- 0, published <- 0, authors <- {}

(* The registry of a ledger and the events emitted.                        *)
RegistryOf(ledger, emitted) ==
  [credentials |->
     [c \in {i \in Ids!CredentialId :
               HeldIn(ledger, CredentialAt(i), "credential")} |->
        ledger[CredentialAt(c)].data.authorized_signers],
   schemas |->
     [s \in {i \in Ids!SchemaId : HeldIn(ledger, SchemaAt(i), "schema")} |->
        LET d == ledger[SchemaAt(s)].data
        IN  [description |-> d.description, layout |-> d.layout,
             field_names |-> d.field_names, is_paused |-> d.is_paused]],
   attestations |->
     [a \in {i \in Ids!AttestationId :
               HeldIn(ledger, AttestationAt(i), "attestation")} |->
        LET d == ledger[AttestationAt(a)].data
        IN  [data |-> d.data, signer |-> d.signer, expiry |-> d.expiry]],
   revoked |->
     [e \in Ids!SchemaId \X Data |->
        emitted[[schema |-> SchemaAt(e[1]), data |-> e[2]]]]]

R == INSTANCE Registry
       WITH draft <- RegistryOf(accounts, events),
            published <- RegistryOf(saved.accounts, saved.events),
            authors <- signers

(* The program implements the registry: whatever addresses hold before     *)
(* they are used, whoever pays, however accounts grow, shrink, close and   *)
(* come back, every step is one of the registry or leaves it as it is.     *)
ImplementsRegistry == R!Spec

=============================================================================
