------------------------ MODULE MCAttestationService ------------------------
(***************************************************************************)
(* Small instances of AttestationService: the values that the .cfg files   *)
(* of its runs give to the constants that are sets of sequences, records   *)
(* or addresses.                                                           *)
(***************************************************************************)
EXTENDS RegistryRefinement

CONSTANTS Issuer1, Issuer2, Attester

(* Names, descriptions and field-name lists.                               *)
OneName == {<<65>>}
OneDescription == {<<1>>}
Descriptions == {<<>>, <<1>>, <<1, 2, 3>>}
OneField == {[count |-> 1, bytes |-> 5]}
AttesterPayee == {Attester}

(* Layouts of one field, u8, u16 and a code past the last; data that       *)
(* follows one of the first two.                                           *)
OneLayout == {<<0>>}
LayoutsAndInvalid == {<<0>>, <<1>>, <<26>>}
OneDatum == {<<7>>}
TwoData == {<<7>>, <<7, 7>>}

AttesterLists == {<<>>, <<Attester>>}
Issuer2Lists == {<<>>, <<Issuer2>>}
ListsUpTo2 == {<<>>, <<Issuer1>>, <<Issuer1, Issuer1>>}
OneList == {<<Issuer1>>}
IssuerLists == {<<>>, <<Issuer1>>}

(* The addresses one issuer uses, as targets of plain transfers.           *)
Credential1 == CredentialPda(Issuer1, <<65>>)
Schema1 == SchemaPda(Credential1, <<65>>, 1)
CredentialAndSchema == {Credential1, Schema1}
AttestationAndIssuer ==
  {[seed |-> "attestation", credential |-> Credential1, schema |-> Schema1,
    nonce |-> n] : n \in Nonce} \cup {Issuer1}

=============================================================================
