------------------------------ MODULE Registry ------------------------------
(***************************************************************************)
(* What the attestation program promises: a public registry of             *)
(* credentials, schemas and attestations.                                  *)
(*                                                                         *)
(* An entry is known by who is responsible for it and by what it is        *)
(* called: no addresses, accounts, rent or sizes.  Issuers edit a draft of *)
(* the registry and publish or drop it as a whole; what others may rely on *)
(* is the published one.                                                   *)
(***************************************************************************)
EXTENDS DataValidation, FiniteSets

CONSTANTS
  Wallet, Name, Nonce, MaxVersion, SignerList, Description, Layout,
  FieldNames, Data, Expiry

VARIABLES
  draft,      \* the registry as the authors of the draft see it
  published,  \* the registry as everybody else does
  authors,    \* the wallets that stand for the draft, or {}
  clock

vars == <<draft, published, authors, clock>>

(* Names of the entries.                                                   *)
CredentialId == Wallet \X Name
SchemaId ==
  [credential : CredentialId, name : Name, version : 1 .. MaxVersion]
AttestationId == [schema : SchemaId, nonce : Nonce]

(* A registry maps the names of its entries to what they say, and counts   *)
(* the revocations announced by schema and data.                           *)
Empty ==
  [credentials |-> <<>>, schemas |-> <<>>, attestations |-> <<>>,
   revoked |-> [e \in SchemaId \X Data |-> 0]]

(* f with x mapped to v, whether x was in its domain or not; f without x;  *)
(* and f with one more at x.                                               *)
With(f, x, v) == [y \in DOMAIN f \cup {x} |-> IF y = x THEN v ELSE f[y]]
Without(f, x) == [y \in DOMAIN f \ {x} |-> f[y]]
Counted(f, x) == [f EXCEPT ![x] = @ + 1]

Edit == authors # {} /\ UNCHANGED <<published, authors, clock>>

(* The wallet responsible for a credential is an author.                   *)
Responsible(c) == c \in DOMAIN draft.credentials /\ c[1] \in authors

(* An author whom the credential lists as a signer.                        *)
Listed(signer, c) ==
  /\ signer \in authors
  /\ c \in DOMAIN draft.credentials
  /\ \E i \in 1 .. Len(draft.credentials[c]) : draft.credentials[c][i] = signer

-----------------------------------------------------------------------------
NewCredential(c, list) ==
  /\ Edit
  /\ c[1] \in authors
  /\ c \notin DOMAIN draft.credentials
  /\ draft' = [draft EXCEPT !.credentials = With(@, c, list)]

ListSigners(c, list) ==
  /\ Edit
  /\ Responsible(c)
  /\ draft' = [draft EXCEPT !.credentials = With(@, c, list)]

(* A schema is new with version 1, or follows the version before it.       *)
NewSchema(s, description, layout, fieldNames) ==
  /\ Edit
  /\ Responsible(s.credential)
  /\ s \notin DOMAIN draft.schemas
  /\ s.version > 1 =>
       LET before == [s EXCEPT !.version = @ - 1]
       IN  /\ before \in DOMAIN draft.schemas
           /\ draft.schemas[before].description = description
  /\ \A i \in 1 .. Len(layout) : layout[i] <= MaxDataType
  /\ fieldNames.count = Len(layout)
  /\ draft' = [draft EXCEPT !.schemas =
                 With(@, s, [description |-> description, layout |-> layout,
                             field_names |-> fieldNames, is_paused |-> FALSE])]

SetStatus(s, paused) ==
  /\ Edit
  /\ Responsible(s.credential)
  /\ s \in DOMAIN draft.schemas
  /\ draft' = [draft EXCEPT !.schemas =
                 With(@, s, [@[s] EXCEPT !.is_paused = paused])]

Describe(s, description) ==
  /\ Edit
  /\ Responsible(s.credential)
  /\ s \in DOMAIN draft.schemas
  /\ draft' = [draft EXCEPT !.schemas =
                 With(@, s, [@[s] EXCEPT !.description = description])]

Attest(signer, a, data, expiry) ==
  /\ Edit
  /\ Listed(signer, a.schema.credential)
  /\ a.schema \in DOMAIN draft.schemas
  /\ ~draft.schemas[a.schema].is_paused
  /\ expiry = 0 \/ expiry >= clock
  /\ ValidateData(draft.schemas[a.schema].layout, data) = "ok"
  /\ a \notin DOMAIN draft.attestations
  /\ draft' = [draft EXCEPT !.attestations =
                 With(@, a, [data |-> data, signer |-> signer,
                             expiry |-> expiry])]

Revoke(signer, a) ==
  /\ Edit
  /\ Listed(signer, a.schema.credential)
  /\ a \in DOMAIN draft.attestations
  /\ draft' = [draft EXCEPT
       !.attestations = Without(@, a),
       !.revoked = Counted(@, <<a.schema, draft.attestations[a].data>>)]

-----------------------------------------------------------------------------
Open(wallets) ==
  /\ authors = {}
  /\ authors' = wallets
  /\ UNCHANGED <<draft, published, clock>>

Publish ==
  /\ authors # {}
  /\ published' = draft
  /\ authors' = {}
  /\ UNCHANGED <<draft, clock>>

Drop ==
  /\ authors # {}
  /\ draft' = published
  /\ authors' = {}
  /\ UNCHANGED <<published, clock>>

Tick ==
  /\ authors = {}
  /\ clock' = clock + 1
  /\ UNCHANGED <<draft, published, authors>>

Init ==
  /\ draft = Empty
  /\ published = Empty
  /\ authors = {}
  /\ clock = 1

CredentialNext ==
  \E c \in CredentialId, list \in SignerList :
    NewCredential(c, list) \/ ListSigners(c, list)

SchemaNext ==
  \E s \in SchemaId :
    \/ \E description \in Description :
         \/ Describe(s, description)
         \/ \E layout \in Layout, fieldNames \in FieldNames :
              NewSchema(s, description, layout, fieldNames)
    \/ \E paused \in BOOLEAN : SetStatus(s, paused)

AttestationNext ==
  \E signer \in Wallet, a \in AttestationId :
    \/ \E data \in Data, expiry \in Expiry : Attest(signer, a, data, expiry)
    \/ Revoke(signer, a)

Next ==
  \/ CredentialNext
  \/ SchemaNext
  \/ AttestationNext
  \/ \E wallets \in (SUBSET Wallet) \ {{}} : Open(wallets)
  \/ Publish
  \/ Drop
  \/ Tick

Spec == Init /\ [][Next]_vars

=============================================================================
