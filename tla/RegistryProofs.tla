--------------------------- MODULE RegistryProofs ---------------------------
(***************************************************************************)
(* The program implements the registry (RegistryRefinement): initial       *)
(* states map to initial states, and every step of the program to one of   *)
(* the registry or to none, for every value of the constants.              *)
(***************************************************************************)
EXTENDS RegistryRefinement, TokenizationProofs

-----------------------------------------------------------------------------
(* The parts of the registry of a ledger.                                  *)

CredentialsOf(ledger) ==
  [c \in {i \in R!CredentialId :
            HeldIn(ledger, CredentialAt(i), "credential")} |->
     ledger[CredentialAt(c)].data.authorized_signers]

Entry(d) ==
  [description |-> d.description, layout |-> d.layout,
   field_names |-> d.field_names, is_paused |-> d.is_paused]

SchemasOf(ledger) ==
  [s \in {i \in R!SchemaId : HeldIn(ledger, SchemaAt(i), "schema")} |->
     Entry(ledger[SchemaAt(s)].data)]

Statement(d) == [data |-> d.data, signer |-> d.signer, expiry |-> d.expiry]

AttestationsOf(ledger) ==
  [a \in {i \in R!AttestationId :
            HeldIn(ledger, AttestationAt(i), "attestation")} |->
     Statement(ledger[AttestationAt(a)].data)]

RevokedIn(emitted) ==
  [e \in R!SchemaId \X Data |->
     emitted[[schema |-> SchemaAt(e[1]), data |-> e[2]]]]

LEMMA RegistryParts ==
  ASSUME NEW ledger, NEW emitted
  PROVE  RegistryOf(ledger, emitted) =
           [credentials |-> CredentialsOf(ledger),
            schemas |-> SchemasOf(ledger),
            attestations |-> AttestationsOf(ledger),
            revoked |-> RevokedIn(emitted)]
BY DEF RegistryOf, CredentialsOf, SchemasOf, AttestationsOf, RevokedIn,
       Entry, Statement, R!CredentialId, R!SchemaId, R!AttestationId,
       Ids!CredentialId, Ids!SchemaId, Ids!AttestationId

-----------------------------------------------------------------------------
(* Entries and addresses.                                                  *)

LEMMA CredentialPlaces ==
  /\ \A c \in R!CredentialId :
       /\ CredentialAt(c) \in CredentialAddress
       /\ CredentialAt(c).authority = c[1] /\ CredentialAt(c).name = c[2]
  /\ \A c, d \in R!CredentialId : CredentialAt(c) = CredentialAt(d) => c = d
  /\ \A k \in CredentialAddress :
       \E c \in R!CredentialId : CredentialAt(c) = k
<1>1. \A c \in R!CredentialId :
        /\ CredentialAt(c) \in CredentialAddress
        /\ CredentialAt(c).authority = c[1] /\ CredentialAt(c).name = c[2]
  BY DEF R!CredentialId, CredentialAt, CredentialPda, CredentialAddress
<1>2. \A c, d \in R!CredentialId : c[1] = d[1] /\ c[2] = d[2] => c = d
  BY DEF R!CredentialId
<1>3. ASSUME NEW k \in CredentialAddress
      PROVE  \E c \in R!CredentialId : CredentialAt(c) = k
  <2>1. <<k.authority, k.name>> \in R!CredentialId
    BY DEF R!CredentialId, CredentialAddress
  <2>2. CredentialAt(<<k.authority, k.name>>) = k
    BY DEF CredentialAt, CredentialPda, CredentialAddress
  <2> QED BY <2>1, <2>2
<1> QED BY <1>1, <1>2, <1>3

LEMMA SchemaPlaces ==
  /\ \A s \in R!SchemaId :
       /\ SchemaAt(s) \in SchemaAddress
       /\ SchemaAt(s).credential = CredentialAt(s.credential)
       /\ SchemaAt(s).name = s.name /\ SchemaAt(s).version = s.version
       /\ s.credential \in R!CredentialId
  /\ \A s, t \in R!SchemaId : SchemaAt(s) = SchemaAt(t) => s = t
  /\ \A x \in SchemaAddress : x.credential \in CredentialAddress =>
       \E s \in R!SchemaId : SchemaAt(s) = x
<1>1. \A s \in R!SchemaId :
        /\ SchemaAt(s) \in SchemaAddress
        /\ SchemaAt(s).credential = CredentialAt(s.credential)
        /\ SchemaAt(s).name = s.name /\ SchemaAt(s).version = s.version
        /\ s.credential \in R!CredentialId
  <2> SUFFICES ASSUME NEW s \in R!SchemaId
               PROVE  /\ SchemaAt(s) \in SchemaAddress
                      /\ SchemaAt(s).credential = CredentialAt(s.credential)
                      /\ SchemaAt(s).name = s.name
                      /\ SchemaAt(s).version = s.version
                      /\ s.credential \in R!CredentialId
    OBVIOUS
  <2>1. /\ s.credential \in R!CredentialId /\ s.name \in Name
        /\ s.version \in 1 .. MaxVersion
    BY DEF R!SchemaId
  <2>2. CredentialAt(s.credential) \in CredentialKey
    BY <2>1, CredentialPlaces DEF CredentialKey
  <2> QED BY <2>1, <2>2 DEF SchemaAt, SchemaPda, SchemaAddress
<1>2. ASSUME NEW s \in R!SchemaId, NEW t \in R!SchemaId,
             SchemaAt(s) = SchemaAt(t)
      PROVE  s = t
  <2>1. s.credential = t.credential /\ s.name = t.name /\ s.version = t.version
    BY <1>1, <1>2, CredentialPlaces
  <2> QED BY <2>1 DEF R!SchemaId
<1>3. ASSUME NEW x \in SchemaAddress, x.credential \in CredentialAddress
      PROVE  \E s \in R!SchemaId : SchemaAt(s) = x
  <2>1. PICK c \in R!CredentialId : CredentialAt(c) = x.credential
    BY <1>3, CredentialPlaces
  <2> DEFINE s == [credential |-> c, name |-> x.name, version |-> x.version]
  <2>2. s \in R!SchemaId
    BY DEF R!SchemaId, SchemaAddress
  <2>3. SchemaAt(s) = x
    BY <2>1 DEF SchemaAt, SchemaPda, SchemaAddress
  <2> QED BY <2>2, <2>3
<1> QED BY <1>1, <1>2, <1>3

LEMMA AttestationPlaces ==
  /\ \A a \in R!AttestationId :
       /\ AttestationAt(a) \in AttestationAddress
       /\ AttestationAt(a).credential = CredentialAt(a.schema.credential)
       /\ AttestationAt(a).schema = SchemaAt(a.schema)
       /\ AttestationAt(a).nonce = a.nonce
       /\ a.schema \in R!SchemaId
  /\ \A a, b \in R!AttestationId : AttestationAt(a) = AttestationAt(b) => a = b
  /\ \A x \in AttestationAddress :
       /\ x.credential \in CredentialAddress
       /\ x.schema.credential = x.credential
       => \E a \in R!AttestationId : AttestationAt(a) = x
<1>1. \A a \in R!AttestationId :
        /\ AttestationAt(a) \in AttestationAddress
        /\ AttestationAt(a).credential = CredentialAt(a.schema.credential)
        /\ AttestationAt(a).schema = SchemaAt(a.schema)
        /\ AttestationAt(a).nonce = a.nonce
        /\ a.schema \in R!SchemaId
  <2> SUFFICES ASSUME NEW a \in R!AttestationId
      PROVE  /\ AttestationAt(a) \in AttestationAddress
             /\ AttestationAt(a).credential = CredentialAt(a.schema.credential)
             /\ AttestationAt(a).schema = SchemaAt(a.schema)
             /\ AttestationAt(a).nonce = a.nonce
             /\ a.schema \in R!SchemaId
    OBVIOUS
  <2>1. a.schema \in R!SchemaId /\ a.nonce \in Nonce
    BY DEF R!AttestationId
  <2>2. /\ CredentialAt(a.schema.credential) \in CredentialKey
        /\ SchemaAt(a.schema) \in SchemaAddress
    BY <2>1, SchemaPlaces, CredentialPlaces DEF CredentialKey
  <2> QED BY <2>1, <2>2 DEF AttestationAt, AttestationPda, AttestationAddress
<1>2. ASSUME NEW a \in R!AttestationId, NEW b \in R!AttestationId,
             AttestationAt(a) = AttestationAt(b)
      PROVE  a = b
  <2>1. a.schema = b.schema /\ a.nonce = b.nonce
    BY <1>1, <1>2, SchemaPlaces
  <2> QED BY <2>1 DEF R!AttestationId
<1>3. ASSUME NEW x \in AttestationAddress,
             x.credential \in CredentialAddress,
             x.schema.credential = x.credential
      PROVE  \E a \in R!AttestationId : AttestationAt(a) = x
  <2>1. x.schema \in SchemaAddress
    BY DEF AttestationAddress
  <2>2. PICK s \in R!SchemaId : SchemaAt(s) = x.schema
    BY <1>3, <2>1, SchemaPlaces
  <2> DEFINE a == [schema |-> s, nonce |-> x.nonce]
  <2>3. a \in R!AttestationId
    BY DEF R!AttestationId, AttestationAddress
  <2>4. CredentialAt(a.schema.credential) = x.credential
    BY <1>3, <2>2, SchemaPlaces
  <2>5. AttestationAt(a) = x
    BY <2>2, <2>4 DEF AttestationAt, AttestationPda, AttestationAddress
  <2> QED BY <2>3, <2>5
<1> QED BY <1>1, <1>2, <1>3

-----------------------------------------------------------------------------
(* How the parts change with the ledger.                                   *)

SameOn(l1, l2, S) ==
  \A x \in S : l2[x].owner = l1[x].owner /\ l2[x].data = l1[x].data

(* A function with one value more, or one less.                            *)
LEMMA WithOne ==
  ASSUME NEW f, NEW g, NEW x, NEW v, g = [y \in DOMAIN g |-> g[y]],
         \A y : y \in DOMAIN g <=> y \in DOMAIN f \/ y = x,
         g[x] = v,
         \A y \in DOMAIN f : y # x => g[y] = f[y]
  PROVE  g = R!With(f, x, v)
<1>1. DOMAIN g = DOMAIN f \cup {x}
  OBVIOUS
<1>2. \A y \in DOMAIN g : g[y] = IF y = x THEN v ELSE f[y]
  BY <1>1
<1> QED BY <1>1, <1>2 DEF R!With

LEMMA WithoutOne ==
  ASSUME NEW f, NEW g, NEW x, g = [y \in DOMAIN g |-> g[y]],
         \A y : y \in DOMAIN g <=> y \in DOMAIN f /\ y # x,
         \A y \in DOMAIN g : g[y] = f[y]
  PROVE  g = R!Without(f, x)
<1>1. DOMAIN g = DOMAIN f \ {x}
  OBVIOUS
<1> QED BY <1>1 DEF R!Without

(* What the registry of a ledger has entries for, and what they say.       *)
LEMMA CredentialEntries ==
  ASSUME NEW ledger
  PROVE  LET f == CredentialsOf(ledger)
         IN  /\ f = [x \in DOMAIN f |-> f[x]]
             /\ \A x : x \in DOMAIN f <=>
                  /\ x \in R!CredentialId
                  /\ HeldIn(ledger, CredentialAt(x), "credential")
             /\ \A x \in DOMAIN f :
                  f[x] = ledger[CredentialAt(x)].data.authorized_signers
BY DEF CredentialsOf

LEMMA SchemaEntries ==
  ASSUME NEW ledger
  PROVE  LET f == SchemasOf(ledger)
         IN  /\ f = [x \in DOMAIN f |-> f[x]]
             /\ \A x : x \in DOMAIN f <=>
                  x \in R!SchemaId /\ HeldIn(ledger, SchemaAt(x), "schema")
             /\ \A x \in DOMAIN f : f[x] = Entry(ledger[SchemaAt(x)].data)
BY DEF SchemasOf

LEMMA AttestationEntries ==
  ASSUME NEW ledger
  PROVE  LET f == AttestationsOf(ledger)
         IN  /\ f = [x \in DOMAIN f |-> f[x]]
             /\ \A x : x \in DOMAIN f <=>
                  /\ x \in R!AttestationId
                  /\ HeldIn(ledger, AttestationAt(x), "attestation")
             /\ \A x \in DOMAIN f :
                  f[x] = Statement(ledger[AttestationAt(x)].data)
BY DEF AttestationsOf

LEMMA PartsSame ==
  ASSUME NEW l1, NEW l2
  PROVE  /\ SameOn(l1, l2, CredentialAddress) =>
              CredentialsOf(l2) = CredentialsOf(l1)
         /\ SameOn(l1, l2, SchemaAddress) => SchemasOf(l2) = SchemasOf(l1)
         /\ SameOn(l1, l2, AttestationAddress) =>
              AttestationsOf(l2) = AttestationsOf(l1)
<1>1. ASSUME SameOn(l1, l2, CredentialAddress)
      PROVE  CredentialsOf(l2) = CredentialsOf(l1)
  <2>1. \A c \in R!CredentialId :
          /\ HeldIn(l2, CredentialAt(c), "credential")
               <=> HeldIn(l1, CredentialAt(c), "credential")
          /\ l2[CredentialAt(c)].data = l1[CredentialAt(c)].data
    BY <1>1, CredentialPlaces DEF SameOn, HeldIn
  <2> QED BY <2>1 DEF CredentialsOf
<1>2. ASSUME SameOn(l1, l2, SchemaAddress)
      PROVE  SchemasOf(l2) = SchemasOf(l1)
  <2>1. \A s \in R!SchemaId :
          /\ HeldIn(l2, SchemaAt(s), "schema")
               <=> HeldIn(l1, SchemaAt(s), "schema")
          /\ l2[SchemaAt(s)].data = l1[SchemaAt(s)].data
    BY <1>2, SchemaPlaces DEF SameOn, HeldIn
  <2> QED BY <2>1 DEF SchemasOf
<1>3. ASSUME SameOn(l1, l2, AttestationAddress)
      PROVE  AttestationsOf(l2) = AttestationsOf(l1)
  <2>1. \A a \in R!AttestationId :
          /\ HeldIn(l2, AttestationAt(a), "attestation")
               <=> HeldIn(l1, AttestationAt(a), "attestation")
          /\ l2[AttestationAt(a)].data = l1[AttestationAt(a)].data
    BY <1>3, AttestationPlaces DEF SameOn, HeldIn
  <2> QED BY <2>1 DEF AttestationsOf
<1> QED BY <1>1, <1>2, <1>3

LEMMA CredentialsChanged ==
  ASSUME NEW l1, NEW l2, NEW i \in R!CredentialId,
         HeldIn(l2, CredentialAt(i), "credential"),
         SameOn(l1, l2, CredentialAddress \ {CredentialAt(i)})
  PROVE  CredentialsOf(l2) =
           R!With(CredentialsOf(l1), i,
                  l2[CredentialAt(i)].data.authorized_signers)
<1> DEFINE f == CredentialsOf(l1)
           g == CredentialsOf(l2)
<1>1. \A j \in R!CredentialId : j # i =>
        /\ HeldIn(l2, CredentialAt(j), "credential")
             <=> HeldIn(l1, CredentialAt(j), "credential")
        /\ l2[CredentialAt(j)].data = l1[CredentialAt(j)].data
  BY CredentialPlaces DEF SameOn, HeldIn
<1>2. /\ \A j : j \in DOMAIN g <=> j \in DOMAIN f \/ j = i
      /\ \A j \in DOMAIN f : j # i => g[j] = f[j]
      /\ g[i] = l2[CredentialAt(i)].data.authorized_signers
      /\ g = [j \in DOMAIN g |-> g[j]]
  <2>1. /\ \A j : j \in DOMAIN f <=>
             j \in R!CredentialId /\ HeldIn(l1, CredentialAt(j), "credential")
        /\ \A j \in DOMAIN f :
             f[j] = l1[CredentialAt(j)].data.authorized_signers
    BY CredentialEntries
  <2>2. /\ \A j : j \in DOMAIN g <=>
             j \in R!CredentialId /\ HeldIn(l2, CredentialAt(j), "credential")
        /\ \A j \in DOMAIN g :
             g[j] = l2[CredentialAt(j)].data.authorized_signers
        /\ g = [j \in DOMAIN g |-> g[j]]
    BY CredentialEntries
  <2> HIDE DEF f, g
  <2> QED BY <1>1, <2>1, <2>2
<1> HIDE DEF f, g
<1>3. g = R!With(f, i, l2[CredentialAt(i)].data.authorized_signers)
  BY <1>2, WithOne
<1> QED BY <1>3 DEF f, g

LEMMA SchemasChanged ==
  ASSUME NEW l1, NEW l2, NEW i \in R!SchemaId,
         HeldIn(l2, SchemaAt(i), "schema"),
         SameOn(l1, l2, SchemaAddress \ {SchemaAt(i)})
  PROVE  SchemasOf(l2) =
           R!With(SchemasOf(l1), i,
                  Entry(l2[SchemaAt(i)].data))
<1> DEFINE f == SchemasOf(l1)
           g == SchemasOf(l2)
<1>1. \A j \in R!SchemaId : j # i =>
        /\ HeldIn(l2, SchemaAt(j), "schema")
             <=> HeldIn(l1, SchemaAt(j), "schema")
        /\ l2[SchemaAt(j)].data = l1[SchemaAt(j)].data
  BY SchemaPlaces DEF SameOn, HeldIn
<1>2. /\ \A j : j \in DOMAIN g <=> j \in DOMAIN f \/ j = i
      /\ \A j \in DOMAIN f : j # i => g[j] = f[j]
      /\ g[i] = Entry(l2[SchemaAt(i)].data)
      /\ g = [j \in DOMAIN g |-> g[j]]
  <2>1. /\ \A j : j \in DOMAIN f <=>
             j \in R!SchemaId /\ HeldIn(l1, SchemaAt(j), "schema")
        /\ \A j \in DOMAIN f : f[j] = Entry(l1[SchemaAt(j)].data)
    BY SchemaEntries
  <2>2. /\ \A j : j \in DOMAIN g <=>
             j \in R!SchemaId /\ HeldIn(l2, SchemaAt(j), "schema")
        /\ \A j \in DOMAIN g : g[j] = Entry(l2[SchemaAt(j)].data)
        /\ g = [j \in DOMAIN g |-> g[j]]
    BY SchemaEntries
  <2> HIDE DEF f, g
  <2> QED BY <1>1, <2>1, <2>2
<1> HIDE DEF f, g
<1>3. g = R!With(f, i, Entry(l2[SchemaAt(i)].data))
  BY <1>2, WithOne
<1> QED BY <1>3 DEF f, g

LEMMA AttestationsAdded ==
  ASSUME NEW l1, NEW l2, NEW i \in R!AttestationId,
         HeldIn(l2, AttestationAt(i), "attestation"),
         SameOn(l1, l2, AttestationAddress \ {AttestationAt(i)})
  PROVE  AttestationsOf(l2) =
           R!With(AttestationsOf(l1), i,
                  Statement(l2[AttestationAt(i)].data))
<1> DEFINE f == AttestationsOf(l1)
           g == AttestationsOf(l2)
<1>1. \A j \in R!AttestationId : j # i =>
        /\ HeldIn(l2, AttestationAt(j), "attestation")
             <=> HeldIn(l1, AttestationAt(j), "attestation")
        /\ l2[AttestationAt(j)].data = l1[AttestationAt(j)].data
  BY AttestationPlaces DEF SameOn, HeldIn
<1>2. /\ \A j : j \in DOMAIN g <=> j \in DOMAIN f \/ j = i
      /\ \A j \in DOMAIN f : j # i => g[j] = f[j]
      /\ g[i] = Statement(l2[AttestationAt(i)].data)
      /\ g = [j \in DOMAIN g |-> g[j]]
  <2>1. /\ \A j : j \in DOMAIN f <=>
             /\ j \in R!AttestationId
             /\ HeldIn(l1, AttestationAt(j), "attestation")
        /\ \A j \in DOMAIN f : f[j] = Statement(l1[AttestationAt(j)].data)
    BY AttestationEntries
  <2>2. /\ \A j : j \in DOMAIN g <=>
             /\ j \in R!AttestationId
             /\ HeldIn(l2, AttestationAt(j), "attestation")
        /\ \A j \in DOMAIN g : g[j] = Statement(l2[AttestationAt(j)].data)
        /\ g = [j \in DOMAIN g |-> g[j]]
    BY AttestationEntries
  <2> HIDE DEF f, g
  <2> QED BY <1>1, <2>1, <2>2
<1> HIDE DEF f, g
<1>3. g = R!With(f, i, Statement(l2[AttestationAt(i)].data))
  BY <1>2, WithOne
<1> QED BY <1>3 DEF f, g

LEMMA AttestationsRemoved ==
  ASSUME NEW l1, NEW l2, NEW i \in R!AttestationId,
         ~HeldIn(l2, AttestationAt(i), "attestation"),
         SameOn(l1, l2, AttestationAddress \ {AttestationAt(i)})
  PROVE  AttestationsOf(l2) = R!Without(AttestationsOf(l1), i)
<1> DEFINE f == AttestationsOf(l1)
           g == AttestationsOf(l2)
<1>1. \A j \in R!AttestationId : j # i =>
        /\ HeldIn(l2, AttestationAt(j), "attestation")
             <=> HeldIn(l1, AttestationAt(j), "attestation")
        /\ l2[AttestationAt(j)].data = l1[AttestationAt(j)].data
  BY AttestationPlaces DEF SameOn, HeldIn
<1>2. /\ \A j : j \in DOMAIN g <=> j \in DOMAIN f /\ j # i
      /\ \A j \in DOMAIN g : g[j] = f[j]
      /\ g = [j \in DOMAIN g |-> g[j]]
  <2>1. /\ \A j : j \in DOMAIN f <=>
             /\ j \in R!AttestationId
             /\ HeldIn(l1, AttestationAt(j), "attestation")
        /\ \A j \in DOMAIN f : f[j] = Statement(l1[AttestationAt(j)].data)
    BY AttestationEntries
  <2>2. /\ \A j : j \in DOMAIN g <=>
             /\ j \in R!AttestationId
             /\ HeldIn(l2, AttestationAt(j), "attestation")
        /\ \A j \in DOMAIN g : g[j] = Statement(l2[AttestationAt(j)].data)
        /\ g = [j \in DOMAIN g |-> g[j]]
    BY AttestationEntries
  <2> HIDE DEF f, g
  <2> QED BY <1>1, <2>1, <2>2
<1> HIDE DEF f, g
<1>3. g = R!Without(f, i)
  BY <1>2, WithoutOne
<1> QED BY <1>3 DEF f, g

-----------------------------------------------------------------------------
(* What the registry asks for.                                             *)

(* The registry validates data like the program.                           *)
LEMMA SameValidation ==
  ASSUME NEW layout, NEW data
  PROVE  R!ValidateData(layout, data) = ValidateData(layout, data)
BY DEF R!ValidateData, R!Offsets, R!Overrun, R!FieldEnd, R!VecStringEnd,
       R!VecEnd, R!CanReadU32, R!U32At, R!ElementSize, R!Panic,
       ValidateData, Offsets, Overrun, FieldEnd, VecStringEnd, VecEnd,
       CanReadU32, U32At, ElementSize, Panic

(* Who signs as the authority of a credential is responsible for an entry. *)
LEMMA AuthorityResponsible ==
  ASSUME InOrder, ZeroedIn(accounts), NEW c \in CredentialKey,
         AuthoritySigned(c)
  PROVE  \E i \in R!CredentialId : CredentialAt(i) = c /\ R!Responsible(i)
<1>1. c \in CredentialAddress /\ c.authority \in signers
  BY SignedCredential
<1>2. PICK i \in R!CredentialId : CredentialAt(i) = c /\ c.authority = i[1]
  BY <1>1, CredentialPlaces
<1>3. i \in DOMAIN CredentialsOf(accounts)
  BY <1>2, CredentialEntries DEF AuthoritySigned, Holds
<1>4. RegistryOf(accounts, events).credentials = CredentialsOf(accounts)
  BY RegistryParts
<1> QED BY <1>1, <1>2, <1>3, <1>4 DEF R!Responsible

(* A signer the program accepts is listed in the entry of the credential.  *)
LEMMA SignerListed ==
  ASSUME InOrder, ZeroedIn(accounts), NEW c \in CredentialKey,
         NEW signer, SignerAuthorized(signer, c)
  PROVE  \E i \in R!CredentialId : CredentialAt(i) = c /\ R!Listed(signer, i)
<1> DEFINE list == accounts[c].data.authorized_signers
<1>1. /\ signer \in signers /\ Holds(c, "credential")
      /\ \E n \in 1 .. Len(list) : list[n] = signer
  BY DEF SignerAuthorized
<1>2. accounts[c].data # BlankCredential
  <2>1. Len(<<>>) = 0
    OBVIOUS
  <2>2. BlankCredential.authorized_signers = <<>>
    BY DEF BlankCredential, Credential
  <2> QED BY <1>1, <2>1, <2>2
<1>3. c \in CredentialAddress
  BY <1>1, <1>2, CredentialHome
<1>4. PICK i \in R!CredentialId : CredentialAt(i) = c
  BY <1>3, CredentialPlaces
<1>5. /\ i \in DOMAIN CredentialsOf(accounts)
      /\ CredentialsOf(accounts)[i] = list
  BY <1>1, <1>4, CredentialEntries DEF Holds
<1>6. RegistryOf(accounts, events).credentials = CredentialsOf(accounts)
  BY RegistryParts
<1> HIDE DEF list
<1> QED BY <1>1, <1>4, <1>5, <1>6 DEF R!Listed

-----------------------------------------------------------------------------
(* The steps of the registry, part by part.                                *)

(* The registry of the running transaction, its parts before and after.    *)
LEMMA DraftParts ==
  /\ RegistryOf(accounts, events) =
       [credentials |-> CredentialsOf(accounts),
        schemas |-> SchemasOf(accounts),
        attestations |-> AttestationsOf(accounts),
        revoked |-> RevokedIn(events)]
  /\ RegistryOf(accounts', events') =
       [credentials |-> CredentialsOf(accounts'),
        schemas |-> SchemasOf(accounts'),
        attestations |-> AttestationsOf(accounts'),
        revoked |-> RevokedIn(events')]
BY RegistryParts

(* An instruction leaves the published registry, the authors and the time. *)
LEMMA InstructionEdits ==
  ASSUME Instruction
  PROVE  R!Edit
BY DEF Instruction, R!Edit

(* What a rewritten account does not touch.                                *)
LEMMA RewrittenSame ==
  ASSUME NEW a, NEW owner, NEW d, Rewritten(a, owner, d),
         NEW S \in SUBSET Address
  PROVE  /\ SameOn(accounts, accounts', S \ {a})
         /\ a \notin S => SameOn(accounts, accounts', S)
BY DEF Rewritten, SameOn

LEMMA KindsOfAddress ==
  /\ CredentialAddress \in SUBSET Address
  /\ SchemaAddress \in SUBSET Address
  /\ AttestationAddress \in SUBSET Address
BY AddressKinds

LEMMA UntouchedRegistry ==
  ASSUME SameOn(accounts, accounts', CredentialAddress),
         SameOn(accounts, accounts', SchemaAddress),
         SameOn(accounts, accounts', AttestationAddress),
         events' = events
  PROVE  RegistryOf(accounts', events') = RegistryOf(accounts, events)
BY DraftParts, PartsSame

(* A credential is created or its signers change.                          *)
LEMMA CredentialWritten ==
  ASSUME NEW i \in R!CredentialId, NEW d, d.kind = "credential",
         Rewritten(CredentialAt(i), "sas", d), events' = events
  PROVE  RegistryOf(accounts', events') =
           [RegistryOf(accounts, events) EXCEPT
              !.credentials = R!With(@, i, d.authorized_signers)]
<1> DEFINE c == CredentialAt(i)
<1>1. c \in CredentialAddress
  BY CredentialPlaces
<1>2. /\ accounts'[c].owner = "sas" /\ accounts'[c].data = d
      /\ HeldIn(accounts', c, "credential")
  BY DEF Rewritten, HeldIn
<1>3. /\ SameOn(accounts, accounts', CredentialAddress \ {c})
      /\ SameOn(accounts, accounts', SchemaAddress)
      /\ SameOn(accounts, accounts', AttestationAddress)
  BY <1>1, RewrittenSame, KindsOfAddress, AddressesDisjoint
<1>4. CredentialsOf(accounts') =
        R!With(CredentialsOf(accounts), i, d.authorized_signers)
  BY <1>2, <1>3, CredentialsChanged
<1>5. /\ SchemasOf(accounts') = SchemasOf(accounts)
      /\ AttestationsOf(accounts') = AttestationsOf(accounts)
  BY <1>3, PartsSame
<1> QED BY <1>4, <1>5, DraftParts

(* A schema is created, or its status or description changes.              *)
LEMMA SchemaWritten ==
  ASSUME NEW i \in R!SchemaId, NEW d, d.kind = "schema",
         Rewritten(SchemaAt(i), "sas", d), events' = events
  PROVE  RegistryOf(accounts', events') =
           [RegistryOf(accounts, events) EXCEPT
              !.schemas = R!With(@, i, Entry(d))]
<1> DEFINE s == SchemaAt(i)
<1>1. s \in SchemaAddress
  BY SchemaPlaces
<1>2. /\ accounts'[s].owner = "sas" /\ accounts'[s].data = d
      /\ HeldIn(accounts', s, "schema")
  BY DEF Rewritten, HeldIn
<1>3. /\ SameOn(accounts, accounts', CredentialAddress)
      /\ SameOn(accounts, accounts', SchemaAddress \ {s})
      /\ SameOn(accounts, accounts', AttestationAddress)
  BY <1>1, RewrittenSame, KindsOfAddress, AddressesDisjoint
<1>4. SchemasOf(accounts') = R!With(SchemasOf(accounts), i, Entry(d))
  BY <1>2, <1>3, SchemasChanged
<1>5. /\ CredentialsOf(accounts') = CredentialsOf(accounts)
      /\ AttestationsOf(accounts') = AttestationsOf(accounts)
  BY <1>3, PartsSame
<1> QED BY <1>4, <1>5, DraftParts

(* An attestation is issued.                                               *)
LEMMA AttestationWritten ==
  ASSUME NEW i \in R!AttestationId, NEW d, d.kind = "attestation",
         Rewritten(AttestationAt(i), "sas", d), events' = events
  PROVE  RegistryOf(accounts', events') =
           [RegistryOf(accounts, events) EXCEPT
              !.attestations = R!With(@, i, Statement(d))]
<1> DEFINE a == AttestationAt(i)
<1>1. a \in AttestationAddress
  BY AttestationPlaces
<1>2. /\ accounts'[a].owner = "sas" /\ accounts'[a].data = d
      /\ HeldIn(accounts', a, "attestation")
  BY DEF Rewritten, HeldIn
<1>3. /\ SameOn(accounts, accounts', CredentialAddress)
      /\ SameOn(accounts, accounts', SchemaAddress)
      /\ SameOn(accounts, accounts', AttestationAddress \ {a})
  BY <1>1, RewrittenSame, KindsOfAddress, AddressesDisjoint
<1>4. AttestationsOf(accounts') =
        R!With(AttestationsOf(accounts), i, Statement(d))
  BY <1>2, <1>3, AttestationsAdded
<1>5. /\ CredentialsOf(accounts') = CredentialsOf(accounts)
      /\ SchemasOf(accounts') = SchemasOf(accounts)
  BY <1>3, PartsSame
<1> QED BY <1>4, <1>5, DraftParts

-----------------------------------------------------------------------------
(* Every effect of an instruction is a step of the registry.               *)

LEMMA CredentialCreatedStep ==
  ASSUME Instruction, NEW c \in CredentialAddress, NEW list \in SignerList,
         CredentialCreated(c, list)
  PROVE  R!CredentialNext
<1>1. PICK i \in R!CredentialId : CredentialAt(i) = c /\ c.authority = i[1]
  BY CredentialPlaces
<1> DEFINE d == Credential(c.authority, c.name, list)
<1>2. d.kind = "credential" /\ d.authorized_signers = list
  BY DEF Credential
<1>3. Rewritten(CredentialAt(i), "sas", d) /\ events' = events
  BY <1>1 DEF CredentialCreated
<1> HIDE DEF d
<1>4. RegistryOf(accounts', events') =
        [RegistryOf(accounts, events) EXCEPT !.credentials = R!With(@, i, list)]
  BY <1>2, <1>3, CredentialWritten
<1>5. i \notin DOMAIN RegistryOf(accounts, events).credentials
  <2>1. i \notin DOMAIN CredentialsOf(accounts)
    BY <1>1, CredentialEntries DEF CredentialCreated, HeldIn
  <2> QED BY <2>1, DraftParts
<1>6. i[1] \in signers
  BY <1>1 DEF CredentialCreated
<1>7. R!NewCredential(i, list)
  BY <1>4, <1>5, <1>6, InstructionEdits DEF R!NewCredential
<1> QED BY <1>7 DEF R!CredentialNext

LEMMA SignersChangedStep ==
  ASSUME InOrder, ZeroedIn(accounts), Instruction,
         NEW c \in CredentialKey, NEW list \in SignerList,
         SignersChanged(c, list)
  PROVE  R!CredentialNext
<1>1. AuthoritySigned(c) /\ events' = events
  BY DEF SignersChanged
<1>2. PICK i \in R!CredentialId : CredentialAt(i) = c /\ R!Responsible(i)
  BY <1>1, AuthorityResponsible
<1> DEFINE old == accounts[c].data
           d == [old EXCEPT !.authorized_signers = list]
<1>3. d.kind = "credential" /\ d.authorized_signers = list
  <2>1. old \in CredentialData
    BY <1>1, SignedCredential
  <2> HIDE DEF old
  <2> QED BY <2>1 DEF CredentialData
<1>4. Rewritten(CredentialAt(i), "sas", d)
  BY <1>2 DEF SignersChanged
<1> HIDE DEF d
<1>5. RegistryOf(accounts', events') =
        [RegistryOf(accounts, events) EXCEPT !.credentials = R!With(@, i, list)]
  BY <1>1, <1>3, <1>4, CredentialWritten
<1>6. R!ListSigners(i, list)
  BY <1>2, <1>5, InstructionEdits DEF R!ListSigners
<1> QED BY <1>6 DEF R!CredentialNext

(* The entry of a schema whose credential has its authority's signature.   *)
LEMMA SchemaEntry ==
  ASSUME InOrder, ZeroedIn(accounts), NEW s \in SchemaAddress,
         AuthoritySigned(s.credential)
  PROVE  \E i \in R!SchemaId : SchemaAt(i) = s /\ R!Responsible(i.credential)
<1>1. s.credential \in CredentialKey
  BY DEF SchemaAddress
<1>2. PICK c \in R!CredentialId :
        CredentialAt(c) = s.credential /\ R!Responsible(c)
  BY <1>1, AuthorityResponsible
<1>3. PICK i \in R!SchemaId : SchemaAt(i) = s
  BY <1>2, CredentialPlaces, SchemaPlaces
<1>4. i.credential = c
  BY <1>2, <1>3, CredentialPlaces, SchemaPlaces
<1> QED BY <1>2, <1>3, <1>4

LEMMA SchemaCreatedStep ==
  ASSUME InOrder, ZeroedIn(accounts), Instruction,
         NEW s \in SchemaAddress, NEW description \in Description,
         NEW layout \in Layout, NEW fieldNames \in FieldNames,
         SchemaCreated(s, description, layout, fieldNames)
  PROVE  R!SchemaNext
<1>1. /\ AuthoritySigned(s.credential) /\ events' = events
      /\ LayoutValid(layout, fieldNames)
  BY DEF SchemaCreated
<1>2. PICK i \in R!SchemaId : SchemaAt(i) = s /\ R!Responsible(i.credential)
  BY <1>1, SchemaEntry
<1>3. /\ s.credential = CredentialAt(i.credential) /\ s.name = i.name
      /\ s.version = i.version
      /\ i.version \in 1 .. MaxVersion
  BY <1>2, SchemaPlaces DEF R!SchemaId
<1> DEFINE d == Schema(s.credential, s.name, description, layout, fieldNames,
                       s.version)
           entry == [description |-> description, layout |-> layout,
                     field_names |-> fieldNames, is_paused |-> FALSE]
<1>4. d.kind = "schema" /\ Entry(d) = entry
  BY DEF Schema, Entry
<1>5. Rewritten(SchemaAt(i), "sas", d)
  BY <1>2 DEF SchemaCreated
<1> HIDE DEF d
<1>6. RegistryOf(accounts', events') =
        [RegistryOf(accounts, events) EXCEPT !.schemas = R!With(@, i, entry)]
  BY <1>1, <1>4, <1>5, SchemaWritten
<1>7. i \notin DOMAIN RegistryOf(accounts, events).schemas
  <2>1. i \notin DOMAIN SchemasOf(accounts)
    BY <1>2, SchemaEntries DEF SchemaCreated, HeldIn
  <2> QED BY <2>1, DraftParts
<1>8. ASSUME i.version > 1
      PROVE  LET before == [i EXCEPT !.version = @ - 1]
                 schemas == RegistryOf(accounts, events).schemas
             IN  /\ before \in DOMAIN schemas
                 /\ schemas[before].description = description
  <2> DEFINE before == [i EXCEPT !.version = @ - 1]
  <2>1. before \in R!SchemaId
    BY <1>3, <1>8, LimitAssumption DEF R!SchemaId
  <2>2. /\ before.credential = i.credential /\ before.name = i.name
        /\ before.version = i.version - 1
    BY DEF R!SchemaId
  <2>3. SchemaAt(before) = SchemaPda(s.credential, s.name, s.version - 1)
    BY <1>3, <2>2 DEF SchemaAt
  <2>4. /\ HeldIn(accounts, SchemaAt(before), "schema")
        /\ accounts[SchemaAt(before)].data.description = description
    BY <1>3, <1>8, <2>3 DEF SchemaCreated, Holds
  <2> HIDE DEF before
  <2>5. before \in DOMAIN SchemasOf(accounts)
    BY <2>1, <2>4, SchemaEntries
  <2>6. SchemasOf(accounts)[before].description = description
    BY <2>4, <2>5, SchemaEntries DEF Entry
  <2>7. RegistryOf(accounts, events).schemas = SchemasOf(accounts)
    BY DraftParts
  <2> QED BY <2>5, <2>6, <2>7 DEF before
<1> HIDE DEF entry
<1>9. /\ \A n \in 1 .. Len(layout) : layout[n] <= R!MaxDataType
      /\ fieldNames.count = Len(layout)
  BY <1>1 DEF LayoutValid, MaxDataType, R!MaxDataType
<1>10. R!NewSchema(i, description, layout, fieldNames)
  BY <1>2, <1>6, <1>7, <1>8, <1>9, InstructionEdits DEF R!NewSchema, entry
<1> QED BY <1>10 DEF R!SchemaNext

(* The entry of a schema that the program holds.                           *)
LEMMA SchemaHeld ==
  ASSUME InOrder, NEW i \in R!SchemaId, Holds(SchemaAt(i), "schema")
  PROVE  /\ accounts[SchemaAt(i)].data \in SchemaData
         /\ i \in DOMAIN RegistryOf(accounts, events).schemas
         /\ RegistryOf(accounts, events).schemas[i] =
              Entry(accounts[SchemaAt(i)].data)
<1>1. accounts[SchemaAt(i)].data \in SchemaData
  BY SchemaPlaces, SchemaUnder DEF InOrder, SchemaOf
<1>2. /\ i \in DOMAIN SchemasOf(accounts)
      /\ SchemasOf(accounts)[i] = Entry(accounts[SchemaAt(i)].data)
  BY SchemaEntries DEF Holds
<1> QED BY <1>1, <1>2, DraftParts

LEMMA StatusChangedStep ==
  ASSUME InOrder, ZeroedIn(accounts), Instruction,
         NEW s \in SchemaAddress, NEW paused \in BOOLEAN,
         StatusChanged(s, paused)
  PROVE  R!SchemaNext
<1>1. AuthoritySigned(s.credential) /\ events' = events /\ Holds(s, "schema")
  BY DEF StatusChanged
<1>2. PICK i \in R!SchemaId : SchemaAt(i) = s /\ R!Responsible(i.credential)
  BY <1>1, SchemaEntry
<1> DEFINE old == accounts[s].data
           d == [old EXCEPT !.is_paused = paused]
           entry == [Entry(old) EXCEPT !.is_paused = paused]
<1>3. /\ old \in SchemaData
      /\ i \in DOMAIN RegistryOf(accounts, events).schemas
      /\ RegistryOf(accounts, events).schemas[i] = Entry(old)
  BY <1>1, <1>2, SchemaHeld
<1>4. Rewritten(SchemaAt(i), "sas", d)
  BY <1>2 DEF StatusChanged
<1> HIDE DEF old
<1>5. d.kind = "schema" /\ Entry(d) = entry
  BY <1>3 DEF SchemaData, Entry
<1> HIDE DEF d, entry
<1>6. RegistryOf(accounts', events') =
        [RegistryOf(accounts, events) EXCEPT !.schemas = R!With(@, i, entry)]
  BY <1>1, <1>4, <1>5, SchemaWritten
<1>7. R!SetStatus(i, paused)
  BY <1>2, <1>3, <1>6, InstructionEdits DEF R!SetStatus, entry
<1> QED BY <1>7 DEF R!SchemaNext

LEMMA DescriptionChangedStep ==
  ASSUME InOrder, ZeroedIn(accounts), Instruction,
         NEW s \in SchemaAddress, NEW description \in Description,
         DescriptionChanged(s, description)
  PROVE  R!SchemaNext
<1>1. AuthoritySigned(s.credential) /\ events' = events /\ Holds(s, "schema")
  BY DEF DescriptionChanged
<1>2. PICK i \in R!SchemaId : SchemaAt(i) = s /\ R!Responsible(i.credential)
  BY <1>1, SchemaEntry
<1> DEFINE old == accounts[s].data
           d == [old EXCEPT !.description = description]
           entry == [Entry(old) EXCEPT !.description = description]
<1>3. /\ old \in SchemaData
      /\ i \in DOMAIN RegistryOf(accounts, events).schemas
      /\ RegistryOf(accounts, events).schemas[i] = Entry(old)
  BY <1>1, <1>2, SchemaHeld
<1>4. Rewritten(SchemaAt(i), "sas", d)
  BY <1>2 DEF DescriptionChanged
<1> HIDE DEF old
<1>5. d.kind = "schema" /\ Entry(d) = entry
  BY <1>3 DEF SchemaData, Entry
<1> HIDE DEF d, entry
<1>6. RegistryOf(accounts', events') =
        [RegistryOf(accounts, events) EXCEPT !.schemas = R!With(@, i, entry)]
  BY <1>1, <1>4, <1>5, SchemaWritten
<1>7. R!Describe(i, description)
  BY <1>2, <1>3, <1>6, InstructionEdits DEF R!Describe, entry
<1> QED BY <1>7 DEF R!SchemaNext

(* The entry of an attestation under the credential of its schema.         *)
LEMMA AttestationEntry ==
  ASSUME InOrder, ZeroedIn(accounts), NEW a \in AttestationAddress,
         NEW signer, SignerAuthorized(signer, a.credential),
         a.schema.credential = a.credential
  PROVE  \E i \in R!AttestationId :
           AttestationAt(i) = a /\ R!Listed(signer, i.schema.credential)
<1>1. a.credential \in CredentialKey
  BY DEF AttestationAddress
<1>2. PICK c \in R!CredentialId :
        CredentialAt(c) = a.credential /\ R!Listed(signer, c)
  BY <1>1, SignerListed
<1>3. a.credential \in CredentialAddress
  BY <1>2, CredentialPlaces
<1>4. PICK i \in R!AttestationId : AttestationAt(i) = a
  BY <1>3, AttestationPlaces
<1>5. i.schema.credential \in R!CredentialId
  BY AttestationPlaces, SchemaPlaces
<1>6. i.schema.credential = c
  BY <1>2, <1>4, <1>5, AttestationPlaces, CredentialPlaces
<1> QED BY <1>2, <1>4, <1>6

LEMMA AttestationIssuedStep ==
  ASSUME InOrder, ZeroedIn(accounts), Instruction,
         NEW a \in AttestationAddress, NEW signer \in Wallet,
         NEW data \in Data, NEW expiry \in Expiry, NEW token,
         AttestationIssued(a, signer, data, expiry, token)
  PROVE  R!AttestationNext
<1>1. /\ SignerAuthorized(signer, a.credential)
      /\ SchemaOf(a.schema, a.credential) /\ NotExpired(expiry)
      /\ ~accounts[a.schema].data.is_paused
      /\ ValidateData(accounts[a.schema].data.layout, data) = "ok"
      /\ events' = events
      /\ accounts[a].owner = "system"
  BY DEF AttestationIssued, Active, Conforms, Issue
<1>2. a.schema \in SchemaAddress /\ a.schema.credential = a.credential
  BY <1>1, SchemaUnder DEF AttestationAddress, InOrder
<1>3. PICK i \in R!AttestationId :
        AttestationAt(i) = a /\ R!Listed(signer, i.schema.credential)
  BY <1>1, <1>2, AttestationEntry
<1>4. i.schema \in R!SchemaId /\ SchemaAt(i.schema) = a.schema
  BY <1>3, AttestationPlaces
<1> DEFINE d == Attestation(a.nonce, a.credential, a.schema, data, signer,
                            expiry, token)
           statement == [data |-> data, signer |-> signer, expiry |-> expiry]
<1>5. d.kind = "attestation" /\ Statement(d) = statement
  BY DEF Attestation, Statement
<1>6. Rewritten(AttestationAt(i), "sas", d)
  BY <1>3 DEF AttestationIssued
<1> HIDE DEF d
<1>7. RegistryOf(accounts', events') =
        [RegistryOf(accounts, events) EXCEPT
           !.attestations = R!With(@, i, statement)]
  BY <1>1, <1>5, <1>6, AttestationWritten
<1>8. /\ i.schema \in DOMAIN RegistryOf(accounts, events).schemas
      /\ RegistryOf(accounts, events).schemas[i.schema] =
           Entry(accounts[a.schema].data)
  BY <1>1, <1>4, SchemaHeld DEF SchemaOf
<1>9. /\ ~RegistryOf(accounts, events).schemas[i.schema].is_paused
      /\ R!ValidateData(RegistryOf(accounts, events).schemas[i.schema].layout,
                        data) = "ok"
  BY <1>1, <1>8, SameValidation DEF Entry
<1>10. i \notin DOMAIN RegistryOf(accounts, events).attestations
  <2>1. i \notin DOMAIN AttestationsOf(accounts)
    BY <1>1, <1>3, AttestationEntries DEF HeldIn
  <2> QED BY <2>1, DraftParts
<1>11. expiry = 0 \/ expiry >= clock
  BY <1>1 DEF NotExpired
<1> HIDE DEF statement
<1>12. R!Attest(signer, i, data, expiry)
  BY <1>3, <1>7, <1>8, <1>9, <1>10, <1>11, InstructionEdits
     DEF R!Attest, statement
<1> QED BY <1>12 DEF R!AttestationNext

(* The event of a closed attestation counts one revocation.                *)
LEMMA RevocationCounted ==
  ASSUME events \in [Event -> Nat], NEW i \in R!SchemaId, NEW data \in Data,
         events' = [events EXCEPT
           ![[schema |-> SchemaAt(i), data |-> data]] = @ + 1]
  PROVE  RevokedIn(events') = R!Counted(RevokedIn(events), <<i, data>>)
<1> DEFINE At(e) == [schema |-> SchemaAt(e[1]), data |-> e[2]]
           S == R!SchemaId \X Data
           now == <<i, data>>
<1>1. \A e \in S : At(e) \in Event
  BY SchemaPlaces DEF Event
<1>2. \A e \in S : At(e) = At(now) => e = now
  <2> SUFFICES ASSUME NEW e \in S, At(e) = At(now) PROVE e = now
    OBVIOUS
  <2>1. SchemaAt(e[1]) = SchemaAt(i) /\ e[2] = data
    OBVIOUS
  <2>2. e[1] = i
    BY <2>1, SchemaPlaces
  <2> QED BY <2>1, <2>2
<1>3. now \in S /\ events' = [events EXCEPT ![At(now)] = events[At(now)] + 1]
  OBVIOUS
<1>4. /\ RevokedIn(events) = [e \in S |-> events[At(e)]]
      /\ RevokedIn(events') = [e \in S |-> events'[At(e)]]
  BY DEF RevokedIn
<1> HIDE DEF At, S, now
<1>5. \A e \in S : events'[At(e)] =
        IF e = now THEN events[At(now)] + 1 ELSE events[At(e)]
  BY <1>1, <1>2, <1>3
<1>6. RevokedIn(events') =
        [RevokedIn(events) EXCEPT ![now] = RevokedIn(events)[now] + 1]
  BY <1>3, <1>4, <1>5
<1> QED BY <1>6 DEF now, R!Counted

LEMMA AttestationClosedStep ==
  ASSUME InOrder, ZeroedIn(accounts), Instruction,
         NEW a \in AttestationAddress, NEW signer \in Wallet,
         AttestationClosed(a, signer)
  PROVE  R!AttestationNext
<1>1. /\ SignerAuthorized(signer, a.credential) /\ Holds(a, "attestation")
      /\ Rewritten(a, "system", NoData) /\ EmitClose(a)
  BY DEF AttestationClosed
<1>2. /\ a \in Address /\ accounts[a].data \in AttestationData
      /\ a.credential = accounts[a].data.credential
      /\ a.schema = accounts[a].data.schema
  BY <1>1, AttestationUnder DEF InOrder
<1>3. a.schema \in SchemaAddress /\ SchemaOf(a.schema, a.credential)
  BY <1>1, <1>2 DEF AttestationAddress, InOrder, AccountsGood, LedgerInv,
                    RootedIn, SchemaOf, Holds
<1>4. a.schema.credential = a.credential
  BY <1>3, SchemaUnder DEF InOrder
<1>5. PICK i \in R!AttestationId :
        AttestationAt(i) = a /\ R!Listed(signer, i.schema.credential)
  BY <1>1, <1>4, AttestationEntry
<1>6. i.schema \in R!SchemaId /\ SchemaAt(i.schema) = a.schema
  BY <1>5, AttestationPlaces
<1> DEFINE data == accounts[a].data.data
<1>7. data \in Data
  BY <1>2 DEF AttestationData
<1>8. events' = [events EXCEPT
        ![[schema |-> SchemaAt(i.schema), data |-> data]] = @ + 1]
  BY <1>1, <1>2, <1>6 DEF EmitClose
<1>9. /\ i \in DOMAIN AttestationsOf(accounts)
      /\ AttestationsOf(accounts)[i].data = data
  BY <1>1, <1>5, AttestationEntries DEF Holds, Statement
<1> HIDE DEF data
<1>10. RevokedIn(events') = R!Counted(RevokedIn(events), <<i.schema, data>>)
  BY <1>6, <1>7, <1>8, RevocationCounted DEF InOrder
<1>11. /\ SameOn(accounts, accounts', CredentialAddress)
       /\ SameOn(accounts, accounts', SchemaAddress)
       /\ SameOn(accounts, accounts', AttestationAddress \ {a})
  BY <1>1, RewrittenSame, KindsOfAddress, AddressesDisjoint
<1>12. ~HeldIn(accounts', a, "attestation")
  BY <1>1 DEF Rewritten, HeldIn
<1>13. /\ AttestationsOf(accounts') = R!Without(AttestationsOf(accounts), i)
       /\ CredentialsOf(accounts') = CredentialsOf(accounts)
       /\ SchemasOf(accounts') = SchemasOf(accounts)
  BY <1>5, <1>11, <1>12, AttestationsRemoved, PartsSame
<1> DEFINE before == RegistryOf(accounts, events)
           after == RegistryOf(accounts', events')
<1>14. /\ before = [credentials |-> CredentialsOf(accounts),
                    schemas |-> SchemasOf(accounts),
                    attestations |-> AttestationsOf(accounts),
                    revoked |-> RevokedIn(events)]
       /\ after = [credentials |-> CredentialsOf(accounts'),
                   schemas |-> SchemasOf(accounts'),
                   attestations |-> AttestationsOf(accounts'),
                   revoked |-> RevokedIn(events')]
  BY DraftParts
<1>15. /\ i \in DOMAIN before.attestations
       /\ before.attestations[i].data = data
  BY <1>9, <1>14
<1>16. after = [before EXCEPT
         !.attestations = R!Without(@, i),
         !.revoked = R!Counted(@, <<i.schema, before.attestations[i].data>>)]
  <2> HIDE DEF before, after
  <2>1. after = [credentials |-> CredentialsOf(accounts),
                 schemas |-> SchemasOf(accounts),
                 attestations |-> R!Without(AttestationsOf(accounts), i),
                 revoked |-> R!Counted(RevokedIn(events), <<i.schema, data>>)]
    BY <1>10, <1>13, <1>14
  <2>2. before.attestations = AttestationsOf(accounts)
    BY <1>14
  <2> DEFINE rest == R!Without(before.attestations, i)
             count == R!Counted(before.revoked,
                                <<i.schema, before.attestations[i].data>>)
  <2>3. /\ rest = R!Without(AttestationsOf(accounts), i)
        /\ count = R!Counted(RevokedIn(events), <<i.schema, data>>)
    BY <1>14, <1>15, <2>2
  <2> HIDE DEF rest, count
  <2> DEFINE revoked == [before EXCEPT !.attestations = rest]
  <2>4. revoked = [credentials |-> CredentialsOf(accounts),
                   schemas |-> SchemasOf(accounts),
                   attestations |-> rest, revoked |-> RevokedIn(events)]
    BY <1>14
  <2>5. [revoked EXCEPT !.revoked = count] =
          [before EXCEPT !.attestations = rest, !.revoked = count]
    BY <1>14
  <2> HIDE DEF revoked
  <2>6. [revoked EXCEPT !.revoked = count] =
          [credentials |-> CredentialsOf(accounts),
           schemas |-> SchemasOf(accounts),
           attestations |-> rest, revoked |-> count]
    BY <2>4
  <2>7. after = [before EXCEPT !.attestations = rest, !.revoked = count]
    BY <2>1, <2>3, <2>5, <2>6
  <2> QED BY <2>7 DEF rest, count
<1>17. R!Revoke(signer, i)
  BY <1>5, <1>15, <1>16, InstructionEdits DEF R!Revoke
<1> QED BY <1>17 DEF R!AttestationNext

(* No entry is an account of a wallet.                                     *)
LEMMA WalletAssignedStep ==
  ASSUME NEW w \in Squatter, WalletAssigned(w)
  PROVE  RegistryOf(accounts', events') = RegistryOf(accounts, events)
<1>1. Rewritten(w, "sas", BlankCredential) /\ events' = events
  BY DEF WalletAssigned
<1>2. /\ w \notin CredentialAddress /\ w \notin SchemaAddress
      /\ w \notin AttestationAddress
  BY WalletAssumption, AddressesDisjoint
<1>3. /\ SameOn(accounts, accounts', CredentialAddress)
      /\ SameOn(accounts, accounts', SchemaAddress)
      /\ SameOn(accounts, accounts', AttestationAddress)
  BY <1>1, <1>2, RewrittenSame, KindsOfAddress
<1> QED BY <1>1, <1>3, UntouchedRegistry

LEMMA LamportsMovedStep ==
  ASSUME LamportsOnly
  PROVE  RegistryOf(accounts', events') = RegistryOf(accounts, events)
<1>1. /\ SameOn(accounts, accounts', CredentialAddress)
      /\ SameOn(accounts, accounts', SchemaAddress)
      /\ SameOn(accounts, accounts', AttestationAddress)
  BY KindsOfAddress DEF LamportsOnly, SameOn
<1> QED BY <1>1, UntouchedRegistry DEF LamportsOnly

(* An instruction edits the draft or leaves it.                            *)
LEMMA EffectStep ==
  ASSUME InOrder, ZeroedIn(accounts), GoodStep
  PROVE  \/ R!CredentialNext \/ R!SchemaNext \/ R!AttestationNext
         \/ UNCHANGED R!vars
<1>1. Instruction /\ Effect
  BY DEF GoodStep
<1>2. ASSUME RegistryOf(accounts', events') = RegistryOf(accounts, events)
      PROVE  UNCHANGED R!vars
  BY <1>1, <1>2 DEF Instruction, R!vars
<1>3. CASE LamportsOnly
  BY <1>2, <1>3, LamportsMovedStep
<1>4. ASSUME NEW c \in CredentialAddress, NEW list \in SignerList,
             CredentialCreated(c, list)
      PROVE  R!CredentialNext
  BY <1>1, <1>4, CredentialCreatedStep
<1>5. ASSUME NEW c \in CredentialKey, NEW list \in SignerList,
             SignersChanged(c, list)
      PROVE  R!CredentialNext
  BY <1>1, <1>5, SignersChangedStep
<1>6. ASSUME NEW s \in SchemaAddress, NEW description \in Description,
             NEW layout \in Layout, NEW fieldNames \in FieldNames,
             SchemaCreated(s, description, layout, fieldNames)
      PROVE  R!SchemaNext
  BY <1>1, <1>6, SchemaCreatedStep
<1>7. ASSUME NEW s \in SchemaAddress, NEW paused \in BOOLEAN,
             StatusChanged(s, paused)
      PROVE  R!SchemaNext
  BY <1>1, <1>7, StatusChangedStep
<1>8. ASSUME NEW s \in SchemaAddress, NEW description \in Description,
             DescriptionChanged(s, description)
      PROVE  R!SchemaNext
  BY <1>1, <1>8, DescriptionChangedStep
<1>9. ASSUME NEW a \in AttestationAddress, NEW signer \in Wallet,
             NEW data \in Data, NEW expiry \in Expiry,
             NEW token \in HoldingAddress \cup {NoToken},
             AttestationIssued(a, signer, data, expiry, token)
      PROVE  R!AttestationNext
  BY <1>1, <1>9, AttestationIssuedStep
<1>10. ASSUME NEW a \in AttestationAddress, NEW signer \in Wallet,
              AttestationClosed(a, signer)
       PROVE  R!AttestationNext
  BY <1>1, <1>10, AttestationClosedStep
<1>11. ASSUME NEW w \in Squatter, WalletAssigned(w)
       PROVE  UNCHANGED R!vars
  BY <1>2, <1>11, WalletAssignedStep
<1> QED BY <1>1, <1>3, <1>4, <1>5, <1>6, <1>7, <1>8, <1>9, <1>10, <1>11
     DEF Effect

-----------------------------------------------------------------------------
(* Transactions.                                                           *)

LEMMA CommitPublishes ==
  ASSUME IInv, Commit
  PROVE  R!Publish
<1>1. /\ signers # {} /\ signers' = {} /\ clock' = clock /\ events' = events
  BY DEF Commit
<1>2. /\ saved'.accounts = accounts' /\ saved'.events = events
      /\ \A x \in Address : /\ accounts'[x].owner = accounts[x].owner
                            /\ accounts'[x].data = accounts[x].data
  BY Committed
<1>3. /\ SameOn(accounts, accounts', CredentialAddress)
      /\ SameOn(accounts, accounts', SchemaAddress)
      /\ SameOn(accounts, accounts', AttestationAddress)
  BY <1>2, KindsOfAddress DEF SameOn
<1>4. RegistryOf(accounts', events') = RegistryOf(accounts, events)
  BY <1>1, <1>3, UntouchedRegistry
<1>5. RegistryOf(saved'.accounts, saved'.events) = RegistryOf(accounts, events)
  BY <1>1, <1>2, <1>4
<1> QED BY <1>1, <1>4, <1>5 DEF R!Publish

LEMMA AbortDrops ==
  ASSUME Abort
  PROVE  R!Drop
BY DEF Abort, R!Drop

LEMMA BeginOpens ==
  ASSUME NEW signed, Begin(signed)
  PROVE  R!Open(signed)
BY DEF Begin, R!Open

LEMMA TickTicks ==
  ASSUME Tick
  PROVE  R!Tick
BY DEF Tick, R!Tick

(* Every step of the program is one of the registry or of none.            *)
LEMMA ServiceStepIsRegistryStep ==
  ASSUME IInv, ServiceStep
  PROVE  [R!Next]_(R!vars)
<1>1. InOrder /\ ZeroedIn(accounts)
  BY DEF IInv, TypeOK, InOrder, AccountsGood
<1>2. CASE GoodStep
  BY <1>1, <1>2, EffectStep DEF R!Next
<1>3. CASE \E signed \in (SUBSET Wallet) \ {{}} : Begin(signed)
  BY <1>3, BeginOpens DEF R!Next
<1>4. CASE Commit
  BY <1>4, CommitPublishes DEF R!Next
<1>5. CASE Abort
  BY <1>5, AbortDrops DEF R!Next
<1>6. CASE Tick
  BY <1>6, TickTicks DEF R!Next
<1>7. CASE UNCHANGED vars
  BY <1>7 DEF vars, R!vars
<1> QED BY <1>2, <1>3, <1>4, <1>5, <1>6, <1>7 DEF ServiceStep

(* The ledger starts without entries.                                      *)
LEMMA InitIsRegistryInit ==
  ASSUME Init
  PROVE  R!Init
<1>1. \A x \in Address : accounts[x].owner = "system"
  BY DEF Init, Vacant
<1>2. /\ events = [e \in Event |-> 0]
      /\ saved.accounts = accounts /\ saved.events = events
      /\ signers = {} /\ clock = 1
  BY DEF Init, Chain
<1>3. /\ DOMAIN CredentialsOf(accounts) = {}
      /\ DOMAIN SchemasOf(accounts) = {}
      /\ DOMAIN AttestationsOf(accounts) = {}
  BY <1>1, CredentialEntries, SchemaEntries, AttestationEntries,
     CredentialPlaces, SchemaPlaces, AttestationPlaces, AddressKinds
     DEF HeldIn
<1>4. ASSUME NEW f, f = [x \in DOMAIN f |-> f[x]], DOMAIN f = {}
      PROVE  f = <<>>
  BY <1>4
<1>5. /\ CredentialsOf(accounts) = <<>>
      /\ SchemasOf(accounts) = <<>>
      /\ AttestationsOf(accounts) = <<>>
  BY <1>3, <1>4, CredentialEntries, SchemaEntries, AttestationEntries
<1>6. RevokedIn(events) = [e \in R!SchemaId \X Data |-> 0]
  BY <1>2, SchemaPlaces DEF RevokedIn, Event
<1>7. RegistryOf(accounts, events) = R!Empty
  BY <1>5, <1>6, DraftParts DEF R!Empty
<1> QED BY <1>2, <1>7 DEF R!Init

(* The program, however it is called, behaves as a registry: it implements *)
(* the abstract specification, for every value of the constants.           *)
THEOREM RegistryImplemented == Spec => ImplementsRegistry
<1>1. Init => R!Init
  BY InitIsRegistryInit
<1>2. ServiceInv /\ [Next]_vars => [R!Next]_(R!vars)
  BY NextIsServiceStep, ServiceStepIsRegistryStep DEF ServiceInv
<1> QED BY <1>1, <1>2, InvariantHolds, PTL DEF Spec, ImplementsRegistry, R!Spec

(* The registry knows no tokens, and needs none to follow the program that *)
(* issues them: creating and closing a tokenized attestation attests and   *)
(* revokes as the plain instructions do, and what holders do with their    *)
(* tokens the registry does not notice.                                    *)
THEOREM RegistryImplementedWithTokens == TokenizedSpec => ImplementsRegistry
<1>1. TokenizedInit => R!Init
  BY InitIsRegistryInit DEF TokenizedInit
<1>2. ASSUME TokenizedInv, [TokenizedNext]_allVars
      PROVE  [R!Next]_(R!vars)
  <2>1. IInv /\ TokensTyped
    BY <1>2 DEF TokenizedInv, ServiceInv, TokensGood, RecordsGood, TokensTyped
  <2> QED BY <1>2, <2>1, TokenizedStep, ServiceStepIsRegistryStep
<1> QED BY <1>1, <1>2, TokenizedInvariantHolds, PTL
     DEF TokenizedSpec, ImplementsRegistry, R!Spec

=============================================================================
