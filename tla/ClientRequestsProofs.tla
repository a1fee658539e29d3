------------------------ MODULE ClientRequestsProofs ------------------------
(***************************************************************************)
(* Theorems about ClientRequests, for any number of slips: what a caller   *)
(* may do wrong never makes the program act for somebody who has not       *)
(* signed, and who does nothing wrong is served.                           *)
(***************************************************************************)
EXTENDS ClientRequests, TLAPS

-----------------------------------------------------------------------------
(* What the client sends and what the program takes, side by side.         *)

(* A list of accounts and a list of arguments, of whatever length.         *)
Described(q) ==
  /\ Len(q.accounts) \in Nat /\ DOMAIN q.accounts = 1 .. Len(q.accounts)
  /\ Len(q.args) \in Nat /\ DOMAIN q.args = 1 .. Len(q.args)

(* The accounts have the names of the roles, in the same order, and the    *)
(* flags that the handler and the programs it calls need.                  *)
AccountsFit(q, h) ==
  /\ Len(h.roles) = Len(q.accounts)
  /\ DOMAIN h.roles = 1 .. Len(q.accounts)
  /\ \A i \in 1 .. Len(q.accounts) :
       /\ q.accounts[i].name = h.roles[i]
       /\ h.roles[i] \in h.signers => q.accounts[i].signer
       /\ h.roles[i] \in h.written => q.accounts[i].writable

(* Every pass over the arguments reads them where they were written.       *)
ReadsFit(parser, args) ==
  /\ Len(parser) \in Nat /\ Len(parser) <= Len(args)
  /\ DOMAIN parser = 1 .. Len(parser)
  /\ \A i \in 1 .. Len(parser) : /\ parser[i][2] = args[i][2]
                                 /\ parser[i][1] \in {"", args[i][1]}

ArgumentsFit(q, h) ==
  \A p \in DOMAIN h.parsers : ReadsFit(h.parsers[p], q.args)

Fits(q, h) ==
  /\ Described(q)
  /\ Dispatch(q.discriminator) = {h}
  /\ AccountsFit(q, h)
  /\ ArgumentsFit(q, h)

(* A handler that wants the signature of the authority, and that of the    *)
(* payer unless it closes an attestation; nobody else signs.               *)
AsksIssuer(q, h) ==
  /\ q.discriminator # 228
  /\ \E i \in 1 .. Len(q.accounts) : h.roles[i] = "authority"
  /\ "authority" \in h.signers
  /\ \A i \in 1 .. Len(q.accounts) :
       /\ h.roles[i] = "payer" =>
            "payer" \in h.signers \/ q.discriminator \in {7, 11}
       /\ q.accounts[i].signer => h.roles[i] \in {"payer", "authority"}

USE DEF Payer, Writable, Signing, Readonly,
        String, Bytes, Strings, Keys, Key, Int64, UInt64, UInt16, Bool,
        ReadBytes, ReadStrings, ReadKeys, ReadKey, Read8, Read2, Read1,
        Issued, Paying

LEMMA CreateCredentialFits ==
  /\ Fits(CreateCredential, ProcessCreateCredential)
  /\ AsksIssuer(CreateCredential, ProcessCreateCredential)
<1>1. Described(CreateCredential)
  BY DEF Described, CreateCredential
<1>2. Dispatch(CreateCredential.discriminator) = {ProcessCreateCredential}
  BY DEF Dispatch, CreateCredential
<1>3. AccountsFit(CreateCredential, ProcessCreateCredential)
  BY DEF AccountsFit, CreateCredential, ProcessCreateCredential
<1>4. ArgumentsFit(CreateCredential, ProcessCreateCredential)
  <2> DEFINE parser == <<ReadBytes("name"), ReadKeys("signers")>>
  <2>1. DOMAIN ProcessCreateCredential.parsers = {1}
    BY DEF ProcessCreateCredential
  <2>2. ProcessCreateCredential.parsers[1] = parser
    BY DEF ProcessCreateCredential
  <2>3. parser = CreateCredential.args
    BY DEF CreateCredential
  <2> HIDE DEF parser
  <2>4. ReadsFit(parser, CreateCredential.args)
    BY <1>1, <2>3 DEF ReadsFit, Described
  <2> QED BY <2>1, <2>2, <2>4 DEF ArgumentsFit
<1>5. AsksIssuer(CreateCredential, ProcessCreateCredential)
  BY DEF AsksIssuer, CreateCredential, ProcessCreateCredential
<1> QED BY <1>1, <1>2, <1>3, <1>4, <1>5 DEF Fits

LEMMA CreateSchemaFits ==
  /\ Fits(CreateSchema, ProcessCreateSchema)
  /\ AsksIssuer(CreateSchema, ProcessCreateSchema)
<1>1. Described(CreateSchema)
  BY DEF Described, CreateSchema
<1>2. Dispatch(CreateSchema.discriminator) = {ProcessCreateSchema}
  BY DEF Dispatch, CreateSchema
<1>3. AccountsFit(CreateSchema, ProcessCreateSchema)
  BY DEF AccountsFit, CreateSchema, ProcessCreateSchema
<1>4. ArgumentsFit(CreateSchema, ProcessCreateSchema)
  <2> DEFINE parser == <<ReadBytes("name"), ReadBytes("description"),
                        ReadBytes("layout"), ReadStrings("field_names")>>
  <2>1. DOMAIN ProcessCreateSchema.parsers = {1}
    BY DEF ProcessCreateSchema
  <2>2. ProcessCreateSchema.parsers[1] = parser
    BY DEF ProcessCreateSchema
  <2>3. parser = CreateSchema.args
    BY DEF CreateSchema
  <2> HIDE DEF parser
  <2>4. ReadsFit(parser, CreateSchema.args)
    BY <1>1, <2>3 DEF ReadsFit, Described
  <2> QED BY <2>1, <2>2, <2>4 DEF ArgumentsFit
<1>5. AsksIssuer(CreateSchema, ProcessCreateSchema)
  BY DEF AsksIssuer, CreateSchema, ProcessCreateSchema
<1> QED BY <1>1, <1>2, <1>3, <1>4, <1>5 DEF Fits

LEMMA ChangeSchemaStatusFits ==
  /\ Fits(ChangeSchemaStatus, ProcessChangeSchemaStatus)
  /\ AsksIssuer(ChangeSchemaStatus, ProcessChangeSchemaStatus)
<1>1. Described(ChangeSchemaStatus)
  BY DEF Described, ChangeSchemaStatus
<1>2. Dispatch(ChangeSchemaStatus.discriminator) = {ProcessChangeSchemaStatus}
  BY DEF Dispatch, ChangeSchemaStatus
<1>3. AccountsFit(ChangeSchemaStatus, ProcessChangeSchemaStatus)
  BY DEF AccountsFit, ChangeSchemaStatus, ProcessChangeSchemaStatus
<1>4. ArgumentsFit(ChangeSchemaStatus, ProcessChangeSchemaStatus)
  <2> DEFINE parser == <<Read1("is_paused")>>
  <2>1. DOMAIN ProcessChangeSchemaStatus.parsers = {1}
    BY DEF ProcessChangeSchemaStatus
  <2>2. ProcessChangeSchemaStatus.parsers[1] = parser
    BY DEF ProcessChangeSchemaStatus
  <2>3. parser = ChangeSchemaStatus.args
    BY DEF ChangeSchemaStatus
  <2> HIDE DEF parser
  <2>4. ReadsFit(parser, ChangeSchemaStatus.args)
    BY <1>1, <2>3 DEF ReadsFit, Described
  <2> QED BY <2>1, <2>2, <2>4 DEF ArgumentsFit
<1>5. AsksIssuer(ChangeSchemaStatus, ProcessChangeSchemaStatus)
  BY DEF AsksIssuer, ChangeSchemaStatus, ProcessChangeSchemaStatus
<1> QED BY <1>1, <1>2, <1>3, <1>4, <1>5 DEF Fits

LEMMA ChangeAuthorizedSignersFits ==
  /\ Fits(ChangeAuthorizedSigners, ProcessChangeAuthorizedSigners)
  /\ AsksIssuer(ChangeAuthorizedSigners, ProcessChangeAuthorizedSigners)
<1>1. Described(ChangeAuthorizedSigners)
  BY DEF Described, ChangeAuthorizedSigners
<1>2. Dispatch(ChangeAuthorizedSigners.discriminator) =
        {ProcessChangeAuthorizedSigners}
  BY DEF Dispatch, ChangeAuthorizedSigners
<1>3. AccountsFit(ChangeAuthorizedSigners, ProcessChangeAuthorizedSigners)
  BY DEF AccountsFit, ChangeAuthorizedSigners, ProcessChangeAuthorizedSigners
<1>4. ArgumentsFit(ChangeAuthorizedSigners, ProcessChangeAuthorizedSigners)
  <2> DEFINE parser == <<ReadKeys("signers")>>
  <2>1. DOMAIN ProcessChangeAuthorizedSigners.parsers = {1}
    BY DEF ProcessChangeAuthorizedSigners
  <2>2. ProcessChangeAuthorizedSigners.parsers[1] = parser
    BY DEF ProcessChangeAuthorizedSigners
  <2>3. parser = ChangeAuthorizedSigners.args
    BY DEF ChangeAuthorizedSigners
  <2> HIDE DEF parser
  <2>4. ReadsFit(parser, ChangeAuthorizedSigners.args)
    BY <1>1, <2>3 DEF ReadsFit, Described
  <2> QED BY <2>1, <2>2, <2>4 DEF ArgumentsFit
<1>5. AsksIssuer(ChangeAuthorizedSigners, ProcessChangeAuthorizedSigners)
  BY DEF AsksIssuer, ChangeAuthorizedSigners, ProcessChangeAuthorizedSigners
<1> QED BY <1>1, <1>2, <1>3, <1>4, <1>5 DEF Fits

LEMMA ChangeSchemaDescriptionFits ==
  /\ Fits(ChangeSchemaDescription, ProcessChangeSchemaDescription)
  /\ AsksIssuer(ChangeSchemaDescription, ProcessChangeSchemaDescription)
<1>1. Described(ChangeSchemaDescription)
  BY DEF Described, ChangeSchemaDescription
<1>2. Dispatch(ChangeSchemaDescription.discriminator) =
        {ProcessChangeSchemaDescription}
  BY DEF Dispatch, ChangeSchemaDescription
<1>3. AccountsFit(ChangeSchemaDescription, ProcessChangeSchemaDescription)
  BY DEF AccountsFit, ChangeSchemaDescription, ProcessChangeSchemaDescription
<1>4. ArgumentsFit(ChangeSchemaDescription, ProcessChangeSchemaDescription)
  <2> DEFINE parser == <<ReadBytes("description")>>
  <2>1. DOMAIN ProcessChangeSchemaDescription.parsers = {1}
    BY DEF ProcessChangeSchemaDescription
  <2>2. ProcessChangeSchemaDescription.parsers[1] = parser
    BY DEF ProcessChangeSchemaDescription
  <2>3. parser = ChangeSchemaDescription.args
    BY DEF ChangeSchemaDescription
  <2> HIDE DEF parser
  <2>4. ReadsFit(parser, ChangeSchemaDescription.args)
    BY <1>1, <2>3 DEF ReadsFit, Described
  <2> QED BY <2>1, <2>2, <2>4 DEF ArgumentsFit
<1>5. AsksIssuer(ChangeSchemaDescription, ProcessChangeSchemaDescription)
  BY DEF AsksIssuer, ChangeSchemaDescription, ProcessChangeSchemaDescription
<1> QED BY <1>1, <1>2, <1>3, <1>4, <1>5 DEF Fits

LEMMA ChangeSchemaVersionFits ==
  /\ Fits(ChangeSchemaVersion, ProcessChangeSchemaVersion)
  /\ AsksIssuer(ChangeSchemaVersion, ProcessChangeSchemaVersion)
<1>1. Described(ChangeSchemaVersion)
  BY DEF Described, ChangeSchemaVersion
<1>2. Dispatch(ChangeSchemaVersion.discriminator) =
        {ProcessChangeSchemaVersion}
  BY DEF Dispatch, ChangeSchemaVersion
<1>3. AccountsFit(ChangeSchemaVersion, ProcessChangeSchemaVersion)
  BY DEF AccountsFit, ChangeSchemaVersion, ProcessChangeSchemaVersion
<1>4. ArgumentsFit(ChangeSchemaVersion, ProcessChangeSchemaVersion)
  <2> DEFINE parser == <<ReadBytes("layout"), ReadStrings("field_names")>>
  <2>1. DOMAIN ProcessChangeSchemaVersion.parsers = {1}
    BY DEF ProcessChangeSchemaVersion
  <2>2. ProcessChangeSchemaVersion.parsers[1] = parser
    BY DEF ProcessChangeSchemaVersion
  <2>3. parser = ChangeSchemaVersion.args
    BY DEF ChangeSchemaVersion
  <2> HIDE DEF parser
  <2>4. ReadsFit(parser, ChangeSchemaVersion.args)
    BY <1>1, <2>3 DEF ReadsFit, Described
  <2> QED BY <2>1, <2>2, <2>4 DEF ArgumentsFit
<1>5. AsksIssuer(ChangeSchemaVersion, ProcessChangeSchemaVersion)
  BY DEF AsksIssuer, ChangeSchemaVersion, ProcessChangeSchemaVersion
<1> QED BY <1>1, <1>2, <1>3, <1>4, <1>5 DEF Fits

LEMMA CreateAttestationFits ==
  /\ Fits(CreateAttestation, ProcessCreateAttestation)
  /\ AsksIssuer(CreateAttestation, ProcessCreateAttestation)
<1>1. Described(CreateAttestation)
  BY DEF Described, CreateAttestation
<1>2. Dispatch(CreateAttestation.discriminator) = {ProcessCreateAttestation}
  BY DEF Dispatch, CreateAttestation
<1>3. AccountsFit(CreateAttestation, ProcessCreateAttestation)
  BY DEF AccountsFit, CreateAttestation, ProcessCreateAttestation
<1>4. ArgumentsFit(CreateAttestation, ProcessCreateAttestation)
  <2> DEFINE parser == <<ReadKey("nonce"), ReadBytes("data"), Read8("expiry")>>
  <2>1. DOMAIN ProcessCreateAttestation.parsers = {1}
    BY DEF ProcessCreateAttestation
  <2>2. ProcessCreateAttestation.parsers[1] = parser
    BY DEF ProcessCreateAttestation
  <2>3. parser = CreateAttestation.args
    BY DEF CreateAttestation
  <2> HIDE DEF parser
  <2>4. ReadsFit(parser, CreateAttestation.args)
    BY <1>1, <2>3 DEF ReadsFit, Described
  <2> QED BY <2>1, <2>2, <2>4 DEF ArgumentsFit
<1>5. AsksIssuer(CreateAttestation, ProcessCreateAttestation)
  BY DEF AsksIssuer, CreateAttestation, ProcessCreateAttestation
<1> QED BY <1>1, <1>2, <1>3, <1>4, <1>5 DEF Fits

LEMMA CloseAttestationFits ==
  /\ Fits(CloseAttestation, ProcessCloseAttestation)
  /\ AsksIssuer(CloseAttestation, ProcessCloseAttestation)
<1>1. Described(CloseAttestation)
  BY DEF Described, CloseAttestation
<1>2. Dispatch(CloseAttestation.discriminator) = {ProcessCloseAttestation}
  BY DEF Dispatch, CloseAttestation
<1>3. AccountsFit(CloseAttestation, ProcessCloseAttestation)
  BY DEF AccountsFit, CloseAttestation, ProcessCloseAttestation
<1>4. ArgumentsFit(CloseAttestation, ProcessCloseAttestation)
  <2>1. DOMAIN ProcessCloseAttestation.parsers = {}
    BY DEF ProcessCloseAttestation
  <2> QED BY <2>1 DEF ArgumentsFit
<1>5. AsksIssuer(CloseAttestation, ProcessCloseAttestation)
  BY DEF AsksIssuer, CloseAttestation, ProcessCloseAttestation
<1> QED BY <1>1, <1>2, <1>3, <1>4, <1>5 DEF Fits

LEMMA TokenizeSchemaFits ==
  /\ Fits(TokenizeSchema, ProcessTokenizeSchema)
  /\ AsksIssuer(TokenizeSchema, ProcessTokenizeSchema)
<1>1. Described(TokenizeSchema)
  BY DEF Described, TokenizeSchema
<1>2. Dispatch(TokenizeSchema.discriminator) = {ProcessTokenizeSchema}
  BY DEF Dispatch, TokenizeSchema
<1>3. AccountsFit(TokenizeSchema, ProcessTokenizeSchema)
  BY DEF AccountsFit, TokenizeSchema, ProcessTokenizeSchema
<1>4. ArgumentsFit(TokenizeSchema, ProcessTokenizeSchema)
  <2> DEFINE parser == <<Read8("max_size")>>
  <2>1. DOMAIN ProcessTokenizeSchema.parsers = {1}
    BY DEF ProcessTokenizeSchema
  <2>2. ProcessTokenizeSchema.parsers[1] = parser
    BY DEF ProcessTokenizeSchema
  <2>3. parser = TokenizeSchema.args
    BY DEF TokenizeSchema
  <2> HIDE DEF parser
  <2>4. ReadsFit(parser, TokenizeSchema.args)
    BY <1>1, <2>3 DEF ReadsFit, Described
  <2> QED BY <2>1, <2>2, <2>4 DEF ArgumentsFit
<1>5. AsksIssuer(TokenizeSchema, ProcessTokenizeSchema)
  BY DEF AsksIssuer, TokenizeSchema, ProcessTokenizeSchema
<1> QED BY <1>1, <1>2, <1>3, <1>4, <1>5 DEF Fits

LEMMA CreateTokenizedAttestationFits ==
  /\ Fits(CreateTokenizedAttestation, ProcessCreateTokenizedAttestation)
  /\ AsksIssuer(CreateTokenizedAttestation, ProcessCreateTokenizedAttestation)
<1>1. Described(CreateTokenizedAttestation)
  BY DEF Described, CreateTokenizedAttestation
<1>2. Dispatch(CreateTokenizedAttestation.discriminator) =
        {ProcessCreateTokenizedAttestation}
  BY DEF Dispatch, CreateTokenizedAttestation
<1>3. AccountsFit(CreateTokenizedAttestation, ProcessCreateTokenizedAttestation)
  BY DEF AccountsFit, CreateTokenizedAttestation,
         ProcessCreateTokenizedAttestation,
         ProcessCreateAttestation
<1>4. ArgumentsFit(CreateTokenizedAttestation, ProcessCreateTokenizedAttestation)
  <2> DEFINE first == <<ReadKey("nonce"), ReadBytes("data"), Read8("expiry")>>
             second ==
               <<ReadKey(""), ReadBytes(""), Read8(""), ReadBytes("name"),
                ReadBytes("uri"), ReadBytes("symbol"),
                Read2("mint_account_space")>>
  <2>1. /\ ProcessCreateAttestation.parsers = <<first>>
        /\ ProcessCreateTokenizedAttestation.parsers =
             ProcessCreateAttestation.parsers \o <<second>>
    BY DEF ProcessCreateTokenizedAttestation, ProcessCreateAttestation
  <2>2. /\ Len(first) = 3 /\ Len(second) = 7
        /\ Len(CreateTokenizedAttestation.args) = 7
    BY DEF CreateTokenizedAttestation
  <2>3. DOMAIN first = 1 .. 3 /\ DOMAIN second = 1 .. 7
    OBVIOUS
  <2>4. /\ \A i \in 1 .. 3 : /\ first[i][2] = CreateTokenizedAttestation.args[i][2]
                             /\ first[i][1] = CreateTokenizedAttestation.args[i][1]
        /\ \A i \in 1 .. 7 :
             /\ second[i][2] = CreateTokenizedAttestation.args[i][2]
             /\ second[i][1] \in {"", CreateTokenizedAttestation.args[i][1]}
    BY DEF CreateTokenizedAttestation
  <2> HIDE DEF first, second
  <2>5. /\ DOMAIN ProcessCreateTokenizedAttestation.parsers = {1, 2}
        /\ ProcessCreateTokenizedAttestation.parsers[1] = first
        /\ ProcessCreateTokenizedAttestation.parsers[2] = second
    BY <2>1
  <2>6. ReadsFit(first, CreateTokenizedAttestation.args)
    <3>1. Len(first) \in Nat /\ DOMAIN first = 1 .. Len(first)
      BY <2>2, <2>3
    <3>2. Len(first) <= Len(CreateTokenizedAttestation.args)
      BY <2>2
    <3>3. \A i \in 1 .. Len(first) :
            /\ first[i][2] = CreateTokenizedAttestation.args[i][2]
            /\ first[i][1] \in {"", CreateTokenizedAttestation.args[i][1]}
      BY <2>2, <2>4
    <3> QED BY <3>1, <3>2, <3>3 DEF ReadsFit
  <2>7. ReadsFit(second, CreateTokenizedAttestation.args)
    <3>1. Len(second) \in Nat /\ DOMAIN second = 1 .. Len(second)
      BY <2>2, <2>3
    <3>2. Len(second) <= Len(CreateTokenizedAttestation.args)
      BY <2>2
    <3>3. \A i \in 1 .. Len(second) :
            /\ second[i][2] = CreateTokenizedAttestation.args[i][2]
            /\ second[i][1] \in {"", CreateTokenizedAttestation.args[i][1]}
      BY <2>2, <2>4
    <3> QED BY <3>1, <3>2, <3>3 DEF ReadsFit
  <2> QED BY <2>5, <2>6, <2>7 DEF ArgumentsFit
<1>5. AsksIssuer(CreateTokenizedAttestation, ProcessCreateTokenizedAttestation)
  BY DEF AsksIssuer, CreateTokenizedAttestation,
         ProcessCreateTokenizedAttestation,
         ProcessCreateAttestation
<1> QED BY <1>1, <1>2, <1>3, <1>4, <1>5 DEF Fits

LEMMA CloseTokenizedAttestationFits ==
  /\ Fits(CloseTokenizedAttestation, ProcessCloseTokenizedAttestation)
  /\ AsksIssuer(CloseTokenizedAttestation, ProcessCloseTokenizedAttestation)
<1>1. Described(CloseTokenizedAttestation)
  BY DEF Described, CloseTokenizedAttestation
<1>2. Dispatch(CloseTokenizedAttestation.discriminator) =
        {ProcessCloseTokenizedAttestation}
  BY DEF Dispatch, CloseTokenizedAttestation
<1>3. AccountsFit(CloseTokenizedAttestation, ProcessCloseTokenizedAttestation)
  BY DEF AccountsFit, CloseTokenizedAttestation,
         ProcessCloseTokenizedAttestation,
         ProcessCloseAttestation
<1>4. ArgumentsFit(CloseTokenizedAttestation, ProcessCloseTokenizedAttestation)
  <2>1. DOMAIN ProcessCloseTokenizedAttestation.parsers = {}
    BY DEF ProcessCloseTokenizedAttestation, ProcessCloseAttestation
  <2> QED BY <2>1 DEF ArgumentsFit
<1>5. AsksIssuer(CloseTokenizedAttestation, ProcessCloseTokenizedAttestation)
  BY DEF AsksIssuer, CloseTokenizedAttestation,
         ProcessCloseTokenizedAttestation,
         ProcessCloseAttestation
<1> QED BY <1>1, <1>2, <1>3, <1>4, <1>5 DEF Fits

(* Events are signed by an address of the program.                         *)
LEMMA EmitEventFits ==
  /\ Fits(EmitEvent, ProcessEmitEvent)
  /\ EmitEvent.discriminator = 228
  /\ Len(EmitEvent.accounts) = 1
  /\ ProcessEmitEvent.roles[1] = "event_authority"
  /\ "event_authority" \in ProcessEmitEvent.signers
<1>1. Described(EmitEvent)
  BY DEF Described, EmitEvent
<1>2. Dispatch(EmitEvent.discriminator) = {ProcessEmitEvent}
  BY DEF Dispatch, EmitEvent
<1>3. AccountsFit(EmitEvent, ProcessEmitEvent)
  BY DEF AccountsFit, EmitEvent, ProcessEmitEvent
<1>4. ArgumentsFit(EmitEvent, ProcessEmitEvent)
  <2>1. DOMAIN ProcessEmitEvent.parsers = {}
    BY DEF ProcessEmitEvent
  <2> QED BY <2>1 DEF ArgumentsFit
<1> QED BY <1>1, <1>2, <1>3, <1>4 DEF Fits, EmitEvent, ProcessEmitEvent

-----------------------------------------------------------------------------
(* The builders. A request made for a call from a program is the same      *)
(* request, and no default stands in for the payer or the authority.       *)

ServesIssuer(b) == /\ "payer" \notin b.defaults
                   /\ "authority" \notin b.defaults
                   /\ \E h : Fits(b.request, h) /\ AsksIssuer(b.request, h)

(* A handler that wants the signature of an address of the program.        *)
AsksProgram(q, h) == /\ q.discriminator = 228
                     /\ Len(q.accounts) = 1
                     /\ h.roles[1] = "event_authority"
                     /\ "event_authority" \in h.signers

ServesProgram(b) == /\ b.request = EmitEvent \/ b.request = EmitEventCpi
                    /\ \E h : Fits(b.request, h) /\ AsksProgram(b.request, h)

LEMMA CpiFits ==
  ASSUME NEW q, NEW h
  PROVE  /\ Fits(q, h) => Fits(Cpi(q), h)
         /\ AsksIssuer(q, h) => AsksIssuer(Cpi(q), h)
         /\ AsksProgram(q, h) => AsksProgram(Cpi(q), h)
<1>1. /\ Cpi(q).discriminator = q.discriminator
      /\ Cpi(q).accounts = q.accounts
      /\ Cpi(q).args = q.args
  BY DEF Cpi
<1> QED BY <1>1 DEF Fits, Described, AccountsFit, ArgumentsFit, AsksIssuer,
                    AsksProgram

LEMMA BuilderServes ==
  ASSUME NEW q, NEW h, Fits(q, h), AsksIssuer(q, h), NEW defaults,
         "payer" \notin defaults, "authority" \notin defaults
  PROVE  /\ ServesIssuer(Builder(q, defaults))
         /\ ServesIssuer(Builder(Cpi(q), NoDefaults))
<1>1. /\ Builder(q, defaults).request = q
      /\ Builder(q, defaults).defaults = defaults
      /\ Builder(Cpi(q), NoDefaults).request = Cpi(q)
      /\ Builder(Cpi(q), NoDefaults).defaults = {}
  BY DEF Builder, NoDefaults
<1>2. Fits(Cpi(q), h) /\ AsksIssuer(Cpi(q), h)
  BY CpiFits
<1> QED BY <1>1, <1>2 DEF ServesIssuer

LEMMA BuildersFit == \A b \in Builders : ServesIssuer(b) \/ ServesProgram(b)
<1>1. /\ ServesIssuer(CreateCredentialBuilder)
      /\ ServesIssuer(CreateCredentialCpiBuilder)
  BY CreateCredentialFits, BuilderServes
     DEF CreateCredentialBuilder, CreateCredentialCpiBuilder,
         CreateCredentialCpi
<1>2. /\ ServesIssuer(CreateSchemaBuilder)
      /\ ServesIssuer(CreateSchemaCpiBuilder)
  BY CreateSchemaFits, BuilderServes
     DEF CreateSchemaBuilder, CreateSchemaCpiBuilder, CreateSchemaCpi
<1>3. /\ ServesIssuer(ChangeSchemaStatusBuilder)
      /\ ServesIssuer(ChangeSchemaStatusCpiBuilder)
  BY ChangeSchemaStatusFits, BuilderServes
     DEF ChangeSchemaStatusBuilder, ChangeSchemaStatusCpiBuilder,
         ChangeSchemaStatusCpi, NoDefaults
<1>4. /\ ServesIssuer(ChangeAuthorizedSignersBuilder)
      /\ ServesIssuer(ChangeAuthorizedSignersCpiBuilder)
  BY ChangeAuthorizedSignersFits, BuilderServes
     DEF ChangeAuthorizedSignersBuilder, ChangeAuthorizedSignersCpiBuilder,
         ChangeAuthorizedSignersCpi
<1>5. /\ ServesIssuer(ChangeSchemaDescriptionBuilder)
      /\ ServesIssuer(ChangeSchemaDescriptionCpiBuilder)
  BY ChangeSchemaDescriptionFits, BuilderServes
     DEF ChangeSchemaDescriptionBuilder, ChangeSchemaDescriptionCpiBuilder,
         ChangeSchemaDescriptionCpi
<1>6. /\ ServesIssuer(ChangeSchemaVersionBuilder)
      /\ ServesIssuer(ChangeSchemaVersionCpiBuilder)
  BY ChangeSchemaVersionFits, BuilderServes
     DEF ChangeSchemaVersionBuilder, ChangeSchemaVersionCpiBuilder,
         ChangeSchemaVersionCpi
<1>7. /\ ServesIssuer(CreateAttestationBuilder)
      /\ ServesIssuer(CreateAttestationCpiBuilder)
  BY CreateAttestationFits, BuilderServes
     DEF CreateAttestationBuilder, CreateAttestationCpiBuilder,
         CreateAttestationCpi
<1>8. /\ ServesIssuer(CloseAttestationBuilder)
      /\ ServesIssuer(CloseAttestationCpiBuilder)
  BY CloseAttestationFits, BuilderServes
     DEF CloseAttestationBuilder, CloseAttestationCpiBuilder,
         CloseAttestationCpi
<1>9. /\ ServesIssuer(TokenizeSchemaBuilder)
      /\ ServesIssuer(TokenizeSchemaCpiBuilder)
  BY TokenizeSchemaFits, BuilderServes
     DEF TokenizeSchemaBuilder, TokenizeSchemaCpiBuilder, TokenizeSchemaCpi
<1>10. /\ ServesIssuer(CreateTokenizedAttestationBuilder)
       /\ ServesIssuer(CreateTokenizedAttestationCpiBuilder)
  BY CreateTokenizedAttestationFits, BuilderServes
     DEF CreateTokenizedAttestationBuilder,
         CreateTokenizedAttestationCpiBuilder, CreateTokenizedAttestationCpi
<1>11. /\ ServesIssuer(CloseTokenizedAttestationBuilder)
       /\ ServesIssuer(CloseTokenizedAttestationCpiBuilder)
  BY CloseTokenizedAttestationFits, BuilderServes
     DEF CloseTokenizedAttestationBuilder,
         CloseTokenizedAttestationCpiBuilder, CloseTokenizedAttestationCpi
<1>12. ServesProgram(EmitEventBuilder) /\ ServesProgram(EmitEventCpiBuilder)
  <2>1. /\ Fits(EmitEvent, ProcessEmitEvent)
        /\ AsksProgram(EmitEvent, ProcessEmitEvent)
    BY EmitEventFits DEF AsksProgram
  <2>2. /\ Fits(EmitEventCpi, ProcessEmitEvent)
        /\ AsksProgram(EmitEventCpi, ProcessEmitEvent)
    BY <2>1, CpiFits DEF EmitEventCpi
  <2>3. /\ EmitEventBuilder.request = EmitEvent
        /\ EmitEventCpiBuilder.request = EmitEventCpi
    BY DEF EmitEventBuilder, EmitEventCpiBuilder, Builder
  <2> QED BY <2>1, <2>2, <2>3 DEF ServesProgram
<1> QED
  BY <1>1, <1>2, <1>3, <1>4, <1>5, <1>6, <1>7, <1>8, <1>9, <1>10, <1>11,
     <1>12 DEF Builders

HIDE DEF Payer, Writable, Signing, Readonly,
         String, Bytes, Strings, Keys, Key, Int64, UInt64, UInt16, Bool,
         ReadBytes, ReadStrings, ReadKeys, ReadKey, Read8, Read2, Read1,
         Issued, Paying

-----------------------------------------------------------------------------
(* The inductive invariant.                                                *)

RemainingAccount ==
  {[key |-> key, writable |-> w, signer |-> s] :
     key \in Wallets \cup {"other"}, w \in BOOLEAN, s \in BOOLEAN}

Shape ==
  /\ builder \in Builders
  /\ DOMAIN keys \subseteq Names
  /\ given \subseteq ArgumentNames
  /\ remaining \in Seq(RemainingAccount)
  /\ stage \in Stages
  /\ asked \in 0 .. Len(Accounts)
  /\ granted.signed \subseteq Wallets
  /\ slips \in 0 .. MaxSlips

Unmade == {"filling", "filled", "panicked"}
Total == Len(Accounts) + Len(remaining)

(* A flag may be lost from the accounts of a request, never their order.   *)
RequestOf(metas, n) == /\ DOMAIN metas = 1 .. n
                       /\ Len(metas) = n
                       /\ metas \in Seq({metas[i] : i \in 1 .. n})

RequestShape ==
  /\ stage \in Unmade => request = <<>>
  /\ stage \notin Unmade =>
       /\ RequestOf(request, Total)
       /\ \A i \in 1 .. Len(Accounts) :
            /\ "key" \in DOMAIN request[i]
            /\ request[i].key = KeyOf(Accounts[i].name)

(* What the runtime and the program have checked remains true.             *)
Checked ==
  /\ stage \in {"delivered", "accepted", "rejected"} => Privileged
  /\ stage = "accepted" => Accepted

(* Who does not slip fills in field after field, and signs all of it.      *)
Filled == /\ asked = Len(Accounts)
          /\ given = ArgumentNames

Kept == /\ stage \notin Unmade => \A i \in 1 .. Len(Accounts) :
             /\ request[i].signer = Accounts[i].signer
             /\ request[i].writable = Accounts[i].writable
        /\ stage \notin Unmade \cup {"made"} =>
             /\ granted.signed = Wallets \cap RequestKeys
             /\ granted.writable = RequestKeys

Honest ==
  /\ remaining = <<>>
  /\ \A name \in DOMAIN keys : keys[name] \in Meant(name)
  /\ \A i \in 1 .. asked :
       Accounts[i].name \in DOMAIN keys \cup builder.defaults
  /\ stage # "filling" => Filled
  /\ Kept
  /\ stage # "panicked"
  /\ stage \in {"refused", "rejected"} => ServesProgram(builder)

RequestInv == /\ Shape
              /\ RequestShape
              /\ Checked
              /\ slips = 0 => Honest

LEMMA BuildersDescribed ==
  \A b \in Builders : Described(b.request)
BY BuildersFit DEF ServesIssuer, ServesProgram, Fits

LEMMA InitRequest == Init => RequestInv
<1> SUFFICES ASSUME Init PROVE RequestInv
  OBVIOUS
<1>1. Described(builder.request)
  BY BuildersDescribed DEF Init
<1>2. Shape
  BY <1>1, MaxSlipsAssumption
     DEF Init, Shape, Described, Accounts, Stages, Names
<1>3. RequestShape
  BY DEF Init, RequestShape, Unmade
<1>4. Checked
  BY DEF Init, Checked
<1>5. Honest
  <2>1. stage = "filling" /\ keys = <<>> /\ remaining = <<>> /\ asked = 0
    BY DEF Init
  <2>2. Kept
    BY <2>1 DEF Kept, Unmade
  <2> QED BY <2>1, <2>2 DEF Honest
<1> QED BY <1>2, <1>3, <1>4, <1>5 DEF RequestInv

-----------------------------------------------------------------------------
(* Filling in the builder.                                                 *)

LEMMA SettingKeepsRequest ==
  ASSUME RequestInv, Setting, slips' \in 0 .. MaxSlips,
         DOMAIN keys' \subseteq DOMAIN keys \cup {Field},
         slips' = 0 =>
           /\ slips = 0
           /\ DOMAIN keys \subseteq DOMAIN keys'
           /\ Field \in DOMAIN keys' \cup builder.defaults
           /\ \A name \in DOMAIN keys' : keys'[name] \in Meant(name)
  PROVE  RequestInv'
<1>1. /\ builder \in Builders /\ stage = "filling" /\ stage' = stage
      /\ asked \in 0 .. Len(Accounts) /\ asked < Len(Accounts)
      /\ asked' = asked + 1 /\ request = <<>> /\ request' = request
      /\ builder' = builder /\ given' = given /\ remaining' = remaining
      /\ granted' = granted
  BY DEF RequestInv, Shape, Setting, RequestShape, Unmade
<1>2. /\ Len(Accounts) \in Nat /\ DOMAIN Accounts = 1 .. Len(Accounts)
      /\ Accounts' = Accounts
  BY <1>1, BuildersDescribed DEF Described, Accounts
<1>3. Shape'
  <2>1. Field \in Names
    BY <1>1, <1>2 DEF Field, Names
  <2>2. Names' = Names /\ ArgumentNames' = ArgumentNames
    BY <1>1, <1>2 DEF Names, ArgumentNames, Arguments
  <2>3. asked' \in 0 .. Len(Accounts')
    BY <1>1, <1>2
  <2> QED BY <1>1, <2>1, <2>2, <2>3 DEF RequestInv, Shape, Stages
<1>4. RequestShape' /\ Checked'
  BY <1>1 DEF RequestShape, Checked, Unmade
<1>5. slips' = 0 => Honest'
  <2> SUFFICES ASSUME slips' = 0 PROVE Honest'
    OBVIOUS
  <2>1. Honest
    BY DEF RequestInv
  <2>2. \A i \in 1 .. asked' :
          Accounts'[i].name \in DOMAIN keys' \cup builder'.defaults
    <3> SUFFICES ASSUME NEW i \in 1 .. asked + 1
                 PROVE  Accounts[i].name \in DOMAIN keys' \cup builder.defaults
      BY <1>1, <1>2
    <3>1. CASE i = asked + 1
      BY <3>1 DEF Field
    <3>2. CASE i # asked + 1
      <4>1. i \in 1 .. asked
        BY <1>1, <1>2, <3>2
      <4> QED BY <2>1, <4>1 DEF Honest
    <3> QED BY <3>1, <3>2
  <2>3. Kept'
    BY <1>1 DEF Kept, Unmade
  <2>4. \A name \in DOMAIN keys' : keys'[name] \in Meant(name)
    OBVIOUS
  <2> QED BY <1>1, <2>1, <2>2, <2>3, <2>4 DEF Honest
<1> QED BY <1>3, <1>4, <1>5 DEF RequestInv

LEMMA SlipCounted ==
  ASSUME RequestInv, Slip
  PROVE  slips' \in 0 .. MaxSlips /\ slips' # 0
BY MaxSlipsAssumption DEF RequestInv, Shape, Slip

LEMMA SetAccountKeeps == RequestInv /\ SetAccount => RequestInv'
<1> SUFFICES ASSUME RequestInv, SetAccount PROVE RequestInv'
  OBVIOUS
<1>1. PICK key \in Meant(Field) : keys' = Having(Field, key)
  BY DEF SetAccount
<1>2. /\ DOMAIN keys' = DOMAIN keys \cup {Field}
      /\ \A y \in DOMAIN keys : y = Field \/ keys'[y] = keys[y]
      /\ keys'[Field] = key
  BY <1>1 DEF Having
<1>3. slips' = slips /\ slips \in 0 .. MaxSlips /\ Setting
  BY DEF SetAccount, RequestInv, Shape
<1>4. ASSUME slips' = 0, NEW name \in DOMAIN keys'
      PROVE  keys'[name] \in Meant(name)
  <2>1. \A n \in DOMAIN keys : keys[n] \in Meant(n)
    BY <1>3, <1>4 DEF RequestInv, Honest
  <2> QED BY <1>2, <1>4, <2>1
<1> QED BY <1>2, <1>3, <1>4, SettingKeepsRequest

LEMMA SetWrongAccountKeeps == RequestInv /\ SetWrongAccount => RequestInv'
<1> SUFFICES ASSUME RequestInv, SetWrongAccount PROVE RequestInv'
  OBVIOUS
<1>1. PICK key \in Mistaken(Field) : keys' = Having(Field, key)
  BY DEF SetWrongAccount
<1>2. DOMAIN keys' = DOMAIN keys \cup {Field}
  BY <1>1 DEF Having
<1>3. Setting /\ Slip
  BY DEF SetWrongAccount
<1> QED BY <1>2, <1>3, SlipCounted, SettingKeepsRequest

LEMMA LeaveAccountKeeps == RequestInv /\ LeaveAccount => RequestInv'
<1> SUFFICES ASSUME RequestInv, LeaveAccount PROVE RequestInv'
  OBVIOUS
<1>1. Setting /\ keys' = keys
  BY DEF LeaveAccount
<1>2. CASE Field \in builder.defaults
  <2>1. slips' = slips /\ slips \in 0 .. MaxSlips
    BY <1>2 DEF LeaveAccount, RequestInv, Shape
  <2>2. slips' = 0 => \A name \in DOMAIN keys' : keys'[name] \in Meant(name)
    BY <1>1, <2>1 DEF RequestInv, Honest
  <2> QED BY <1>1, <1>2, <2>1, <2>2, SettingKeepsRequest
<1>3. CASE Field \notin builder.defaults
  <2>1. Slip
    BY <1>3 DEF LeaveAccount
  <2> QED BY <1>1, <2>1, SlipCounted, SettingKeepsRequest
<1> QED BY <1>2, <1>3

LEMMA SetArgumentsKeeps == RequestInv /\ SetArguments => RequestInv'
<1> SUFFICES ASSUME RequestInv, SetArguments PROVE RequestInv'
  OBVIOUS
<1>1. /\ stage = "filling" /\ stage' = "filled" /\ asked = Len(Accounts)
      /\ builder' = builder /\ asked' = asked /\ keys' = keys
      /\ remaining' = remaining /\ request' = request /\ granted' = granted
  BY DEF SetArguments
<1>2. request = <<>> /\ slips \in 0 .. MaxSlips
  BY <1>1 DEF RequestInv, RequestShape, Unmade, Shape
<1>3. /\ given' \subseteq ArgumentNames /\ slips' \in 0 .. MaxSlips
      /\ slips' = 0 => slips = 0 /\ given' = ArgumentNames
  <2>1. CASE given' = ArgumentNames /\ slips' = slips
    BY <1>2, <2>1
  <2>2. CASE Slip /\ \E name \in ArgumentNames :
                       given' = ArgumentNames \ {name}
    BY <2>2, SlipCounted
  <2> QED BY <2>1, <2>2 DEF SetArguments
<1>4. Shape'
  BY <1>1, <1>3 DEF RequestInv, Shape, Stages, Accounts, Names,
                    ArgumentNames, Arguments
<1>5. RequestShape' /\ Checked'
  BY <1>1, <1>2 DEF RequestShape, Checked, Unmade
<1>6. slips' = 0 => Honest'
  <2>1. Accounts' = Accounts /\ ArgumentNames' = ArgumentNames
    BY <1>1 DEF Accounts, ArgumentNames, Arguments
  <2>2. Kept'
    BY <1>1 DEF Kept, Unmade
  <2> QED BY <1>1, <1>3, <2>1, <2>2 DEF RequestInv, Honest, Filled
<1> QED BY <1>4, <1>5, <1>6 DEF RequestInv

LEMMA AddRemainingAccountKeeps ==
  ASSUME RequestInv, NEW key \in Wallets \cup {"other"},
         NEW w \in BOOLEAN, NEW s \in BOOLEAN, AddRemainingAccount(key, w, s)
  PROVE  RequestInv'
<1> DEFINE account == [key |-> key, writable |-> w, signer |-> s]
<1>1. /\ stage = "filled" /\ stage' = stage /\ Slip
      /\ remaining' = Append(remaining, account)
      /\ builder' = builder /\ asked' = asked /\ keys' = keys
      /\ given' = given /\ request' = request /\ granted' = granted
  BY DEF AddRemainingAccount
<1>2. account \in RemainingAccount
  BY DEF RemainingAccount
<1> HIDE DEF account
<1>3. remaining' \in Seq(RemainingAccount)
  BY <1>1, <1>2 DEF RequestInv, Shape
<1>4. slips' \in 0 .. MaxSlips /\ slips' # 0
  BY <1>1, SlipCounted
<1>5. Shape'
  BY <1>1, <1>3, <1>4 DEF RequestInv, Shape, Stages, Accounts, Names,
                          ArgumentNames, Arguments
<1>6. RequestShape' /\ Checked'
  BY <1>1 DEF RequestInv, RequestShape, Checked, Unmade
<1> QED BY <1>4, <1>5, <1>6 DEF RequestInv

-----------------------------------------------------------------------------
(* Making the request.                                                     *)

LEMMA Concatenated ==
  ASSUME NEW S, NEW s \in Seq(S), NEW t \in Seq(S)
  PROVE  /\ s \o t \in Seq(S)
         /\ Len(s \o t) = Len(s) + Len(t)
         /\ \A i \in 1 .. Len(s) : (s \o t)[i] = s[i]
OBVIOUS

(* The accounts of a request: one for every field, then what was added.    *)
LEMMA MetasShape ==
  ASSUME builder \in Builders, remaining \in Seq(RemainingAccount)
  PROVE  /\ RequestOf(Metas, Total)
         /\ \A i \in 1 .. Len(Accounts) :
              /\ "key" \in DOMAIN Metas[i]
              /\ Metas[i].key = KeyOf(Accounts[i].name)
              /\ Metas[i].signer = Accounts[i].signer
              /\ Metas[i].writable = Accounts[i].writable
<1> DEFINE n == Len(Accounts)
           m == Len(remaining)
           extra == [i \in DOMAIN remaining |-> RemainingMeta(remaining[i])]
<1>1. n \in Nat /\ DOMAIN Accounts = 1 .. n
  BY BuildersDescribed DEF Described, Accounts
<1>2. m \in Nat /\ DOMAIN remaining = 1 .. m
  OBVIOUS
<1>3. FieldMetas \in Seq({FieldMetas[i] : i \in 1 .. n})
  BY <1>1 DEF FieldMetas
<1>4. extra \in Seq({extra[i] : i \in 1 .. m})
  BY <1>2
<1>5. DOMAIN FieldMetas = 1 .. n /\ DOMAIN extra = 1 .. m
  BY <1>1, <1>2 DEF FieldMetas
<1>6. Len(FieldMetas) = n /\ Len(extra) = m
  BY <1>1, <1>2, <1>3, <1>4, <1>5
<1>7. \A i \in 1 .. n :
        /\ "key" \in DOMAIN FieldMetas[i]
        /\ FieldMetas[i].key = KeyOf(Accounts[i].name)
        /\ FieldMetas[i].signer = Accounts[i].signer
        /\ FieldMetas[i].writable = Accounts[i].writable
  BY <1>1 DEF FieldMetas
<1>8. Metas = FieldMetas \o extra /\ Total = n + m
  BY DEF Metas, Total
<1> HIDE DEF n, m, extra
<1> DEFINE S == {FieldMetas[i] : i \in 1 .. n} \cup {extra[i] : i \in 1 .. m}
<1>9. FieldMetas \in Seq(S) /\ extra \in Seq(S)
  BY <1>1, <1>2, <1>3, <1>4, <1>5, <1>6
<1> HIDE DEF S
<1>10. Metas \in Seq(S) /\ Len(Metas) = n + m /\ DOMAIN Metas = 1 .. n + m
  <2>1. Metas \in Seq(S)
    BY <1>8, <1>9
  <2>2. Len(FieldMetas \o extra) = Len(FieldMetas) + Len(extra)
    BY <1>9, Concatenated
  <2>3. DOMAIN Metas = 1 .. Len(Metas)
    BY <2>1
  <2>4. Len(Metas) = n + m
    BY <1>6, <1>8, <2>2
  <2> QED BY <2>1, <2>3, <2>4
<1>11. \A i \in 1 .. n : Metas[i] = FieldMetas[i]
  BY <1>1, <1>2, <1>6, <1>8, <1>9
<1>12. Metas \in Seq({Metas[i] : i \in 1 .. n + m})
  BY <1>1, <1>2, <1>10
<1> QED BY <1>7, <1>8, <1>10, <1>11, <1>12 DEF RequestOf, n

LEMMA InstructKeeps == RequestInv /\ Instruct => RequestInv'
<1> SUFFICES ASSUME RequestInv, Instruct PROVE RequestInv'
  OBVIOUS
<1>1. /\ stage = "filled" /\ stage' = "made" /\ request' = Metas
      /\ builder' = builder /\ asked' = asked /\ keys' = keys
      /\ given' = given /\ remaining' = remaining /\ granted' = granted
      /\ slips' = slips
  BY DEF Instruct
<1>2. builder \in Builders /\ remaining \in Seq(RemainingAccount)
  BY DEF RequestInv, Shape
<1>3. Shape'
  BY <1>1 DEF RequestInv, Shape, Stages, Accounts, Names, ArgumentNames,
              Arguments
<1>4. RequestShape'
  <2>1. Accounts' = Accounts /\ Total' = Total
    BY <1>1 DEF Accounts, Total
  <2>2. \A name : KeyOf(name)' = KeyOf(name)
    BY <1>1 DEF KeyOf
  <2>3. RequestOf(request', Total)
    BY <1>1, <1>2, MetasShape
  <2>4. \A i \in 1 .. Len(Accounts) :
          /\ "key" \in DOMAIN request'[i]
          /\ request'[i].key = KeyOf(Accounts[i].name)
    BY <1>1, <1>2, MetasShape
  <2> QED BY <1>1, <2>1, <2>2, <2>3, <2>4 DEF RequestShape, Unmade, KeyOf
<1>5. Checked'
  BY <1>1 DEF Checked
<1>6. slips' = 0 => Honest'
  <2>1. Accounts' = Accounts /\ ArgumentNames' = ArgumentNames
    BY <1>1 DEF Accounts, ArgumentNames, Arguments
  <2>2. Kept'
    BY <1>1, <1>2, <2>1, MetasShape DEF Kept, Unmade
  <2> QED BY <1>1, <2>1, <2>2 DEF RequestInv, Honest, Filled
<1> QED BY <1>3, <1>4, <1>5, <1>6 DEF RequestInv

(* A builder with all its fields has nothing to panic about.               *)
LEMMA PanicKeeps == RequestInv /\ Panic => RequestInv'
<1> SUFFICES ASSUME RequestInv, Panic PROVE RequestInv'
  OBVIOUS
<1>1. /\ stage = "filled" /\ Missing /\ stage' = "panicked"
      /\ builder' = builder /\ asked' = asked /\ keys' = keys
      /\ given' = given /\ remaining' = remaining /\ request' = request
      /\ granted' = granted /\ slips' = slips
  BY DEF Panic
<1>2. Shape'
  BY <1>1 DEF RequestInv, Shape, Stages, Accounts, Names, ArgumentNames,
              Arguments
<1>3. RequestShape' /\ Checked'
  BY <1>1 DEF RequestInv, RequestShape, Checked, Unmade
<1>4. slips # 0
  <2> SUFFICES ASSUME slips = 0 PROVE FALSE
    OBVIOUS
  <2>1. Honest /\ Filled /\ builder \in Builders
    BY <1>1 DEF RequestInv, Honest, Shape
  <2>2. DOMAIN Accounts = 1 .. asked
    BY <2>1, BuildersDescribed DEF Filled, Described, Accounts
  <2>3. Names \ builder.defaults \subseteq DOMAIN keys
    BY <2>1, <2>2 DEF Honest, Names
  <2> QED BY <1>1, <2>1, <2>3 DEF Missing, Filled
<1> QED BY <1>1, <1>2, <1>3, <1>4 DEF RequestInv

LEMMA ForgetFlagKeeps ==
  ASSUME RequestInv, NEW i \in DOMAIN request, ForgetFlag(i)
  PROVE  RequestInv'
<1>1. /\ stage = "made" /\ stage' = stage /\ Slip
      /\ builder' = builder /\ asked' = asked /\ keys' = keys
      /\ given' = given /\ remaining' = remaining /\ granted' = granted
  BY DEF ForgetFlag
<1>2. slips' \in 0 .. MaxSlips /\ slips' # 0
  BY <1>1, SlipCounted
<1>3. /\ RequestOf(request, Total)
      /\ \A j \in 1 .. Len(Accounts) :
           /\ "key" \in DOMAIN request[j]
           /\ request[j].key = KeyOf(Accounts[j].name)
  BY <1>1 DEF RequestInv, RequestShape, Unmade
<1>4. \/ request' = [request EXCEPT ![i].signer = FALSE]
      \/ request' = [request EXCEPT ![i].writable = FALSE]
  BY DEF ForgetFlag
<1>5. /\ Len(Accounts) \in Nat /\ Len(remaining) \in Nat
      /\ Total \in Nat /\ Total >= Len(Accounts)
  BY BuildersDescribed DEF RequestInv, Shape, Described, Accounts, Total
<1>6. Shape'
  BY <1>1, <1>2 DEF RequestInv, Shape, Stages, Accounts, Names,
                    ArgumentNames, Arguments
<1>7. RequestOf(request', Total)
  <2>1. DOMAIN request' = 1 .. Total
    BY <1>3, <1>4 DEF RequestOf
  <2>2. request' = [j \in 1 .. Total |-> request'[j]]
    BY <1>3, <1>4 DEF RequestOf
  <2>3. request' \in Seq({request'[j] : j \in 1 .. Total})
    BY <1>5, <2>1, <2>2
  <2>4. Len(request') = Total
    BY <1>5, <2>1, <2>3
  <2> QED BY <2>1, <2>3, <2>4 DEF RequestOf
<1>8. \A j \in 1 .. Len(Accounts) :
        "key" \in DOMAIN request'[j] /\ request'[j].key = request[j].key
  <2> SUFFICES ASSUME NEW j \in 1 .. Len(Accounts)
               PROVE  /\ "key" \in DOMAIN request'[j]
                      /\ request'[j].key = request[j].key
    OBVIOUS
  <2>1. j \in DOMAIN request /\ "key" \in DOMAIN request[j]
    BY <1>3, <1>5 DEF RequestOf
  <2>2. CASE request' = [request EXCEPT ![i].signer = FALSE]
    BY <2>1, <2>2
  <2>3. CASE request' = [request EXCEPT ![i].writable = FALSE]
    BY <2>1, <2>3
  <2> QED BY <1>4, <2>2, <2>3
<1>9. RequestShape'
  <2>1. Accounts' = Accounts /\ Total' = Total
    BY <1>1 DEF Accounts, Total
  <2> QED BY <1>1, <1>3, <1>7, <1>8, <2>1 DEF RequestShape, Unmade, KeyOf
<1>10. Checked'
  BY <1>1 DEF Checked
<1> QED BY <1>2, <1>6, <1>9, <1>10 DEF RequestInv

-----------------------------------------------------------------------------
(* Signing, sending and processing it. None of them changes the request.   *)

RequestKept ==
  /\ builder' = builder /\ asked' = asked /\ keys' = keys /\ given' = given
  /\ remaining' = remaining /\ request' = request
  /\ stage \notin Unmade /\ stage' \notin Unmade /\ stage' \in Stages

LEMMA RequestKeptKeeps ==
  ASSUME RequestInv, RequestKept, granted'.signed \subseteq Wallets,
         slips' \in 0 .. MaxSlips
  PROVE  Shape' /\ RequestShape'
<1>1. Shape'
  BY DEF RequestInv, Shape, RequestKept, Accounts, Names, ArgumentNames,
         Arguments
<1>2. RequestShape'
  <2>1. Accounts' = Accounts /\ Total' = Total
    BY DEF Accounts, Total, RequestKept
  <2> QED BY <2>1 DEF RequestInv, RequestShape, RequestKept, KeyOf
<1> QED BY <1>1, <1>2

LEMMA HonestKept ==
  ASSUME RequestKept, Honest, Kept',
         stage' \in {"refused", "rejected"} => ServesProgram(builder)
  PROVE  Honest'
<1>1. /\ Accounts' = Accounts /\ ArgumentNames' = ArgumentNames
      /\ stage # "filling" /\ stage' # "panicked"
      /\ builder' = builder /\ asked' = asked /\ keys' = keys
      /\ given' = given /\ remaining' = remaining
  BY DEF RequestKept, Accounts, ArgumentNames, Arguments, Unmade
<1> QED BY <1>1 DEF Honest, Filled

LEMMA SignKeeps == RequestInv /\ Sign => RequestInv'
<1> SUFFICES ASSUME RequestInv, Sign PROVE RequestInv'
  OBVIOUS
<1>1. /\ RequestKept /\ stage = "made" /\ stage' = "signed"
      /\ slips \in 0 .. MaxSlips
  BY DEF Sign, RequestKept, Unmade, Stages, RequestInv, Shape
<1>2. /\ granted'.signed \subseteq Wallets /\ slips' \in 0 .. MaxSlips
      /\ slips' = 0 =>
           /\ slips = 0
           /\ granted' = [signed |-> Wallets \cap RequestKeys,
                          writable |-> RequestKeys]
  <2>1. CASE /\ granted' = [signed |-> Wallets \cap RequestKeys,
                            writable |-> RequestKeys]
             /\ slips' = slips
    BY <1>1, <2>1
  <2>2. CASE /\ \E k \in RequestKeys \cap Wallets :
                  granted' = [signed |-> (Wallets \cap RequestKeys) \ {k},
                              writable |-> RequestKeys]
             /\ Slip
    BY <2>2, SlipCounted
  <2>3. CASE /\ \E k \in RequestKeys :
                  granted' = [signed |-> Wallets \cap RequestKeys,
                              writable |-> RequestKeys \ {k}]
             /\ Slip
    BY <2>3, SlipCounted
  <2> QED BY <2>1, <2>2, <2>3 DEF Sign
<1>3. Shape' /\ RequestShape'
  BY <1>1, <1>2, RequestKeptKeeps
<1>4. Checked'
  BY <1>1 DEF Checked
<1>5. slips' = 0 => Honest'
  <2> SUFFICES ASSUME slips' = 0 PROVE Honest'
    OBVIOUS
  <2>1. Honest /\ Kept
    BY <1>2 DEF RequestInv, Honest
  <2>2. RequestKeys' = RequestKeys /\ Accounts' = Accounts
    BY <1>1 DEF RequestKept, RequestKeys, Accounts
  <2>3. Kept'
    BY <1>1, <1>2, <2>1, <2>2 DEF Kept, RequestKept
  <2> QED BY <1>1, <2>1, <2>3, HonestKept
<1> QED BY <1>3, <1>4, <1>5 DEF RequestInv

(* Without a slip every account is the one that was meant ...              *)
LEMMA UnslippedRequest ==
  ASSUME RequestInv, slips = 0, stage \notin Unmade, ServesIssuer(builder)
  PROVE  /\ Len(request) = Len(Accounts)
         /\ DOMAIN request = 1 .. Len(Accounts)
         /\ DOMAIN Accounts = 1 .. Len(Accounts)
         /\ \A i \in 1 .. Len(Accounts) :
              /\ request[i].key \in Meant(Accounts[i].name)
              /\ request[i].signer = Accounts[i].signer
              /\ request[i].writable = Accounts[i].writable
<1>1. Honest /\ Filled /\ Kept
  BY DEF RequestInv, Honest, Unmade
<1>2. /\ Len(Accounts) \in Nat /\ DOMAIN Accounts = 1 .. Len(Accounts)
      /\ Total = Len(Accounts)
  <2>1. /\ Len(Accounts) \in Nat /\ DOMAIN Accounts = 1 .. Len(Accounts)
    BY BuildersDescribed DEF RequestInv, Shape, Described, Accounts
  <2> QED BY <1>1, <2>1 DEF Honest, Total
<1>3. RequestOf(request, Len(Accounts))
  BY <1>2 DEF RequestInv, RequestShape
<1>4. ASSUME NEW i \in 1 .. Len(Accounts)
      PROVE  request[i].key \in Meant(Accounts[i].name)
  <2>1. Accounts[i].name \in DOMAIN keys \cup builder.defaults
    BY <1>1 DEF Honest, Filled
  <2>2. request[i].key = KeyOf(Accounts[i].name)
    BY DEF RequestInv, RequestShape
  <2>3. CASE Accounts[i].name \in DOMAIN keys
    BY <1>1, <2>2, <2>3 DEF Honest, KeyOf
  <2>4. CASE Accounts[i].name \notin DOMAIN keys
    <3>1. Accounts[i].name # "payer" /\ Accounts[i].name # "authority"
      BY <2>1, <2>4 DEF ServesIssuer
    <3> QED BY <2>2, <2>4, <3>1 DEF KeyOf, Meant
  <2> QED BY <2>3, <2>4
<1>5. ASSUME NEW i \in 1 .. Len(Accounts)
      PROVE  /\ request[i].signer = Accounts[i].signer
             /\ request[i].writable = Accounts[i].writable
  BY <1>1 DEF Kept
<1> QED BY <1>2, <1>3, <1>4, <1>5 DEF RequestOf

(* ... the runtime has nothing against it ...                              *)
LEMMA UnslippedIsPrivileged ==
  ASSUME RequestInv, slips = 0, stage = "signed", ServesIssuer(builder)
  PROVE  Privileged
<1>1. PICK h : Fits(builder.request, h) /\ AsksIssuer(builder.request, h)
  BY DEF ServesIssuer
<1>2. /\ granted.signed = Wallets \cap RequestKeys
      /\ granted.writable = RequestKeys
  BY DEF RequestInv, Honest, Kept, Unmade
<1>3. Signers \subseteq granted.signed
  <2> SUFFICES ASSUME NEW k \in Signers PROVE k \in Wallets
    BY <1>2 DEF Signers
  <2>1. PICK i \in DOMAIN request : request[i].key = k /\ request[i].signer
    BY DEF Signers
  <2>2. /\ i \in 1 .. Len(Accounts)
        /\ k \in Meant(Accounts[i].name) /\ Accounts[i].signer
    BY <2>1, UnslippedRequest DEF Unmade
  <2>3. Accounts[i].name = h.roles[i] /\ h.roles[i] \in {"payer", "authority"}
    BY <1>1, <2>2 DEF Fits, AccountsFit, AsksIssuer, Accounts
  <2> QED BY <2>2, <2>3 DEF Meant, Wallets
<1> QED BY <1>2, <1>3 DEF Privileged, Written

(* ... and the program takes it.                                           *)
LEMMA UnslippedIsAccepted ==
  ASSUME RequestInv, slips = 0, stage = "delivered", ServesIssuer(builder)
  PROVE  Accepted
<1>1. PICK h : Fits(builder.request, h) /\ AsksIssuer(builder.request, h)
  BY DEF ServesIssuer
<1>2. AccountsTaken(h)
  <2>1. Len(request) = Len(h.roles)
    BY <1>1, UnslippedRequest DEF Fits, AccountsFit, Accounts, Unmade
  <2>2. ASSUME NEW i \in DOMAIN request
        PROVE  /\ RoleTaken(h.roles[i], request[i].key)
               /\ h.roles[i] \in h.signers => request[i].key \in Signers
               /\ h.roles[i] \in h.written => request[i].key \in Written
    <3>1. /\ i \in 1 .. Len(Accounts)
          /\ request[i].key \in Meant(Accounts[i].name)
          /\ request[i].signer = Accounts[i].signer
          /\ request[i].writable = Accounts[i].writable
      BY UnslippedRequest DEF Unmade
    <3>2. /\ Accounts[i].name = h.roles[i]
          /\ h.roles[i] \in h.signers => Accounts[i].signer
          /\ h.roles[i] \in h.written => Accounts[i].writable
      BY <1>1, <3>1 DEF Fits, AccountsFit, Accounts
    <3> QED BY <3>1, <3>2 DEF RoleTaken, Signers, Written, RequestKeys
  <2> QED BY <2>1, <2>2 DEF AccountsTaken
<1>3. ArgumentsRead(h)
  BY <1>1 DEF Fits, ArgumentsFit, ReadsFit, ArgumentsRead, Arguments
<1>4. h \in Dispatch(builder.request.discriminator)
  BY <1>1 DEF Fits
<1> QED BY <1>2, <1>3, <1>4 DEF Accepted

LEMMA SendKeeps == RequestInv /\ Send => RequestInv'
<1> SUFFICES ASSUME RequestInv, Send PROVE RequestInv'
  OBVIOUS
<1>1. /\ RequestKept /\ stage = "signed" /\ granted' = granted
      /\ stage' = IF Privileged THEN "delivered" ELSE "refused"
      /\ slips' = slips /\ slips \in 0 .. MaxSlips
      /\ granted.signed \subseteq Wallets /\ builder \in Builders
  BY DEF Send, RequestKept, Unmade, Stages, RequestInv, Shape
<1>2. Shape' /\ RequestShape'
  BY <1>1, RequestKeptKeeps
<1>3. RequestKeys' = RequestKeys /\ Accounts' = Accounts
  BY <1>1 DEF RequestKept, RequestKeys, Accounts
<1>4. Privileged' = Privileged
  BY <1>1, <1>3 DEF Privileged, Signers, Written, RequestKept
<1>5. Checked'
  BY <1>1, <1>4 DEF Checked
<1>6. slips' = 0 => Honest'
  <2> SUFFICES ASSUME slips' = 0 PROVE Honest'
    OBVIOUS
  <2>1. Honest /\ Kept
    BY <1>1 DEF RequestInv, Honest
  <2>2. Kept'
    BY <1>1, <1>3, <2>1 DEF Kept, RequestKept, Unmade
  <2>3. stage' \in {"refused", "rejected"} => ServesProgram(builder)
    BY <1>1, UnslippedIsPrivileged, BuildersFit
  <2> QED BY <1>1, <2>1, <2>2, <2>3, HonestKept
<1> QED BY <1>2, <1>5, <1>6 DEF RequestInv

LEMMA ProcessKeeps == RequestInv /\ Process => RequestInv'
<1> SUFFICES ASSUME RequestInv, Process PROVE RequestInv'
  OBVIOUS
<1>1. /\ RequestKept /\ stage = "delivered" /\ granted' = granted
      /\ stage' = IF Accepted THEN "accepted" ELSE "rejected"
      /\ slips' = slips /\ slips \in 0 .. MaxSlips
      /\ granted.signed \subseteq Wallets /\ builder \in Builders
  BY DEF Process, RequestKept, Unmade, Stages, RequestInv, Shape
<1>2. Shape' /\ RequestShape'
  BY <1>1, RequestKeptKeeps
<1>3. RequestKeys' = RequestKeys /\ Accounts' = Accounts
  BY <1>1 DEF RequestKept, RequestKeys, Accounts
<1>4. Signers' = Signers /\ Written' = Written
  BY <1>1, <1>3 DEF Signers, Written, RequestKept
<1>5. Privileged' /\ Accepted' = Accepted
  <2>1. Privileged' = Privileged
    BY <1>1, <1>4 DEF Privileged
  <2>2. Privileged
    BY <1>1 DEF RequestInv, Checked
  <2>3. Accepted' = Accepted
    BY <1>1, <1>4 DEF Accepted, AccountsTaken, ArgumentsRead, Arguments,
                      RequestKept
  <2> QED BY <2>1, <2>2, <2>3
<1>6. Checked'
  BY <1>1, <1>5 DEF Checked
<1>7. slips' = 0 => Honest'
  <2> SUFFICES ASSUME slips' = 0 PROVE Honest'
    OBVIOUS
  <2>1. Honest /\ Kept
    BY <1>1 DEF RequestInv, Honest
  <2>2. Kept'
    BY <1>1, <1>3, <2>1 DEF Kept, RequestKept, Unmade
  <2>3. stage' \in {"refused", "rejected"} => ServesProgram(builder)
    BY <1>1, UnslippedIsAccepted, BuildersFit
  <2> QED BY <1>1, <2>1, <2>2, <2>3, HonestKept
<1> QED BY <1>2, <1>6, <1>7 DEF RequestInv

-----------------------------------------------------------------------------
(* The theorems.                                                           *)

LEMMA NextKeepsRequest == RequestInv /\ [Next]_vars => RequestInv'
<1> SUFFICES ASSUME RequestInv, [Next]_vars PROVE RequestInv'
  OBVIOUS
<1>1. CASE SetAccount
  BY <1>1, SetAccountKeeps
<1>2. CASE SetWrongAccount
  BY <1>2, SetWrongAccountKeeps
<1>3. CASE LeaveAccount
  BY <1>3, LeaveAccountKeeps
<1>4. CASE SetArguments
  BY <1>4, SetArgumentsKeeps
<1>5. CASE \E key \in Wallets \cup {"other"}, w, s \in BOOLEAN :
             AddRemainingAccount(key, w, s)
  BY <1>5, AddRemainingAccountKeeps
<1>6. CASE Instruct
  BY <1>6, InstructKeeps
<1>7. CASE Panic
  BY <1>7, PanicKeeps
<1>8. CASE \E i \in DOMAIN request : ForgetFlag(i)
  BY <1>8, ForgetFlagKeeps
<1>9. CASE Sign
  BY <1>9, SignKeeps
<1>10. CASE Send
  BY <1>10, SendKeeps
<1>11. CASE Process
  BY <1>11, ProcessKeeps
<1>12. CASE UNCHANGED vars
  <2>1. Shape'
    BY <1>12 DEF vars, RequestInv, Shape, Accounts, Names, ArgumentNames,
                 Arguments
  <2>2. RequestShape'
    BY <1>12 DEF vars, RequestInv, RequestShape, Total, Accounts, KeyOf
  <2>3. Checked'
    BY <1>12 DEF vars, RequestInv, Checked, Privileged, Signers, Written,
                 RequestKeys, Accepted, AccountsTaken, ArgumentsRead,
                 Arguments
  <2>4. (slips = 0 => Honest)'
    BY <1>12 DEF vars, RequestInv, Honest, Kept, Filled, RequestKeys,
                 Accounts, ArgumentNames, Arguments
  <2> QED BY <2>1, <2>2, <2>3, <2>4 DEF RequestInv
<1> QED
  BY <1>1, <1>2, <1>3, <1>4, <1>5, <1>6, <1>7, <1>8, <1>9, <1>10, <1>11,
     <1>12 DEF Next

(* The invariant above holds of every request, whatever its caller does.   *)
THEOREM RequestInvariantHolds == Spec => []RequestInv
<1>1. Init => RequestInv
  BY InitRequest
<1>2. RequestInv /\ [Next]_vars => RequestInv'
  BY NextKeepsRequest
<1> QED BY <1>1, <1>2, PTL DEF Spec

(* A request has the accounts of its builder, then those added to it, and  *)
(* nobody but the wallets signs for it.                                    *)
THEOREM RequestTypesCorrect == Spec => []TypeOK
<1>1. RequestInv => TypeOK
  <2> SUFFICES ASSUME RequestInv PROVE TypeOK
    OBVIOUS
  <2>1. request # <<>> => Len(request) = Len(Accounts) + Len(remaining)
    BY DEF RequestInv, RequestShape, RequestOf, Total
  <2> QED BY <2>1 DEF RequestInv, Shape, TypeOK
<1> QED BY <1>1, RequestInvariantHolds, PTL

(* What is accepted was accepted by a handler that fits its builder.       *)
LEMMA AcceptedByHandler ==
  ASSUME RequestInv, stage = "accepted", NEW h, Fits(builder.request, h)
  PROVE  /\ Signers \subseteq granted.signed
         /\ \A i \in 1 .. Len(Accounts) :
              /\ h.roles[i] = Accounts[i].name
              /\ RoleTaken(h.roles[i], request[i].key)
              /\ h.roles[i] \in h.signers => request[i].key \in Signers
              /\ request[i].key = KeyOf(Accounts[i].name)
<1>1. Privileged /\ Accepted
  BY DEF RequestInv, Checked
<1>2. AccountsTaken(h)
  BY <1>1 DEF Accepted, Fits
<1>3. /\ RequestOf(request, Total)
      /\ \A i \in 1 .. Len(Accounts) :
           request[i].key = KeyOf(Accounts[i].name)
  BY DEF RequestInv, RequestShape, Unmade
<1>4. /\ Len(Accounts) \in Nat /\ Total \in Nat /\ Total >= Len(Accounts)
  BY BuildersDescribed DEF RequestInv, Shape, Described, Accounts, Total
<1>5. 1 .. Len(Accounts) \subseteq DOMAIN request
  BY <1>3, <1>4 DEF RequestOf
<1>6. \A i \in 1 .. Len(Accounts) : h.roles[i] = Accounts[i].name
  BY DEF Fits, AccountsFit, Accounts
<1> QED BY <1>1, <1>2, <1>3, <1>5, <1>6 DEF Privileged, AccountsTaken

(* An address of the program signs for nobody outside it.                  *)
LEMMA NoEventAccepted ==
  ASSUME RequestInv, stage = "accepted"
  PROVE  ~ServesProgram(builder)
<1> SUFFICES ASSUME ServesProgram(builder) PROVE FALSE
  OBVIOUS
<1>1. PICK h : Fits(builder.request, h) /\ AsksProgram(builder.request, h)
  BY DEF ServesProgram
<1>2. /\ 1 \in 1 .. Len(Accounts) /\ h.roles[1] = "event_authority"
      /\ "event_authority" \in h.signers
  BY <1>1 DEF AsksProgram, Accounts
<1>3. RoleTaken("event_authority", request[1].key)
  BY <1>1, <1>2, AcceptedByHandler
<1>4. request[1].key = "event_authority"
  BY <1>3 DEF RoleTaken, Meant
<1>5. "event_authority" \in granted.signed
  BY <1>1, <1>2, <1>4, AcceptedByHandler
<1> QED BY <1>5 DEF RequestInv, Shape, Wallets

(* However a request came about, with fields forgotten, keys mixed up,     *)
(* accounts added, signatures and flags left out, the program does nothing *)
(* in the name of an issuer and takes nothing from a payer that has not    *)
(* signed.                                                                 *)
THEOREM OnlySignersServed == Spec => []ServedForSigners
<1>1. RequestInv => ServedForSigners
  <2> SUFFICES ASSUME RequestInv, stage = "accepted"
               PROVE  /\ "issuer" \in granted.signed
                      /\ "payer" \in Names =>
                           \/ KeyOf("payer") \in granted.signed
                           \/ builder.request.discriminator \in {7, 11}
    BY DEF ServedForSigners
  <2>1. builder \in Builders
    BY DEF RequestInv, Shape
  <2>2. CASE ServesIssuer(builder)
    <3>1. PICK h : Fits(builder.request, h) /\ AsksIssuer(builder.request, h)
      BY <2>2 DEF ServesIssuer
    <3>2. PICK i \in 1 .. Len(Accounts) : h.roles[i] = "authority"
      BY <3>1 DEF AsksIssuer, Accounts
    <3>3. request[i].key \in Meant("authority")
      BY <3>1, <3>2, AcceptedByHandler DEF RoleTaken
    <3>4. "issuer" \in granted.signed
      BY <3>1, <3>2, <3>3, AcceptedByHandler DEF AsksIssuer, Meant
    <3>5. ASSUME "payer" \in Names,
                 builder.request.discriminator \notin {7, 11}
          PROVE  KeyOf("payer") \in granted.signed
      <4>1. PICK j \in 1 .. Len(Accounts) : Accounts[j].name = "payer"
        BY <3>1, <3>5 DEF Names, Fits, Described, Accounts
      <4>2. h.roles[j] = "payer" /\ "payer" \in h.signers
        BY <3>1, <3>5, <4>1, AcceptedByHandler DEF AsksIssuer, Accounts
      <4> QED BY <3>1, <4>1, <4>2, AcceptedByHandler
    <3> QED BY <3>4, <3>5
  <2> QED BY <2>1, <2>2, NoEventAccepted, BuildersFit
<1> QED BY <1>1, RequestInvariantHolds, PTL

(* Nobody outside the program has one of its events accepted: their        *)
(* handler wants the signature of an address that only the program can     *)
(* sign for.                                                               *)
THEOREM EventsAreTheProgramsOwn == Spec => []EventsOnlyFromProgram
<1>1. RequestInv => EventsOnlyFromProgram
  <2> SUFFICES ASSUME RequestInv, stage = "accepted",
                      builder.request.discriminator = 228
               PROVE  FALSE
    BY DEF EventsOnlyFromProgram
  <2>1. builder \in Builders
    BY DEF RequestInv, Shape
  <2>2. ServesProgram(builder)
    BY <2>1, BuildersFit DEF ServesIssuer, AsksIssuer
  <2> QED BY <2>2, NoEventAccepted
<1> QED BY <1>1, RequestInvariantHolds, PTL

(* Whatever is accepted is understood as its caller meant it: the roles    *)
(* and the values the handler reads are the fields of those names.         *)
THEOREM NothingIsMisread == Spec => []NothingMisread
<1>1. RequestInv => NothingMisread
  <2> SUFFICES ASSUME RequestInv,
                      NEW handler \in Dispatch(builder.request.discriminator)
               PROVE  /\ \A i \in DOMAIN handler.roles :
                           Accounts[i].name = handler.roles[i]
                      /\ \A p \in DOMAIN handler.parsers :
                           \A i \in DOMAIN handler.parsers[p] :
                             handler.parsers[p][i][1]
                               \in {"", Arguments[i][1]}
    BY DEF NothingMisread
  <2>1. \E h : Fits(builder.request, h)
    BY BuildersFit DEF RequestInv, Shape, ServesIssuer, ServesProgram
  <2>2. Fits(builder.request, handler)
    BY <2>1 DEF Fits
  <2>3. \A i \in DOMAIN handler.roles : Accounts[i].name = handler.roles[i]
    BY <2>2 DEF Fits, AccountsFit, Accounts
  <2>4. \A p \in DOMAIN handler.parsers :
          ReadsFit(handler.parsers[p], Arguments)
    BY <2>2 DEF Fits, ArgumentsFit, Arguments
  <2> QED BY <2>3, <2>4 DEF ReadsFit
<1> QED BY <1>1, RequestInvariantHolds, PTL

(* Who fills in every field, adds nothing and has all of it signed is      *)
(* served: no builder panics, no privilege is missing and no handler       *)
(* rejects the accounts or the arguments, unless an event is what it asks. *)
THEOREM CompleteRequestsAreServed == Spec => []CompleteRequestsServed
<1>1. RequestInv => CompleteRequestsServed
  <2> SUFFICES ASSUME RequestInv, slips = 0,
                      stage \in {"panicked", "refused", "rejected"}
               PROVE  \/ builder.request = EmitEvent
                      \/ builder.request = EmitEventCpi
    BY MaxSlipsAssumption DEF CompleteRequestsServed, RequestInv, Shape
  <2> QED BY DEF RequestInv, Honest, ServesProgram
<1> QED BY <1>1, RequestInvariantHolds, PTL

=============================================================================
