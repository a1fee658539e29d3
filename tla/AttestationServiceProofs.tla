---------------------- MODULE AttestationServiceProofs ----------------------
(***************************************************************************)
(* Theorems about AttestationService, for every value of its constants:    *)
(* its invariants, and what a transaction may do to the committed state.   *)
(***************************************************************************)
EXTENDS InstructionProofs

(* Types alone are not inductive: the new size of a resized account is a   *)
(* natural number only because the old size was that of its contents, and  *)
(* the address of a new attestation is one only because its schema is      *)
(* under the credential that is named.  A wallet of the program's stays    *)
(* zeroed.  The last commit satisfies the same invariant, for Abort goes   *)
(* back to it.                                                             *)
ZeroedIn(ledger) ==
  \A w \in Wallet : ledger[w].owner = "sas" => ledger[w].data = BlankCredential

IInv ==
  /\ TypeOK
  /\ LedgerInv(accounts) /\ ZeroedIn(accounts)
  /\ LedgerInv(saved.accounts) /\ ZeroedIn(saved.accounts)

-----------------------------------------------------------------------------
(* How the running transaction may have changed the committed state.  The  *)
(* properties of a commit follow from these, which hold before it.         *)

(* Between transactions there is nothing to commit.                        *)
Settled ==
  signers = {} =>
    /\ accounts = saved.accounts
    /\ events = saved.events
    /\ issued = saved.issued

(* The parts of credentials and schemas that are for good.                 *)
SameCredential(d1, d2) ==
  /\ d2.kind = "credential"
  /\ d2.authority = d1.authority
  /\ d2.name = d1.name

SameSchema(d1, d2) ==
  /\ d2.kind = "schema"
  /\ d2.credential = d1.credential
  /\ d2.name = d1.name
  /\ d2.version = d1.version
  /\ d2.layout = d1.layout
  /\ d2.field_names = d1.field_names

KeptSince ==
  \A x \in Address :
    /\ HeldIn(saved.accounts, x, "credential") =>
         /\ Holds(x, "credential")
         /\ SameCredential(saved.accounts[x].data, accounts[x].data)
    /\ HeldIn(saved.accounts, x, "schema") =>
         /\ Holds(x, "schema")
         /\ SameSchema(saved.accounts[x].data, accounts[x].data)

(* The authority of the credential at c signed, or a wallet it listed      *)
(* before the transaction.                                                 *)
ListedSigned(c) ==
  /\ saved.accounts[c].data.kind = "credential"
  /\ ListedBefore(c) \cap signers # {}

(* Whose account is at a signed.                                           *)
Entitled(a) ==
  /\ a \in Wallet => a \in signers
  /\ a \in CredentialAddress => a.authority \in signers
  /\ a \in SchemaAddress => AuthoritySigned(a.credential)
  /\ a \in AttestationAddress =>
       AuthoritySigned(a.credential) \/ ListedSigned(a.credential)

ChangedByEntitled ==
  \A a \in Address :
    accounts[a].data # saved.accounts[a].data => Entitled(a)

(* Attestations issued since under a schema that was paused.               *)
IssuedWhilePaused ==
  \A e \in Event :
    /\ HeldIn(saved.accounts, e.schema, "schema")
    /\ saved.accounts[e.schema].data.is_paused
    /\ issued[e] > saved.issued[e]
    => AuthoritySigned(e.schema.credential)

EventsGrow == \A e \in Event : events[e] >= saved.events[e]

FundedSince ==
  \A x \in Address :
    accounts[x].lamports < saved.accounts[x].lamports =>
      \/ x \in signers
      \/ x \in AttestationAddress /\ \E e \in Event : events[e] > saved.events[e]

TransactionInv ==
  /\ Settled
  /\ KeptSince
  /\ ChangedByEntitled
  /\ IssuedWhilePaused
  /\ EventsGrow
  /\ FundedSince

(* The live attestations of a ledger with that schema and data.            *)
LiveIn(ledger, e) ==
  {a \in AttestationAddress :
     /\ HeldIn(ledger, a, "attestation")
     /\ ledger[a].data.schema = e.schema
     /\ ledger[a].data.data = e.data}

(* Finitely many attestations are live at a time, although the addresses   *)
(* need not be finitely many.                                              *)
AccountedIn(chain) ==
  \A e \in Event :
    /\ IsFiniteSet(LiveIn(chain.accounts, e))
    /\ chain.issued[e]
         = chain.events[e] + Cardinality(LiveIn(chain.accounts, e))

(* The inductive invariant.                                                *)
ServiceInv == IInv /\ TransactionInv /\ AccountedIn(Chain) /\ AccountedIn(saved)

-----------------------------------------------------------------------------
(* What one instruction may change, account by account.                    *)

(* The account at a keeps what is for good.                                *)
CarriedOver(a) ==
  /\ Holds(a, "credential") =>
       /\ HeldIn(accounts', a, "credential")
       /\ SameCredential(accounts[a].data, accounts'[a].data)
  /\ Holds(a, "schema") =>
       /\ HeldIn(accounts', a, "schema")
       /\ SameSchema(accounts[a].data, accounts'[a].data)

(* The one whose account is at a signs the instruction.                    *)
SignedFor(a) ==
  /\ a \in Wallet => a \in signers
  /\ a \in CredentialAddress => a.authority \in signers
  /\ a \in SchemaAddress => AuthoritySigned(a.credential)
  /\ a \in AttestationAddress =>
       \E signer \in Wallet : SignerAuthorized(signer, a.credential)

SameAt(x) ==
  accounts'[x].owner = accounts[x].owner /\ accounts'[x].data = accounts[x].data

OneChanged ==
  \E a \in Address : /\ SignedFor(a) /\ CarriedOver(a)
                     /\ \A x \in Address \ {a} : SameAt(x)

(* A credential that is no zeroed wallet lies at the address of its        *)
(* authority and name.                                                     *)
LEMMA CredentialHome ==
  ASSUME InOrder, ZeroedIn(accounts), NEW c \in CredentialKey,
         Holds(c, "credential"), accounts[c].data # BlankCredential
  PROVE  /\ c \in CredentialAddress
         /\ accounts[c].data \in CredentialData
         /\ c.authority = accounts[c].data.authority
         /\ c.name = accounts[c].data.name
<1>1. /\ c \in Address /\ accounts[c].owner = "sas"
      /\ accounts[c].data.kind = "credential"
  BY AddressKinds DEF Holds, HeldIn
<1>2. c \in CredentialAddress
  BY <1>1, WalletAssumption DEF ZeroedIn, CredentialKey
<1>3. accounts[c].data \in CredentialData
  BY <1>1, References, KindType DEF InOrder, AccountsGood
<1>4. c = OwnPda(accounts[c].data)
  BY <1>1 DEF InOrder, AccountsGood, LedgerInv, BoundIn
<1>5. c = CredentialPda(accounts[c].data.authority, accounts[c].data.name)
  BY <1>1, <1>4 DEF OwnPda
<1> QED BY <1>2, <1>3, <1>5 DEF CredentialPda

(* The sets of derived addresses have nothing in common.                   *)
LEMMA AddressesDisjoint ==
  /\ \A a \in CredentialAddress :
       a \notin Wallet /\ a \notin SchemaAddress /\ a \notin AttestationAddress
  /\ \A a \in SchemaAddress :
       a \notin Wallet /\ a \notin CredentialAddress
         /\ a \notin AttestationAddress
  /\ \A a \in AttestationAddress :
       a \notin Wallet /\ a \notin CredentialAddress /\ a \notin SchemaAddress
BY AddressAssumption
   DEF CredentialAddress, SchemaAddress, AttestationAddress

(* Whoever the authority of a credential is, it is not the null key.       *)
LEMMA SignedCredential ==
  ASSUME InOrder, ZeroedIn(accounts), NEW c \in CredentialKey,
         AuthoritySigned(c)
  PROVE  /\ c \in CredentialAddress /\ c.authority \in signers
         /\ accounts[c].data \in CredentialData
         /\ accounts[c].data.kind = "credential"
<1>1. Holds(c, "credential") /\ accounts[c].data.authority \in signers
  BY DEF AuthoritySigned
<1>2. accounts[c].data # BlankCredential
  BY <1>1, WalletAssumption DEF BlankCredential, Credential, InOrder
<1> QED BY <1>1, <1>2, CredentialHome DEF Holds, HeldIn

LEMMA EffectOneChanged ==
  ASSUME InOrder, ZeroedIn(accounts), Effect
  PROVE  OneChanged \/ \A x \in Address : SameAt(x)
<1>1. CASE LamportsOnly
  BY <1>1 DEF LamportsOnly, SameAt
<1>2. ASSUME NEW c \in CredentialAddress, NEW list \in SignerList,
             CredentialCreated(c, list)
      PROVE  OneChanged
  <2>1. SignedFor(c) /\ CarriedOver(c)
    BY <1>2, AddressesDisjoint
       DEF CredentialCreated, SignedFor, CarriedOver, Holds, HeldIn
  <2>2. c \in Address
    BY AddressKinds
  <2> QED BY <1>2, <2>1, <2>2
       DEF CredentialCreated, Rewritten, OneChanged, SameAt
<1>3. ASSUME NEW c \in CredentialKey, NEW list \in SignerList,
             SignersChanged(c, list)
      PROVE  OneChanged
  <2> DEFINE old == accounts[c].data
             d == [old EXCEPT !.authorized_signers = list]
  <2>1. /\ c \in CredentialAddress /\ c.authority \in signers
        /\ old \in CredentialData /\ old.kind = "credential"
    BY <1>3, SignedCredential DEF SignersChanged
  <2>2. SameCredential(old, d)
    <3> HIDE DEF old
    <3> QED BY <2>1 DEF CredentialData, SameCredential
  <2>3. /\ accounts'[c].owner = "sas" /\ accounts'[c].data = d
        /\ \A x \in Address \ {c} : SameAt(x)
    BY <1>3 DEF SignersChanged, Rewritten, SameAt
  <2>4. SignedFor(c)
    BY <2>1, AddressesDisjoint DEF SignedFor
  <2>5. CarriedOver(c)
    BY <2>1, <2>2, <2>3 DEF CarriedOver, Holds, HeldIn, SameCredential
  <2> QED BY <2>1, <2>3, <2>4, <2>5, AddressKinds DEF OneChanged
<1>4. ASSUME NEW s \in SchemaAddress, NEW description \in Description,
             NEW layout \in Layout, NEW fieldNames \in FieldNames,
             SchemaCreated(s, description, layout, fieldNames)
      PROVE  OneChanged
  <2>1. SignedFor(s) /\ CarriedOver(s)
    BY <1>4, AddressesDisjoint
       DEF SchemaCreated, SignedFor, CarriedOver, Holds, HeldIn
  <2> QED BY <1>4, <2>1, AddressKinds
       DEF SchemaCreated, Rewritten, OneChanged, SameAt
<1>5. ASSUME NEW s \in SchemaAddress, NEW d,
             Holds(s, "schema"), AuthoritySigned(s.credential),
             Rewritten(s, "sas", d), SameSchema(accounts[s].data, d)
      PROVE  OneChanged
  <2>1. SignedFor(s)
    BY <1>5, AddressesDisjoint DEF SignedFor
  <2>2. CarriedOver(s)
    BY <1>5 DEF CarriedOver, Rewritten, Holds, HeldIn, SameSchema
  <2> QED BY <1>5, <2>1, <2>2, AddressKinds DEF Rewritten, OneChanged, SameAt
<1>6. ASSUME NEW s \in SchemaAddress, Holds(s, "schema")
      PROVE  /\ \A paused \in BOOLEAN :
                  SameSchema(accounts[s].data,
                             [accounts[s].data EXCEPT !.is_paused = paused])
             /\ \A description \in Description :
                  SameSchema(accounts[s].data, [accounts[s].data EXCEPT
                                                  !.description = description])
  <2> DEFINE old == accounts[s].data
  <2>1. old \in SchemaData /\ old.kind = "schema"
    BY <1>6, AddressKinds, References, KindType
       DEF InOrder, AccountsGood, Holds, HeldIn
  <2> HIDE DEF old
  <2>2. \A paused \in BOOLEAN :
          SameSchema(old, [old EXCEPT !.is_paused = paused])
    BY <2>1 DEF SchemaData, SameSchema
  <2>3. \A description \in Description :
          SameSchema(old, [old EXCEPT !.description = description])
    BY <2>1 DEF SchemaData, SameSchema
  <2> QED BY <2>2, <2>3 DEF old
<1>7. ASSUME NEW s \in SchemaAddress, NEW paused \in BOOLEAN,
             StatusChanged(s, paused)
      PROVE  OneChanged
  BY <1>5, <1>6, <1>7 DEF StatusChanged
<1>8. ASSUME NEW s \in SchemaAddress, NEW description \in Description,
             DescriptionChanged(s, description)
      PROVE  OneChanged
  BY <1>5, <1>6, <1>8 DEF DescriptionChanged
<1>9. ASSUME NEW a \in AttestationAddress, NEW signer \in Wallet,
             NEW data \in Data, NEW expiry \in Expiry,
             NEW token \in HoldingAddress \cup {NoToken},
             AttestationIssued(a, signer, data, expiry, token)
      PROVE  OneChanged
  <2>1. SignedFor(a) /\ CarriedOver(a)
    BY <1>9, AddressesDisjoint
       DEF AttestationIssued, SignedFor, CarriedOver, Holds, HeldIn
  <2> QED BY <1>9, <2>1, AddressKinds
       DEF AttestationIssued, Rewritten, OneChanged, SameAt
<1>10. ASSUME NEW a \in AttestationAddress, NEW signer \in Wallet,
              AttestationClosed(a, signer)
       PROVE  OneChanged
  <2>1. SignedFor(a) /\ CarriedOver(a)
    BY <1>10, AddressesDisjoint
       DEF AttestationClosed, SignedFor, CarriedOver, Holds, HeldIn
  <2> QED BY <1>10, <2>1, AddressKinds
       DEF AttestationClosed, Rewritten, OneChanged, SameAt
<1>11. ASSUME NEW w \in Squatter, WalletAssigned(w)
       PROVE  OneChanged
  <2>1. w \in Wallet
    BY WalletAssumption
  <2>2. SignedFor(w) /\ CarriedOver(w)
    BY <1>11, <2>1, AddressesDisjoint
       DEF WalletAssigned, SignedFor, CarriedOver, Holds, HeldIn
  <2> QED BY <1>11, <2>1, <2>2, AddressKinds
       DEF WalletAssigned, Rewritten, OneChanged, SameAt
<1> QED BY <1>1, <1>2, <1>3, <1>4, <1>7, <1>8, <1>9, <1>10, <1>11 DEF Effect

(* A wallet of the program's stays zeroed: nobody signs for the null key.  *)
LEMMA EffectZeroed ==
  ASSUME InOrder, ZeroedIn(accounts), Effect
  PROVE  ZeroedIn(accounts')
<1>1. CASE \A x \in Wallet : SameAt(x)
  BY <1>1 DEF ZeroedIn, SameAt
<1>2. ASSUME NEW a, a \notin Wallet, NEW owner, NEW d, Rewritten(a, owner, d)
      PROVE  ZeroedIn(accounts')
  BY <1>2, AddressKinds DEF Rewritten, ZeroedIn
<1>3. CASE LamportsOnly
  BY <1>1, <1>3, AddressKinds DEF LamportsOnly, SameAt
<1>4. ASSUME NEW c \in CredentialKey, NEW list \in SignerList,
             SignersChanged(c, list)
      PROVE  ZeroedIn(accounts')
  <2>1. c \notin Wallet
    BY <1>4, SignedCredential, AddressesDisjoint DEF SignersChanged
  <2> QED BY <1>2, <1>4, <2>1 DEF SignersChanged
<1>5. ASSUME NEW w \in Squatter, WalletAssigned(w)
      PROVE  ZeroedIn(accounts')
  BY <1>5, AddressKinds DEF WalletAssigned, Rewritten, ZeroedIn
<1> QED BY <1>2, <1>3, <1>4, <1>5, AddressesDisjoint
     DEF Effect, CredentialCreated, SchemaCreated, StatusChanged,
         DescriptionChanged, AttestationIssued, AttestationClosed

(* One schema and data more have been issued, or announced as closed.      *)
LEMMA EffectCounts ==
  ASSUME InOrder, Effect
  PROVE  \/ events' = events /\ issued' = issued
         \/ /\ events' = events
            /\ \E e \in Event :
                 /\ issued' = [issued EXCEPT ![e] = @ + 1]
                 /\ e.schema \in SchemaAddress
                 /\ Holds(e.schema, "schema")
                 /\ ~accounts[e.schema].data.is_paused
         \/ /\ issued' = issued
            /\ \E e \in Event : events' = [events EXCEPT ![e] = @ + 1]
<1>1. ASSUME NEW a \in AttestationAddress, NEW signer \in Wallet,
             NEW data \in Data, NEW expiry \in Expiry,
             NEW token \in HoldingAddress \cup {NoToken},
             AttestationIssued(a, signer, data, expiry, token)
      PROVE  /\ events' = events
             /\ \E e \in Event :
                  /\ issued' = [issued EXCEPT ![e] = @ + 1]
                  /\ e.schema \in SchemaAddress
                  /\ Holds(e.schema, "schema")
                  /\ ~accounts[e.schema].data.is_paused
  <2> DEFINE e == [schema |-> a.schema, data |-> data]
  <2>1. a.schema \in SchemaAddress
    BY DEF AttestationAddress
  <2>2. e \in Event /\ e.schema = a.schema
    BY <2>1 DEF Event
  <2>3. issued' = [issued EXCEPT ![e] = @ + 1] /\ events' = events
    BY <1>1 DEF AttestationIssued, Issue
  <2>4. Holds(a.schema, "schema") /\ ~accounts[a.schema].data.is_paused
    BY <1>1 DEF AttestationIssued, SchemaOf, Active
  <2> HIDE DEF e
  <2> QED BY <2>1, <2>2, <2>3, <2>4
<1>2. ASSUME NEW a \in AttestationAddress, NEW signer \in Wallet,
             AttestationClosed(a, signer)
      PROVE  /\ issued' = issued
             /\ \E e \in Event : events' = [events EXCEPT ![e] = @ + 1]
  <2> DEFINE e == [schema |-> accounts[a].data.schema,
                   data |-> accounts[a].data.data]
  <2>1. accounts[a].data \in AttestationData
    BY <1>2, AttestationUnder DEF AttestationClosed, InOrder
  <2>2. e \in Event
    BY <2>1 DEF AttestationData, Event
  <2>3. events' = [events EXCEPT ![e] = @ + 1] /\ issued' = issued
    BY <1>2 DEF AttestationClosed, EmitClose
  <2> HIDE DEF e
  <2> QED BY <2>2, <2>3
<1> QED BY <1>1, <1>2
     DEF Effect, LamportsOnly, CredentialCreated, SignersChanged, SchemaCreated,
         StatusChanged, DescriptionChanged, WalletAssigned

(* The instructions of a transaction keep its account of what it changed.  *)
LEMMA TransactionStep ==
  ASSUME IInv, TransactionInv, GoodStep
  PROVE  TransactionInv'
<1>1. InOrder /\ ZeroedIn(accounts) /\ Effect
  BY DEF IInv, TypeOK, InOrder, AccountsGood, GoodStep
<1>2. saved' = saved /\ signers' = signers /\ signers # {}
  BY DEF GoodStep, Instruction
<1>3. OneChanged \/ \A x \in Address : SameAt(x)
  BY <1>1, EffectOneChanged
<1>4. \A x \in Address : CarriedOver(x)
  <2>1. ASSUME NEW x \in Address, SameAt(x)
        PROVE  CarriedOver(x)
    BY <2>1 DEF SameAt, CarriedOver, Holds, HeldIn, SameCredential, SameSchema
  <2> QED BY <1>3, <2>1 DEF OneChanged
<1>5. ASSUME NEW x \in Address, accounts'[x].data # accounts[x].data
      PROVE  SignedFor(x)
  BY <1>3, <1>5 DEF OneChanged, SameAt
<1>6. ASSUME NEW c \in CredentialKey, AuthoritySigned(c)
      PROVE  AuthoritySigned(c)'
  <2>1. c \in Address /\ Holds(c, "credential")
    BY <1>6, AddressKinds DEF AuthoritySigned
  <2>2. /\ HeldIn(accounts', c, "credential")
        /\ SameCredential(accounts[c].data, accounts'[c].data)
    BY <1>4, <2>1 DEF CarriedOver
  <2> QED BY <1>2, <1>6, <2>2
       DEF AuthoritySigned, Holds, HeldIn, SameCredential
<1>7. ASSUME NEW c \in CredentialKey, NEW signer \in Wallet,
             SignerAuthorized(signer, c)
      PROVE  AuthoritySigned(c) \/ ListedSigned(c)
  <2>1. /\ signer \in signers /\ Holds(c, "credential")
        /\ \E i \in 1 .. Len(accounts[c].data.authorized_signers) :
             accounts[c].data.authorized_signers[i] = signer
    BY <1>7 DEF SignerAuthorized
  <2>2. CASE accounts[c].data = saved.accounts[c].data
    BY <2>1, <2>2 DEF ListedSigned, ListedBefore, Before, Holds, HeldIn
  <2>3. CASE accounts[c].data # saved.accounts[c].data
    <3>1. Entitled(c)
      BY <2>3, AddressKinds DEF TransactionInv, ChangedByEntitled
    <3>2. accounts[c].data # BlankCredential
      <4>1. SUFFICES ASSUME accounts[c].data = BlankCredential PROVE FALSE
        OBVIOUS
      <4>2. accounts[c].data.authorized_signers = <<>>
        BY <4>1 DEF BlankCredential, Credential
      <4> QED BY <2>1, <4>2
    <3>3. /\ c \in CredentialAddress
          /\ c.authority = accounts[c].data.authority
      BY <1>1, <2>1, <3>2, CredentialHome
    <3> QED BY <2>1, <3>1, <3>3 DEF Entitled, AuthoritySigned
  <2> QED BY <2>2, <2>3
<1>8. Settled'
  BY <1>2 DEF Settled
<1>9. KeptSince'
  <2> SUFFICES ASSUME NEW x \in Address
      PROVE  /\ HeldIn(saved.accounts, x, "credential") =>
                  /\ HeldIn(accounts', x, "credential")
                  /\ SameCredential(saved.accounts[x].data, accounts'[x].data)
             /\ HeldIn(saved.accounts, x, "schema") =>
                  /\ HeldIn(accounts', x, "schema")
                  /\ SameSchema(saved.accounts[x].data, accounts'[x].data)
    BY <1>2 DEF KeptSince, Holds
  <2>1. /\ HeldIn(saved.accounts, x, "credential") =>
             /\ Holds(x, "credential")
             /\ SameCredential(saved.accounts[x].data, accounts[x].data)
        /\ HeldIn(saved.accounts, x, "schema") =>
             /\ Holds(x, "schema")
             /\ SameSchema(saved.accounts[x].data, accounts[x].data)
    BY DEF TransactionInv, KeptSince
  <2> QED BY <1>4, <2>1 DEF CarriedOver, SameCredential, SameSchema
<1>10. ChangedByEntitled'
  <2> SUFFICES ASSUME NEW a \in Address,
                      accounts'[a].data # saved.accounts[a].data
               PROVE  Entitled(a)'
    BY <1>2 DEF ChangedByEntitled
  <2>1. a \in SchemaAddress \/ a \in AttestationAddress =>
          a.credential \in CredentialKey
    BY DEF SchemaAddress, AttestationAddress
  <2>2. a \in AttestationAddress /\ ListedSigned(a.credential) =>
          ListedSigned(a.credential)'
    BY <1>2 DEF ListedSigned, ListedBefore, Before
  <2>3. CASE accounts[a].data # saved.accounts[a].data
    <3>1. Entitled(a)
      BY <2>3 DEF TransactionInv, ChangedByEntitled
    <3> QED BY <1>2, <1>6, <2>1, <2>2, <3>1 DEF Entitled
  <2>4. CASE accounts[a].data = saved.accounts[a].data
    <3>1. SignedFor(a)
      BY <1>5, <2>4
    <3>2. a \in AttestationAddress =>
            AuthoritySigned(a.credential) \/ ListedSigned(a.credential)
      BY <1>7, <2>1, <3>1 DEF SignedFor
    <3> QED BY <1>2, <1>6, <2>1, <2>2, <3>1, <3>2 DEF SignedFor, Entitled
  <2> QED BY <2>3, <2>4
<1>11. IssuedWhilePaused'
  <2> SUFFICES ASSUME NEW e \in Event,
                      HeldIn(saved.accounts, e.schema, "schema"),
                      saved.accounts[e.schema].data.is_paused,
                      issued'[e] > saved.issued[e]
               PROVE  AuthoritySigned(e.schema.credential)'
    BY <1>2 DEF IssuedWhilePaused
  <2>1. e.schema \in SchemaAddress /\ e.schema.credential \in CredentialKey
        /\ e.schema \in Address
    BY AddressKinds DEF Event, SchemaAddress
  <2>2. CASE issued[e] > saved.issued[e]
    BY <1>6, <2>1, <2>2 DEF TransactionInv, IssuedWhilePaused
  <2>3. CASE ~(issued[e] > saved.issued[e])
    <3>1. issued'[e] # issued[e]
      BY <2>3
    <3>2. PICK f \in Event : /\ issued' = [issued EXCEPT ![f] = @ + 1]
                             /\ ~accounts[f.schema].data.is_paused
      BY <1>1, <3>1, EffectCounts
    <3>3. f = e
      BY <3>1, <3>2 DEF IInv, TypeOK
    <3>4. accounts[e.schema].data # saved.accounts[e.schema].data
      BY <3>2, <3>3
    <3>5. Entitled(e.schema)
      BY <2>1, <3>4 DEF TransactionInv, ChangedByEntitled
    <3> QED BY <1>6, <2>1, <3>5 DEF Entitled
  <2> QED BY <2>2, <2>3
<1>12. \A e \in Event : /\ events[e] \in Nat /\ events'[e] \in Nat
                        /\ events'[e] >= events[e]
  <2>1. events \in [Event -> Nat] /\ events' \in [Event -> Nat]
    BY DEF IInv, TypeOK, GoodStep
  <2> QED BY <1>1, <2>1, EffectCounts
<1>13. \A e \in Event : saved.events[e] \in Nat
  BY DEF IInv, TypeOK, ChainType
<1>14. EventsGrow'
  BY <1>2, <1>12, <1>13 DEF TransactionInv, EventsGrow
<1>15. FundedSince'
  <2> SUFFICES ASSUME NEW x \in Address,
                      accounts'[x].lamports < saved.accounts[x].lamports
               PROVE  \/ x \in signers
                      \/ /\ x \in AttestationAddress
                         /\ \E e \in Event : events'[e] > saved.events[e]
    BY <1>2 DEF FundedSince
  <2>1. /\ accounts[x].lamports \in Nat /\ accounts'[x].lamports \in Nat
        /\ saved.accounts[x].lamports \in Nat
    BY References DEF IInv, TypeOK, ChainType, GoodStep, AccountsGood
  <2>2. CASE accounts'[x].lamports < accounts[x].lamports
    <3>1. CASE x \in signers
      BY <3>1
    <3>2. CASE x \notin signers
      <4>1. /\ x \in AttestationAddress
            /\ \E e \in Event : events'[e] > events[e]
        BY <2>2, <3>2 DEF GoodStep, Funded
      <4>2. PICK e \in Event : events'[e] > events[e]
        BY <4>1
      <4>3. events'[e] > saved.events[e]
        BY <1>12, <1>13, <4>2 DEF TransactionInv, EventsGrow
      <4> QED BY <4>1, <4>3
    <3> QED BY <3>1, <3>2
  <2>3. CASE ~(accounts'[x].lamports < accounts[x].lamports)
    <3>1. accounts[x].lamports < saved.accounts[x].lamports
      BY <2>1, <2>3
    <3>2. \/ x \in signers
          \/ x \in AttestationAddress
               /\ \E e \in Event : events[e] > saved.events[e]
      BY <3>1 DEF TransactionInv, FundedSince
    <3>3. \A e \in Event : events[e] > saved.events[e] =>
            events'[e] > saved.events[e]
      BY <1>12, <1>13
    <3> QED BY <3>2, <3>3
  <2> QED BY <2>2, <2>3
<1> QED BY <1>8, <1>9, <1>10, <1>11, <1>14, <1>15 DEF TransactionInv

(* Only issuing and closing change which attestations are live.            *)
LEMMA LiveSame ==
  ASSUME NEW l1, NEW l2, NEW e,
         \A a \in AttestationAddress :
           \/ l2[a].owner = l1[a].owner /\ l2[a].data = l1[a].data
           \/ ~HeldIn(l1, a, "attestation") /\ ~HeldIn(l2, a, "attestation")
  PROVE  LiveIn(l2, e) = LiveIn(l1, e)
BY DEF LiveIn, HeldIn

(* An attestation is counted once when issued and once when closed.        *)
LEMMA AccountedStep ==
  ASSUME IInv, AccountedIn(Chain), GoodStep
  PROVE  AccountedIn(Chain)'
<1>1. InOrder /\ ZeroedIn(accounts) /\ Effect
  BY DEF IInv, TypeOK, InOrder, AccountsGood, GoodStep
<1> DEFINE Live(e) == LiveIn(accounts, e)
           LiveNext(e) == LiveIn(accounts', e)
<1>2. \A e \in Event : /\ events[e] \in Nat /\ issued[e] \in Nat
                       /\ IsFiniteSet(Live(e))
                       /\ issued[e] = events[e] + Cardinality(Live(e))
  BY DEF IInv, TypeOK, AccountedIn, Chain
<1>3. \A e \in Event : Cardinality(Live(e)) \in Nat
  BY <1>2, FS_CardinalityType
<1>4. SUFFICES ASSUME NEW e \in Event
               PROVE  /\ IsFiniteSet(LiveNext(e))
                      /\ issued'[e] = events'[e] + Cardinality(LiveNext(e))
  BY DEF AccountedIn, Chain
<1>5. ASSUME events' = events, issued' = issued,
             \A a \in AttestationAddress :
               \/ accounts'[a].owner = accounts[a].owner
                    /\ accounts'[a].data = accounts[a].data
               \/ /\ ~HeldIn(accounts, a, "attestation")
                  /\ ~HeldIn(accounts', a, "attestation")
      PROVE  /\ IsFiniteSet(LiveNext(e))
             /\ issued'[e] = events'[e] + Cardinality(LiveNext(e))
  <2>1. LiveNext(e) = Live(e)
    BY <1>5, LiveSame
  <2> QED BY <1>2, <1>5, <2>1
<1>6. CASE LamportsOnly
  BY <1>5, <1>6, AddressKinds DEF LamportsOnly
<1>7. ASSUME NEW x, NEW owner, NEW d, Rewritten(x, owner, d),
             x \notin AttestationAddress, events' = events, issued' = issued
      PROVE  /\ IsFiniteSet(LiveNext(e))
             /\ issued'[e] = events'[e] + Cardinality(LiveNext(e))
  BY <1>5, <1>7, AddressKinds DEF Rewritten
<1>8. ASSUME NEW c \in CredentialKey, NEW list \in SignerList,
             SignersChanged(c, list)
      PROVE  /\ IsFiniteSet(LiveNext(e))
             /\ issued'[e] = events'[e] + Cardinality(LiveNext(e))
  <2>1. c \notin AttestationAddress
    BY AddressesDisjoint, WalletAssumption DEF CredentialKey
  <2> QED BY <1>7, <1>8, <2>1 DEF SignersChanged
<1>9. ASSUME NEW a \in AttestationAddress, NEW signer \in Wallet,
             NEW data \in Data, NEW expiry \in Expiry,
             NEW token \in HoldingAddress \cup {NoToken},
             AttestationIssued(a, signer, data, expiry, token)
      PROVE  /\ IsFiniteSet(LiveNext(e))
             /\ issued'[e] = events'[e] + Cardinality(LiveNext(e))
  <2> DEFINE f == [schema |-> a.schema, data |-> data]
  <2>1. f \in Event /\ f.schema = a.schema /\ f.data = data
    BY DEF Event, AttestationAddress
  <2>2. issued' = [issued EXCEPT ![f] = @ + 1] /\ events' = events
    BY <1>9 DEF AttestationIssued, Issue
  <2>3. /\ accounts[a].owner = "system"
        /\ accounts'[a].owner = "sas"
        /\ accounts'[a].data.kind = "attestation"
        /\ accounts'[a].data.schema = f.schema
        /\ accounts'[a].data.data = f.data
        /\ \A x \in AttestationAddress \ {a} :
             /\ accounts'[x].owner = accounts[x].owner
             /\ accounts'[x].data = accounts[x].data
    BY <1>9, <2>1, AddressKinds DEF AttestationIssued, Rewritten, Attestation
  <2> HIDE DEF f
  <2>4. a \notin Live(e)
    BY <2>3 DEF LiveIn, HeldIn
  <2>5. CASE e = f
    <3>1. LiveNext(e) = Live(e) \cup {a}
      BY <2>3, <2>5 DEF LiveIn, HeldIn
    <3>2. /\ IsFiniteSet(LiveNext(e))
          /\ Cardinality(LiveNext(e)) = Cardinality(Live(e)) + 1
      BY <1>2, <2>4, <3>1, FS_AddElement
    <3>3. issued'[e] = issued[e] + 1
      BY <2>1, <2>2, <2>5 DEF IInv, TypeOK
    <3> HIDE DEF Live, LiveNext
    <3> QED BY <1>2, <1>3, <2>2, <3>2, <3>3
  <2>6. CASE e # f
    <3>1. e.schema # f.schema \/ e.data # f.data
      BY <2>1, <2>6 DEF Event
    <3>2. LiveNext(e) = Live(e)
      BY <2>3, <3>1 DEF LiveIn, HeldIn
    <3>3. issued'[e] = issued[e]
      BY <2>1, <2>2, <2>6 DEF IInv, TypeOK
    <3> QED BY <1>2, <2>2, <3>2, <3>3
  <2> QED BY <2>5, <2>6
<1>10. ASSUME NEW a \in AttestationAddress, NEW signer \in Wallet,
              AttestationClosed(a, signer)
       PROVE  /\ IsFiniteSet(LiveNext(e))
              /\ issued'[e] = events'[e] + Cardinality(LiveNext(e))
  <2> DEFINE f == [schema |-> accounts[a].data.schema,
                   data |-> accounts[a].data.data]
  <2>1. accounts[a].data \in AttestationData
    BY <1>1, <1>10, AttestationUnder DEF AttestationClosed, InOrder
  <2>2. /\ f \in Event /\ f.schema = accounts[a].data.schema
        /\ f.data = accounts[a].data.data
    BY <2>1 DEF AttestationData, Event
  <2>3. events' = [events EXCEPT ![f] = @ + 1] /\ issued' = issued
    BY <1>10 DEF AttestationClosed, EmitClose
  <2>4. /\ HeldIn(accounts, a, "attestation")
        /\ accounts'[a].owner = "system"
        /\ \A x \in AttestationAddress \ {a} :
             /\ accounts'[x].owner = accounts[x].owner
             /\ accounts'[x].data = accounts[x].data
    BY <1>10, AddressKinds DEF AttestationClosed, Rewritten, Holds
  <2> HIDE DEF f
  <2>5. CASE e = f
    <3>1. a \in Live(e)
      BY <2>2, <2>4, <2>5 DEF LiveIn
    <3>2. LiveNext(e) = Live(e) \ {a}
      BY <2>4, <2>5 DEF LiveIn, HeldIn
    <3>3. /\ IsFiniteSet(LiveNext(e))
          /\ Cardinality(LiveNext(e)) = Cardinality(Live(e)) - 1
      BY <1>2, <3>1, <3>2, FS_RemoveElement
    <3>4. events'[e] = events[e] + 1
      BY <2>2, <2>3, <2>5 DEF IInv, TypeOK
    <3> HIDE DEF Live, LiveNext
    <3> QED BY <1>2, <1>3, <2>3, <3>3, <3>4
  <2>6. CASE e # f
    <3>1. e.schema # f.schema \/ e.data # f.data
      BY <2>2, <2>6 DEF Event
    <3>2. LiveNext(e) = Live(e)
      BY <2>2, <2>4, <3>1 DEF LiveIn, HeldIn
    <3>3. events'[e] = events[e]
      BY <2>2, <2>3, <2>6 DEF IInv, TypeOK
    <3> QED BY <1>2, <2>3, <3>2, <3>3
  <2> QED BY <2>5, <2>6
<1>11. ASSUME NEW w \in Squatter, WalletAssigned(w)
       PROVE  /\ IsFiniteSet(LiveNext(e))
              /\ issued'[e] = events'[e] + Cardinality(LiveNext(e))
  <2>1. w \notin AttestationAddress
    BY AddressesDisjoint, WalletAssumption
  <2> QED BY <1>7, <1>11, <2>1 DEF WalletAssigned
<1> HIDE DEF LiveNext
<1> QED BY <1>1, <1>6, <1>7, <1>8, <1>9, <1>10, <1>11, AddressesDisjoint
     DEF Effect, CredentialCreated, SchemaCreated, StatusChanged,
         DescriptionChanged

-----------------------------------------------------------------------------
(* The inductive invariant holds at the start and through every step.      *)

LEMMA InitIInv == Init => IInv
<1> SUFFICES ASSUME Init PROVE IInv
  OBVIOUS
<1>1. \A a \in Address :
        /\ accounts[a].owner = "system" /\ accounts[a].space = 0
        /\ accounts[a].data = NoData
        /\ accounts[a].lamports \in {0, InitialLamports}
  BY DEF Init, Vacant
<1>2. accounts \in [Address -> Account]
  <2>1. \A a \in Wallet : [Vacant EXCEPT !.lamports = InitialLamports] \in Account
    BY BoundAssumption DEF Vacant, Account, AccountData
  <2>2. Vacant \in Account
    BY DEF Vacant, Account, AccountData
  <2> QED BY <2>1, <2>2 DEF Init
<1>3. BoundIn(accounts)
  BY <1>1 DEF BoundIn
<1>4. FitsIn(accounts)
  <2>1. EncodedLen(NoData) = 0
    BY DEF EncodedLen, NoData
  <2> QED BY <1>1, <2>1 DEF FitsIn
<1>5. ExemptIn(accounts) /\ ZeroedIn(accounts)
  BY <1>1, AddressKinds DEF ExemptIn, ZeroedIn
<1>6. RootedIn(accounts) /\ ContiguousIn(accounts) /\ ConformingIn(accounts)
  BY <1>1, <1>2, <1>3, SoundInv
<1>7. LedgerInv(accounts)
  BY <1>3, <1>4, <1>5, <1>6 DEF LedgerInv
<1>8. saved.accounts = accounts
  BY DEF Init, Chain
<1>9. TypeOK
  BY <1>2, BoundAssumption DEF Init, Chain, TypeOK, ChainType
<1> QED BY <1>5, <1>7, <1>8, <1>9 DEF IInv

LEMMA InitServiceInv == Init => ServiceInv
<1> SUFFICES ASSUME Init PROVE ServiceInv
  OBVIOUS
<1>1. IInv
  BY InitIInv
<1>2. /\ saved.accounts = accounts /\ saved.events = events
      /\ saved.issued = issued
  BY DEF Init, Chain
<1>3. \A x \in Address : accounts[x].owner = "system"
  BY DEF Init, Vacant
<1>4. \A x \in Address, k \in {"credential", "schema", "attestation"} :
        ~HeldIn(accounts, x, k)
  BY <1>3 DEF HeldIn
<1>5. \A e \in Event : events[e] = 0 /\ issued[e] = 0
  BY DEF Init
<1>6. TransactionInv
  <2>1. Settled
    BY <1>2 DEF Settled
  <2>2. KeptSince
    BY <1>2, <1>4 DEF KeptSince
  <2>3. ChangedByEntitled
    BY <1>2 DEF ChangedByEntitled
  <2>4. IssuedWhilePaused
    BY <1>2, <1>5 DEF IssuedWhilePaused
  <2>5. EventsGrow
    BY <1>2, <1>5 DEF EventsGrow
  <2>6. FundedSince
    BY <1>1, <1>2, References DEF FundedSince, IInv, TypeOK
  <2> QED BY <2>1, <2>2, <2>3, <2>4, <2>5, <2>6 DEF TransactionInv
<1>7. \A e : LiveIn(accounts, e) = {}
  BY <1>4, AddressKinds DEF LiveIn
<1>8. AccountedIn(Chain) /\ AccountedIn(saved)
  BY <1>2, <1>5, <1>7, FS_EmptySet DEF AccountedIn, Chain
<1> QED BY <1>1, <1>6, <1>8 DEF ServiceInv

(* The steps of the program and of its environment, as far as the proofs   *)
(* are concerned.                                                          *)
ServiceStep ==
  \/ GoodStep
  \/ \E signed \in (SUBSET Wallet) \ {{}} : Begin(signed)
  \/ Commit
  \/ Abort
  \/ Tick
  \/ UNCHANGED vars

LEMMA NextIsServiceStep ==
  ASSUME IInv, [Next]_vars
  PROVE  ServiceStep
<1>1. InOrder
  BY DEF IInv, TypeOK, InOrder, AccountsGood
<1> QED BY <1>1, CredentialStep, SchemaStep, AttestationStep, SystemStep
     DEF Next, ServiceStep

(* What is committed has the contents and the lamports of the accounts.    *)
LEMMA Committed ==
  ASSUME IInv, Commit
  PROVE  /\ AccountsGood(accounts')
         /\ \A x \in Address :
              /\ accounts'[x].owner = accounts[x].owner
              /\ accounts'[x].data = accounts[x].data
              /\ accounts'[x].lamports = accounts[x].lamports
         /\ saved' = [accounts |-> accounts', events |-> events,
                      issued |-> issued]
<1>1. accounts \in [Address -> Account] /\ LedgerInv(accounts)
  BY DEF IInv, TypeOK
<1>2. accounts' = Purge(accounts)
  BY DEF Commit
<1>3. AccountsGood(accounts')
  BY <1>1, <1>2, PurgeInv DEF AccountsGood
<1>4. saved' = [accounts |-> accounts', events |-> events, issued |-> issued]
  BY DEF Commit, Chain
<1>5. ASSUME NEW x \in Address
      PROVE  /\ accounts'[x].owner = accounts[x].owner
             /\ accounts'[x].data = accounts[x].data
             /\ accounts'[x].lamports = accounts[x].lamports
  <2>1. accounts'[x] = IF accounts[x].lamports = 0 THEN Vacant ELSE accounts[x]
    BY <1>1, <1>2 DEF Purge
  <2>2. CASE accounts[x].lamports # 0
    BY <2>1, <2>2
  <2>3. CASE accounts[x].lamports = 0
    <3>1. accounts[x].owner # "sas"
      BY <1>1, <2>3, References, RequiredLamportsType DEF LedgerInv, ExemptIn
    <3>2. accounts[x].owner = "system" /\ accounts[x].data = NoData
      BY <1>1, <3>1, References DEF LedgerInv, BoundIn
    <3> QED BY <2>1, <2>3, <3>2 DEF Vacant
  <2> QED BY <2>2, <2>3
<1> QED BY <1>3, <1>4, <1>5

(* An account of a kind belongs to the program.                            *)
LEMMA KindHeld ==
  ASSUME NEW ledger, BoundIn(ledger), NEW a \in Address,
         ledger[a].data.kind # "none", ledger[a].owner \in {"system", "sas"}
  PROVE  ledger[a].owner = "sas"
BY DEF BoundIn, NoData

LEMMA InstructionIInv ==
  ASSUME IInv, GoodStep
  PROVE  IInv'
<1>1. ixs' \in 0 .. MaxInstructions
  BY BoundAssumption DEF IInv, TypeOK, GoodStep, Instruction
<1>2. saved' = saved /\ signers' = signers /\ clock' = clock
  BY DEF GoodStep, Instruction
<1>3. TypeOK'
  BY <1>1, <1>2 DEF IInv, TypeOK, GoodStep, AccountsGood
<1>4. ZeroedIn(accounts')
  BY EffectZeroed DEF IInv, TypeOK, InOrder, AccountsGood, GoodStep
<1> QED BY <1>2, <1>3, <1>4 DEF IInv, GoodStep, AccountsGood

LEMMA CommitInv ==
  ASSUME ServiceInv, Commit
  PROVE  ServiceInv'
<1>1. /\ AccountsGood(accounts')
      /\ \A x \in Address :
           /\ accounts'[x].owner = accounts[x].owner
           /\ accounts'[x].data = accounts[x].data
           /\ accounts'[x].lamports = accounts[x].lamports
      /\ saved' = [accounts |-> accounts', events |-> events,
                   issued |-> issued]
  BY Committed DEF ServiceInv
<1>2. /\ events' = events /\ issued' = issued /\ clock' = clock
      /\ signers' = {} /\ ixs' = 0
  BY DEF Commit
<1>3. /\ events \in [Event -> Nat] /\ issued \in [Event -> Nat]
      /\ clock \in Nat
  BY DEF ServiceInv, IInv, TypeOK
<1>4. /\ saved'.accounts = accounts' /\ saved'.events = events'
      /\ saved'.issued = issued'
  BY <1>1, <1>2
<1>5. ZeroedIn(accounts')
  BY <1>1, AddressKinds DEF ZeroedIn, ServiceInv, IInv
<1>6. TypeOK'
  <2>1. saved' \in ChainType
    BY <1>1, <1>3 DEF ChainType, AccountsGood
  <2>2. ixs' \in 0 .. MaxInstructions
    BY <1>2, BoundAssumption
  <2> QED BY <1>1, <1>2, <1>3, <2>1, <2>2 DEF TypeOK, AccountsGood
<1>7. IInv'
  BY <1>1, <1>4, <1>5, <1>6 DEF IInv, AccountsGood
<1>8. TransactionInv'
  <2>1. Settled'
    BY <1>4 DEF Settled
  <2>2. KeptSince'
    BY <1>4 DEF KeptSince, Holds, HeldIn, SameCredential, SameSchema
  <2>3. ChangedByEntitled'
    BY <1>4 DEF ChangedByEntitled
  <2>4. IssuedWhilePaused' /\ EventsGrow'
    <3>1. \A e \in Event : saved'.issued[e] = issued'[e]
                           /\ saved'.events[e] = events'[e]
      BY <1>4
    <3>2. \A e \in Event : issued'[e] \in Nat /\ events'[e] \in Nat
      BY <1>2, <1>3
    <3> QED BY <3>1, <3>2 DEF IssuedWhilePaused, EventsGrow
  <2>5. FundedSince'
    <3>1. \A x \in Address : /\ accounts'[x].lamports \in Nat
                             /\ saved'.accounts[x] = accounts'[x]
      BY <1>1, <1>4, References DEF AccountsGood
    <3> QED BY <3>1 DEF FundedSince
  <2> QED BY <2>1, <2>2, <2>3, <2>4, <2>5 DEF TransactionInv
<1>9. AccountedIn(Chain)'
  <2>1. \A e \in Event : LiveIn(accounts', e) = LiveIn(accounts, e)
    BY <1>1, AddressKinds, LiveSame
  <2> QED BY <1>2, <2>1 DEF AccountedIn, Chain, ServiceInv
<1>10. AccountedIn(saved)'
  BY <1>4, <1>9 DEF AccountedIn, Chain
<1> QED BY <1>7, <1>8, <1>9, <1>10 DEF ServiceInv

LEMMA AbortInv ==
  ASSUME ServiceInv, Abort
  PROVE  ServiceInv'
<1>1. /\ accounts' = saved.accounts /\ events' = saved.events
      /\ issued' = saved.issued /\ saved' = saved
      /\ signers' = {} /\ ixs' = 0 /\ clock' = clock
  BY DEF Abort
<1>2. /\ saved.accounts \in [Address -> Account]
      /\ saved.events \in [Event -> Nat] /\ saved.issued \in [Event -> Nat]
  BY DEF ServiceInv, IInv, TypeOK, ChainType
<1>3. TypeOK'
  BY <1>1, <1>2, BoundAssumption DEF ServiceInv, IInv, TypeOK
<1>4. IInv'
  BY <1>1, <1>3 DEF ServiceInv, IInv
<1>5. TransactionInv'
  <2>1. Settled'
    BY <1>1 DEF Settled
  <2>2. KeptSince'
    BY <1>1 DEF KeptSince, Holds, HeldIn, SameCredential, SameSchema
  <2>3. ChangedByEntitled'
    BY <1>1 DEF ChangedByEntitled
  <2>4. IssuedWhilePaused' /\ EventsGrow'
    <3>1. \A e \in Event : saved.issued[e] \in Nat /\ saved.events[e] \in Nat
      BY <1>2
    <3> QED BY <1>1, <3>1 DEF IssuedWhilePaused, EventsGrow
  <2>5. FundedSince'
    <3>1. \A x \in Address : saved.accounts[x].lamports \in Nat
      BY <1>2, References
    <3> QED BY <1>1, <3>1 DEF FundedSince
  <2> QED BY <2>1, <2>2, <2>3, <2>4, <2>5 DEF TransactionInv
<1>6. AccountedIn(Chain)' /\ AccountedIn(saved)'
  BY <1>1 DEF ServiceInv, AccountedIn, Chain
<1> QED BY <1>4, <1>5, <1>6 DEF ServiceInv

LEMMA BeginInv ==
  ASSUME ServiceInv, NEW signed \in SUBSET Wallet, Begin(signed)
  PROVE  ServiceInv'
<1>1. /\ accounts' = accounts /\ events' = events /\ issued' = issued
      /\ saved' = saved /\ clock' = clock /\ ixs' = 0
      /\ signers = {} /\ signers' = signed
  BY DEF Begin
<1>2. /\ accounts = saved.accounts /\ events = saved.events
      /\ issued = saved.issued
  BY <1>1 DEF ServiceInv, TransactionInv, Settled
<1>3. TypeOK'
  BY <1>1, BoundAssumption DEF ServiceInv, IInv, TypeOK
<1>4. IInv'
  BY <1>1, <1>3 DEF ServiceInv, IInv
<1>5. TransactionInv'
  <2>1. Settled' /\ KeptSince' /\ ChangedByEntitled'
    BY <1>1, <1>2 DEF Settled, KeptSince, ChangedByEntitled, ServiceInv,
                      TransactionInv, Holds, HeldIn
  <2>2. IssuedWhilePaused' /\ EventsGrow'
    <3>1. \A e \in Event : saved.issued[e] \in Nat /\ saved.events[e] \in Nat
      BY DEF ServiceInv, IInv, TypeOK, ChainType
    <3> QED BY <1>1, <1>2, <3>1 DEF IssuedWhilePaused, EventsGrow
  <2>3. FundedSince'
    <3>1. \A x \in Address : saved.accounts[x].lamports \in Nat
      BY References DEF ServiceInv, IInv, TypeOK, ChainType
    <3> QED BY <1>1, <1>2, <3>1 DEF FundedSince
  <2> QED BY <2>1, <2>2, <2>3 DEF TransactionInv
<1>6. AccountedIn(Chain)' /\ AccountedIn(saved)'
  BY <1>1 DEF ServiceInv, AccountedIn, Chain
<1> QED BY <1>4, <1>5, <1>6 DEF ServiceInv

(* Steps that leave the accounts alone.                                    *)
LEMMA IdleInv ==
  ASSUME ServiceInv, clock' \in Nat,
         UNCHANGED <<accounts, events, issued, saved, signers, ixs>>
  PROVE  ServiceInv'
<1>1. IInv'
  BY DEF ServiceInv, IInv, TypeOK
<1>2. TransactionInv'
  BY DEF ServiceInv, TransactionInv, Settled, KeptSince, ChangedByEntitled,
         Entitled, ListedSigned, ListedBefore, Before, IssuedWhilePaused,
         EventsGrow, FundedSince, AuthoritySigned, Holds, HeldIn
<1>3. AccountedIn(Chain)' /\ AccountedIn(saved)'
  BY DEF ServiceInv, AccountedIn, Chain
<1> QED BY <1>1, <1>2, <1>3 DEF ServiceInv

LEMMA StepServiceInv ==
  ASSUME ServiceInv, ServiceStep
  PROVE  ServiceInv'
<1>1. CASE GoodStep
  <2>1. IInv'
    BY <1>1, InstructionIInv DEF ServiceInv
  <2>2. TransactionInv'
    BY <1>1, TransactionStep DEF ServiceInv
  <2>3. AccountedIn(Chain)'
    BY <1>1, AccountedStep DEF ServiceInv
  <2>4. AccountedIn(saved)'
    BY <1>1 DEF GoodStep, Instruction, ServiceInv, AccountedIn
  <2> QED BY <2>1, <2>2, <2>3, <2>4 DEF ServiceInv
<1>2. CASE \E signed \in (SUBSET Wallet) \ {{}} : Begin(signed)
  BY <1>2, BeginInv
<1>3. CASE Commit
  BY <1>3, CommitInv
<1>4. CASE Abort
  BY <1>4, AbortInv
<1>5. CASE Tick \/ UNCHANGED vars
  <2>1. clock \in Nat
    BY DEF ServiceInv, IInv, TypeOK
  <2>2. clock' \in Nat
        /\ UNCHANGED <<accounts, events, issued, saved, signers, ixs>>
    BY <1>5, <2>1 DEF Tick, vars
  <2> QED BY <2>2, IdleInv
<1> QED BY <1>1, <1>2, <1>3, <1>4, <1>5 DEF ServiceStep

(* The inductive invariant holds in every reachable state.                 *)
THEOREM InvariantHolds == Spec => []ServiceInv
<1>1. ServiceInv /\ [Next]_vars => ServiceInv'
  BY NextIsServiceStep, StepServiceInv DEF ServiceInv
<1> QED BY InitServiceInv, <1>1, PTL DEF Spec

-----------------------------------------------------------------------------
(* What the invariant says of every reachable state.                       *)

(* The ledger, the bags of events and the last commit have their types,    *)
(* whatever the constants: no resizing makes a size negative and no        *)
(* instruction leaves bytes of a kind the program does not know.           *)
THEOREM TypeCorrect == Spec => []TypeOK
<1>1. ServiceInv => TypeOK
  BY DEF ServiceInv, IInv
<1> QED BY <1>1, InvariantHolds, PTL

(* Whatever the program owns lies at the address its contents derive, or   *)
(* is a zeroed wallet (PdaBinding, for the seeds of the three create       *)
(* handlers).                                                              *)
THEOREM AccountsAtOwnAddress == Spec => []PdaBinding
<1>1. ServiceInv => PdaBinding
  BY DEF ServiceInv, IInv, LedgerInv, PdaBinding
<1> QED BY <1>1, InvariantHolds, PTL

(* No schema without its credential and no attestation without its schema, *)
(* under the same credential.                                              *)
THEOREM NoOrphans == Spec => []Lineage
<1>1. ServiceInv => Lineage
  BY DEF ServiceInv, IInv, LedgerInv, Lineage
<1> QED BY <1>1, InvariantHolds, PTL

(* change_schema_version skips no version.                                 *)
THEOREM NoVersionSkipped == Spec => []VersionsContiguous
<1>1. ServiceInv => VersionsContiguous
  BY DEF ServiceInv, IInv, LedgerInv, VersionsContiguous
<1> QED BY <1>1, InvariantHolds, PTL

(* Every attestation follows the layout now stored in its schema.          *)
THEOREM DataFollowsLayout == Spec => []AttestationsConform
<1>1. ServiceInv => AttestationsConform
  BY DEF ServiceInv, IInv, LedgerInv, AttestationsConform
<1> QED BY <1>1, InvariantHolds, PTL

(* The space the handlers compute is the length to_bytes writes, through   *)
(* any sequence of resizings.                                              *)
THEOREM SpaceIsExact == Spec => []DataFitsAccount
<1>1. ServiceInv => DataFitsAccount
  BY DEF ServiceInv, IInv, LedgerInv, DataFitsAccount
<1> QED BY <1>1, InvariantHolds, PTL

(* Every account of the program is rent exempt, for any rent.              *)
THEOREM AlwaysRentExempt == Spec => []RentExempt
<1>1. ServiceInv => RentExempt
  BY DEF ServiceInv, IInv, LedgerInv, RentExempt
<1> QED BY <1>1, InvariantHolds, PTL

(* Every attestation ever created is live or was closed by exactly one     *)
(* close event, through aborts and re-creations at the same address.       *)
THEOREM EveryCloseAnnounced == Spec => []EventAccounting
<1>1. ServiceInv => EventAccounting
  <2>1. \A e : LiveAttestations(e) = LiveIn(accounts, e)
    BY DEF LiveAttestations, LiveIn, Holds
  <2> QED BY <2>1 DEF ServiceInv, AccountedIn, Chain, EventAccounting
<1> QED BY <1>1, InvariantHolds, PTL

-----------------------------------------------------------------------------
(* What a commit may do to the state everyone else sees.  Only Commit      *)
(* changes it, and what it changes is what the invariant says of the       *)
(* running transaction.                                                    *)

LEMMA OnlyCommitSaves ==
  ASSUME ServiceStep, saved' # saved
  PROVE  Commit
BY DEF ServiceStep, GoodStep, Instruction, Begin, Abort, Tick, vars

(* What has a kind in the last commit belongs to the program there.        *)
LEMMA HeldBefore ==
  ASSUME ServiceInv, NEW x \in Address, NEW kind \in {"credential", "schema"},
         Before(x).data.kind = kind
  PROVE  /\ HeldIn(saved.accounts, x, kind)
         /\ Before(x).data \in AccountData
<1>1. saved.accounts \in [Address -> Account] /\ BoundIn(saved.accounts)
  BY DEF ServiceInv, IInv, TypeOK, ChainType, LedgerInv
<1>2. /\ saved.accounts[x].owner \in {"system", "sas"}
      /\ saved.accounts[x].data \in AccountData
  BY <1>1, References
<1>3. saved.accounts[x].owner = "sas"
  BY <1>1, <1>2, KindHeld DEF Before
<1> QED BY <1>2, <1>3 DEF Before, HeldIn

LEMMA CommitKeepsSchemas ==
  ASSUME ServiceInv, Commit
  PROVE  SchemasKept
<1>1. \A x \in Address : After(x).data = accounts[x].data
  BY Committed DEF ServiceInv, After
<1>2. ASSUME NEW s \in SchemaAddress, Before(s).data.kind = "schema"
      PROVE  \E status \in BOOLEAN, description \in Description :
               After(s).data = [Before(s).data EXCEPT !.is_paused = status,
                                               !.description = description]
  <2> DEFINE d1 == Before(s).data
             d2 == After(s).data
  <2>1. s \in Address
    BY AddressKinds
  <2>2. HeldIn(saved.accounts, s, "schema") /\ d1 \in SchemaData
    BY <1>2, <2>1, HeldBefore, KindType
  <2>3. Holds(s, "schema") /\ SameSchema(d1, d2)
    BY <1>1, <2>1, <2>2
       DEF ServiceInv, TransactionInv, KeptSince, Before
  <2>4. d2 \in SchemaData
    BY <1>1, <2>1, <2>3, References, KindType
       DEF Holds, HeldIn, ServiceInv, IInv, TypeOK
  <2> HIDE DEF d1, d2
  <2>5. /\ d2.is_paused \in BOOLEAN /\ d2.description \in Description
        /\ d2 = [d1 EXCEPT !.is_paused = d2.is_paused,
                           !.description = d2.description]
    BY <2>2, <2>3, <2>4 DEF SchemaData, SameSchema
  <2> QED BY <2>5 DEF d1, d2
<1>3. ASSUME NEW c \in CredentialKey, Before(c).data.kind = "credential"
      PROVE  \E list \in SignerList \cup {<<>>} :
               After(c).data =
                 [Before(c).data EXCEPT !.authorized_signers = list]
  <2> DEFINE d1 == Before(c).data
             d2 == After(c).data
  <2>1. c \in Address
    BY AddressKinds
  <2>2. HeldIn(saved.accounts, c, "credential") /\ d1 \in CredentialData
    BY <1>3, <2>1, HeldBefore, KindType
  <2>3. Holds(c, "credential") /\ SameCredential(d1, d2)
    BY <1>1, <2>1, <2>2
       DEF ServiceInv, TransactionInv, KeptSince, Before
  <2>4. d2 \in CredentialData
    BY <1>1, <2>1, <2>3, References, KindType
       DEF Holds, HeldIn, ServiceInv, IInv, TypeOK
  <2> HIDE DEF d1, d2
  <2>5. /\ d2.authorized_signers \in SignerList \cup {<<>>}
        /\ d2 = [d1 EXCEPT !.authorized_signers = d2.authorized_signers]
    BY <2>2, <2>3, <2>4 DEF CredentialData, SameCredential
  <2> QED BY <2>5 DEF d1, d2
<1> QED BY <1>2, <1>3 DEF SchemasKept

LEMMA CommitAuthorised ==
  ASSUME ServiceInv, Commit
  PROVE  ChangesAuthorised
<1>1. \A x \in Address : After(x).data = accounts[x].data
  BY Committed DEF ServiceInv, After
<1> SUFFICES ASSUME NEW a \in Address, After(a).data # Before(a).data
             PROVE  ChangeAuthorised(a)
  BY DEF ChangesAuthorised
<1>2. Entitled(a)
  BY <1>1 DEF ServiceInv, TransactionInv, ChangedByEntitled, Before
<1>3. \A c \in CredentialKey :
        AuthoritySigned(c) => After(c).data.authority \in signers
  BY <1>1, AddressKinds DEF AuthoritySigned
<1>4. \A c : ListedSigned(c) =>
        /\ Before(c).data.kind = "credential"
        /\ ListedBefore(c) \cap signers # {}
  BY DEF ListedSigned, Before
<1>5. CASE a \in Wallet
  BY <1>2, <1>5, AddressesDisjoint DEF ChangeAuthorised, Entitled
<1>6. CASE a \in CredentialAddress
  BY <1>2, <1>6, AddressesDisjoint DEF ChangeAuthorised, Entitled
<1>7. CASE a \in SchemaAddress
  <2>1. After(a.credential).data.authority \in signers
    BY <1>2, <1>3, <1>7 DEF Entitled, SchemaAddress
  <2> QED BY <1>7, <2>1, AddressesDisjoint DEF ChangeAuthorised
<1>8. CASE a \in AttestationAddress
  <2>1. \/ After(a.credential).data.authority \in signers
        \/ /\ Before(a.credential).data.kind = "credential"
           /\ ListedBefore(a.credential) \cap signers # {}
    BY <1>2, <1>3, <1>4, <1>8 DEF Entitled, AttestationAddress
  <2> QED BY <1>8, <2>1, AddressesDisjoint DEF ChangeAuthorised
<1> QED BY <1>5, <1>6, <1>7, <1>8 DEF Address

LEMMA CommitRespectsPause ==
  ASSUME ServiceInv, Commit
  PROVE  PauseRespected
<1> SUFFICES ASSUME NEW e \in Event,
                    Before(e.schema).data.kind = "schema",
                    Before(e.schema).data.is_paused,
                    saved'.issued[e] > saved.issued[e]
             PROVE  Before(e.schema.credential).data.authority \in signers
  BY DEF PauseRespected
<1> DEFINE s == e.schema
           c == e.schema.credential
<1>1. /\ s \in SchemaAddress /\ s \in Address
      /\ c \in CredentialKey /\ c \in Address
  BY AddressKinds DEF Event, SchemaAddress
<1>2. HeldIn(saved.accounts, s, "schema")
  BY <1>1, HeldBefore
<1>3. saved'.issued = issued
  BY Committed DEF ServiceInv
<1>4. AuthoritySigned(c)
  BY <1>2, <1>3
     DEF ServiceInv, TransactionInv, IssuedWhilePaused, Before
<1>5. saved.accounts[s].data.credential = c
  <2>1. s = OwnPda(saved.accounts[s].data)
    BY <1>1, <1>2
       DEF ServiceInv, IInv, LedgerInv, BoundIn, HeldIn, BlankCredential,
           Credential
  <2> QED BY <1>2, <2>1 DEF HeldIn, OwnPda, SchemaPda
<1>6. HeldIn(saved.accounts, c, "credential")
  BY <1>1, <1>2, <1>5 DEF ServiceInv, IInv, LedgerInv, RootedIn
<1>7. SameCredential(saved.accounts[c].data, accounts[c].data)
  BY <1>1, <1>6 DEF ServiceInv, TransactionInv, KeptSince
<1> QED BY <1>4, <1>7 DEF AuthoritySigned, SameCredential, Before

LEMMA CommitKeepsFunds ==
  ASSUME ServiceInv, Commit
  PROVE  FundsKept
<1>1. /\ \A x \in Address : After(x).lamports = accounts[x].lamports
      /\ saved'.events = events
  BY Committed DEF ServiceInv, After
<1>2. \A e \in Event : saved.events[e] \in Nat
  BY DEF ServiceInv, IInv, TypeOK, ChainType
<1>3. \A e \in Event : events[e] > saved.events[e] =>
        saved'.events # saved.events
  BY <1>1, <1>2
<1> QED BY <1>1, <1>3
     DEF FundsKept, Before, ServiceInv, TransactionInv, FundedSince

(* So every step of the service is one that the four properties allow.     *)
LEMMA StepSafe ==
  ASSUME ServiceInv, ServiceStep
  PROVE  /\ [SchemasKept]_saved
         /\ [ChangesAuthorised]_saved
         /\ [PauseRespected]_saved
         /\ [FundsKept]_saved
<1>1. CASE saved' = saved
  BY <1>1
<1>2. CASE saved' # saved
  BY <1>2, OnlyCommitSaves, CommitKeepsSchemas, CommitAuthorised,
     CommitRespectsPause, CommitKeepsFunds
<1> QED BY <1>1, <1>2

(* No schema or credential is ever removed, and only its status,           *)
(* description or signers ever change (the handlers have no other writer). *)
THEOREM SchemasAreForGood == Spec => SchemasPermanent
<1>1. ServiceInv /\ [Next]_vars => [SchemasKept]_saved
  BY NextIsServiceStep, StepSafe DEF ServiceInv
<1> QED BY <1>1, InvariantHolds, PTL DEF Spec, SchemasPermanent

(* What a transaction changes was its signers' to change, although an      *)
(* instruction trusts a list that an earlier one of the same transaction   *)
(* may have replaced.                                                      *)
THEOREM ChangesAreAuthorised == Spec => OnlyAuthorisedChanges
<1>1. ServiceInv /\ [Next]_vars => [ChangesAuthorised]_saved
  BY NextIsServiceStep, StepSafe DEF ServiceInv
<1> QED BY <1>1, InvariantHolds, PTL DEF Spec, OnlyAuthorisedChanges

(* Under a paused schema nothing is issued without its authority, in any   *)
(* order of pausing, resuming and issuing.                                 *)
THEOREM PauseHolds == Spec => PausedSchemasFrozen
<1>1. ServiceInv /\ [Next]_vars => [PauseRespected]_saved
  BY NextIsServiceStep, StepSafe DEF ServiceInv
<1> QED BY <1>1, InvariantHolds, PTL DEF Spec, PausedSchemasFrozen

(* A transaction takes lamports from its signers and from attestations it  *)
(* closes, and from no other account.                                      *)
THEOREM FundsAreSafe == Spec => FundsSafe
<1>1. ServiceInv /\ [Next]_vars => [FundsKept]_saved
  BY NextIsServiceStep, StepSafe DEF ServiceInv
<1> QED BY <1>1, InvariantHolds, PTL DEF Spec, FundsSafe

-----------------------------------------------------------------------------
(* Lamports in all.  The total is kept from the last commit on too, for    *)
(* that is what an abort goes back to.                                     *)
Conserved(ledger) ==
  TotalLamports(ledger) = InitialLamports * Cardinality(Wallet)

ConservedInv == Conserved(accounts) /\ Conserved(saved.accounts)

LEMMA StepConserves ==
  ASSUME ServiceInv, ConservedInv, [Next]_vars
  PROVE  ConservedInv'
<1>1. InOrder
  BY DEF ServiceInv, IInv, TypeOK, InOrder, AccountsGood
<1>2. accounts \in [Address -> Account]
  BY DEF ServiceInv, IInv, TypeOK
<1>3. CASE CredentialNext \/ SchemaNext \/ AttestationNext \/ SystemNext
  <2>1. Balanced
    BY <1>1, <1>3, CredentialBalanced, SchemaBalanced, AttestationBalanced,
       SystemBalanced
  <2>2. saved' = saved
    BY <1>1, <1>3, CredentialStep, SchemaStep, AttestationStep, SystemStep
       DEF GoodStep, Instruction
  <2> QED BY <2>1, <2>2 DEF ConservedInv, Conserved, Balanced
<1>4. CASE Commit
  <2>1. accounts' = Purge(accounts) /\ saved'.accounts = Purge(accounts)
    BY <1>4 DEF Commit, Chain
  <2>2. TotalLamports(Purge(accounts)) = TotalLamports(accounts)
    BY <1>2, BalanceType, PurgeTotal
  <2> QED BY <2>1, <2>2 DEF ConservedInv, Conserved
<1>5. CASE Abort
  BY <1>5 DEF Abort, ConservedInv, Conserved
<1>6. CASE \/ \E signed \in (SUBSET Wallet) \ {{}} : Begin(signed)
           \/ Tick
           \/ UNCHANGED vars
  BY <1>6 DEF Begin, Tick, vars, ConservedInv, Conserved
<1> QED BY <1>3, <1>4, <1>5, <1>6 DEF Next

(* No instruction, commit or abort makes or loses lamports, for any        *)
(* wallets, rent and transfers.                                            *)
THEOREM NothingLost == Spec => []LamportsConserved
<1>1. Init => ConservedInv
  <2>1. Init => saved.accounts = accounts
    BY DEF Init, Chain
  <2> QED BY <2>1, InitTotal DEF Init, ConservedInv, Conserved
<1>2. ServiceInv /\ ConservedInv /\ [Next]_vars => ConservedInv'
  BY StepConserves
<1>3. ConservedInv => LamportsConserved
  BY DEF ConservedInv, Conserved, LamportsConserved
<1> QED BY <1>1, <1>2, <1>3, InvariantHolds, PTL DEF Spec

=============================================================================
