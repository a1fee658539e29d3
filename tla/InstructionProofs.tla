------------------------- MODULE InstructionProofs --------------------------
(***************************************************************************)
(* What the operators of the ledger do; that every instruction of          *)
(* AttestationService leaves the ledger in order; what an instruction can  *)
(* change, on whose signature; and that it makes and loses no lamports.    *)
(***************************************************************************)
EXTENDS AttestationService, DataInduction, TLAPS

-----------------------------------------------------------------------------
(* The ledger's operators.                                                 *)

(* Ledger l2 differs from l1 in owner, space and data at one address only. *)
Updated(l1, l2, a, owner, space, data) ==
  /\ l2 \in [Address -> Account]
  /\ l2[a].owner = owner
  /\ l2[a].space = space
  /\ l2[a].data = data
  /\ \A x \in Address \ {a} :
       /\ l2[x].owner = l1[x].owner
       /\ l2[x].space = l1[x].space
       /\ l2[x].data = l1[x].data

(* Nothing but lamports differs between l1 and l2.                         *)
SameContents(l1, l2) ==
  \A x \in Address : /\ l2[x].owner = l1[x].owner
                     /\ l2[x].space = l1[x].space
                     /\ l2[x].data = l1[x].data

(* What belongs to the program loses no lamports from l1 to l2.            *)
NoLoss(l1, l2) ==
  \A x \in Address :
    l1[x].owner = "sas" => l2[x].lamports >= l1[x].lamports

(* Rent is a natural number.                                               *)
LEMMA MinimumBalanceType ==
  ASSUME NEW space \in Nat
  PROVE  MinimumBalance(space) \in Nat
BY LimitAssumption, SMT DEF MinimumBalance

(* A smaller account does not need more lamports.                          *)
LEMMA RentMonotone ==
  ASSUME NEW x \in Nat, NEW y \in Nat, x <= y
  PROVE  RequiredLamports(x) <= RequiredLamports(y)
<1>1. PICK d \in Nat : y = x + d
  <2> WITNESS y - x \in Nat
  <2> QED OBVIOUS
<1>2. (128 + y) * LamportsPerByte
        = (128 + x) * LamportsPerByte + d * LamportsPerByte
  BY <1>1, LimitAssumption, SMT
<1>3. d * LamportsPerByte \in Nat
  BY LimitAssumption, SMT
<1>4. MinimumBalance(x) <= MinimumBalance(y)
  BY <1>2, <1>3, MinimumBalanceType DEF MinimumBalance
<1> QED BY <1>4, MinimumBalanceType DEF RequiredLamports

(* Rent and top-ups are natural numbers, and a top-up closes the gap.      *)
LEMMA TopUpEnough ==
  ASSUME NEW ledger \in [Address -> Account], NEW a \in Address,
         NEW required \in Nat
  PROVE  /\ TopUp(ledger, a, required) \in Nat
         /\ ledger[a].lamports \in Nat
         /\ ledger[a].lamports + TopUp(ledger, a, required) >= required
<1>1. ledger[a].lamports \in Nat
  BY DEF Account
<1> QED BY <1>1 DEF TopUp, SaturatingSub

LEMMA RequiredLamportsType ==
  ASSUME NEW space \in Nat
  PROVE  RequiredLamports(space) \in Nat \ {0}
BY MinimumBalanceType DEF RequiredLamports

(* A plain transfer moves lamports and touches nothing else; what belongs  *)
(* to the program is never the source.                                     *)
LEMMA TransferUpdates ==
  ASSUME NEW ledger \in [Address -> Account], NEW signed,
         NEW from \in Address, NEW to \in Address, NEW amount \in Nat,
         CanPay(ledger, signed, from, amount)
  PROVE  /\ Transfer(ledger, from, to, amount) \in [Address -> Account]
         /\ SameContents(ledger, Transfer(ledger, from, to, amount))
         /\ NoLoss(ledger, Transfer(ledger, from, to, amount))
         /\ from # to => Transfer(ledger, from, to, amount)[to].lamports
                          = ledger[to].lamports + amount
<1> DEFINE mid == Debit(ledger, from, amount)
           l2 == Transfer(ledger, from, to, amount)
<1>1. ledger[from].lamports \in Nat /\ ledger[from].lamports - amount \in Nat
  BY DEF CanPay, Account
<1>2. mid \in [Address -> Account]
  BY <1>1 DEF Account, Debit
<1>3. l2 = Credit(mid, to, amount)
  BY DEF Transfer
<1>4. l2 \in [Address -> Account]
  BY <1>2, <1>3 DEF Account, Credit
<1>5. \A x \in Address :
        /\ mid[x].owner = ledger[x].owner
        /\ mid[x].space = ledger[x].space
        /\ mid[x].data = ledger[x].data
        /\ mid[x].lamports = IF x = from
             THEN ledger[x].lamports - amount
             ELSE ledger[x].lamports
  BY DEF Account, Debit
<1>6. \A x \in Address :
        /\ l2[x].owner = mid[x].owner
        /\ l2[x].space = mid[x].space
        /\ l2[x].data = mid[x].data
        /\ l2[x].lamports = IF x = to
             THEN mid[x].lamports + amount
             ELSE mid[x].lamports
  BY <1>2, <1>3 DEF Account, Credit
<1>7. \A x \in Address : ledger[x].lamports \in Nat
  BY DEF Account
<1>8. NoLoss(ledger, l2)
  BY <1>5, <1>6, <1>7 DEF NoLoss, CanPay
<1> QED BY <1>4, <1>5, <1>6, <1>7, <1>8 DEF SameContents

(* create_pda_account: the new account is the only one whose contents      *)
(* change, and it is rent exempt.                                          *)
LEMMA CreateUpdates ==
  ASSUME NEW ledger \in [Address -> Account], NEW signed,
         NEW payer \in Wallet, NEW a \in Address \ Wallet,
         NEW space \in Nat, NEW data \in AccountData,
         CanCreate(ledger, signed, payer, a, space)
  PROVE  LET l2 == Create(ledger, payer, a, space, data)
         IN  /\ Updated(ledger, l2, a, "sas", space, data)
             /\ NoLoss(ledger, l2)
             /\ l2[a].lamports >= RequiredLamports(space)
<1> DEFINE l2 == Create(ledger, payer, a, space, data)
           cost == CreationCost(ledger, a, space)
           mid == Transfer(ledger, payer, a, cost)
<1>1. /\ cost \in Nat
      /\ ledger[a].lamports \in Nat
      /\ ledger[a].lamports + cost >= RequiredLamports(space)
  BY TopUpEnough, RequiredLamportsType DEF CreationCost
<1>2. payer \in Address /\ a \in Address /\ payer # a
  BY DEF Address
<1>3. CanPay(ledger, signed, payer, cost)
  BY DEF CanCreate
<1>4. /\ mid \in [Address -> Account]
      /\ SameContents(ledger, mid)
      /\ NoLoss(ledger, mid)
      /\ mid[a].lamports = ledger[a].lamports + cost
  <2> HIDE DEF cost
  <2> QED BY <1>1, <1>2, <1>3, TransferUpdates, SMTT(30)
<1>5. l2 = [mid EXCEPT ![a] = [owner |-> "sas", lamports |-> @.lamports,
                               space |-> space, data |-> data]]
  BY DEF Create
<1>6. /\ l2 \in [Address -> Account]
      /\ l2[a] = [owner |-> "sas", lamports |-> mid[a].lamports,
                  space |-> space, data |-> data]
      /\ \A x \in Address \ {a} : l2[x] = mid[x]
  <2> HIDE DEF mid
  <2> QED BY <1>2, <1>4, <1>5 DEF Account
<1>7. Updated(ledger, l2, a, "sas", space, data)
  <2> HIDE DEF mid
  <2> QED BY <1>4, <1>6 DEF Updated, SameContents
<1>8. NoLoss(ledger, l2)
  BY <1>2, <1>4, <1>6 DEF NoLoss
<1> QED BY <1>1, <1>4, <1>6, <1>7, <1>8

(* Resizing an account that can pay for its growth: its contents change,   *)
(* the lamports are at least those it had and cover a larger size.         *)
LEMMA ResizeUpdates ==
  ASSUME NEW ledger \in [Address -> Account], NEW signed,
         NEW payer \in Wallet, NEW a \in Address,
         NEW space \in Nat, NEW data \in AccountData,
         ledger[a].owner = "sas",
         CanResize(ledger, signed, payer, a, space)
  PROVE  LET l2 == Resize(ledger, payer, a, space, data)
         IN  /\ Updated(ledger, l2, a, "sas", space, data)
             /\ NoLoss(ledger, l2)
             /\ space > ledger[a].space =>
                  l2[a].lamports >= MinimumBalance(space)
<1> DEFINE l2 == Resize(ledger, payer, a, space, data)
           cost == ResizeCost(ledger, a, space)
           mid == Transfer(ledger, payer, a, cost)
<1>1. /\ cost \in Nat
      /\ ledger[a].lamports \in Nat
      /\ space > ledger[a].space =>
           ledger[a].lamports + cost >= MinimumBalance(space)
  BY TopUpEnough, MinimumBalanceType DEF ResizeCost
<1>2. payer \in Address /\ a \in Address
  BY DEF Address
<1>3. CanPay(ledger, signed, payer, cost)
  BY DEF CanResize
<1>4. /\ mid \in [Address -> Account]
      /\ SameContents(ledger, mid)
      /\ NoLoss(ledger, mid)
      /\ payer # a => mid[a].lamports = ledger[a].lamports + cost
  <2> HIDE DEF cost
  <2> QED BY <1>1, <1>2, <1>3, TransferUpdates, SMTT(30)
<1>5. l2 = [mid EXCEPT ![a] = [owner |-> @.owner, lamports |-> @.lamports,
                               space |-> space, data |-> data]]
  BY DEF Resize
<1>6. /\ l2 \in [Address -> Account]
      /\ l2[a] = [owner |-> mid[a].owner, lamports |-> mid[a].lamports,
                  space |-> space, data |-> data]
      /\ \A x \in Address \ {a} : l2[x] = mid[x]
  <2> HIDE DEF mid
  <2> QED BY <1>2, <1>4, <1>5 DEF Account
<1>7. Updated(ledger, l2, a, "sas", space, data)
  <2> HIDE DEF mid
  <2> QED BY <1>4, <1>6 DEF Updated, SameContents
<1>8. NoLoss(ledger, l2)
  BY <1>2, <1>4, <1>6 DEF NoLoss
<1>9. space > ledger[a].space => l2[a].lamports >= MinimumBalance(space)
  <2> HIDE DEF mid, cost
  <2>1. payer = a => cost = 0
    BY <1>1, <1>3 DEF CanPay
  <2>2. ledger[a].lamports <= mid[a].lamports
    BY <1>4 DEF NoLoss
  <2>3. mid[a].lamports \in Nat /\ MinimumBalance(space) \in Nat
    BY <1>2, <1>4, MinimumBalanceType DEF Account
  <2>4. l2[a].lamports = mid[a].lamports
    BY <1>6
  <2> HIDE DEF cost
  <2> QED BY <1>1, <1>4, <2>1, <2>2, <2>3, <2>4
<1> QED BY <1>7, <1>8, <1>9

(* close: the account is vacant afterwards and nobody else's contents      *)
(* change.                                                                 *)
LEMMA CloseUpdates ==
  ASSUME NEW ledger \in [Address -> Account],
         NEW payee \in Address, NEW a \in Address, payee # a
  PROVE  LET l2 == Close(ledger, a, payee)
         IN  /\ Updated(ledger, l2, a, "system", 0, NoData)
             /\ \A x \in Address \ {a} : l2[x].lamports >= ledger[x].lamports
<1> DEFINE l2 == Close(ledger, a, payee)
           mid == Credit(ledger, payee, ledger[a].lamports)
<1>1. ledger[a].lamports \in Nat /\ ledger[payee].lamports \in Nat
  BY DEF Account
<1>2. /\ mid \in [Address -> Account]
      /\ \A x \in Address : /\ mid[x].owner = ledger[x].owner
                            /\ mid[x].space = ledger[x].space
                            /\ mid[x].data = ledger[x].data
                            /\ mid[x].lamports >= ledger[x].lamports
  BY <1>1 DEF Account, Credit
<1>3. l2 = [mid EXCEPT ![a] = Vacant]
  BY DEF Close
<1>4. Vacant \in Account
  BY DEF Vacant, Account, AccountData
<1>5. /\ l2 \in [Address -> Account]
      /\ l2[a] = Vacant
      /\ \A x \in Address \ {a} : l2[x] = mid[x]
  <2> HIDE DEF mid
  <2> QED BY <1>2, <1>3, <1>4
<1> QED BY <1>2, <1>5 DEF Updated, Vacant

-----------------------------------------------------------------------------
(* What accounts hold.                                                     *)

(* The discriminator tells what the rest of an account is.                 *)
LEMMA KindType ==
  ASSUME NEW d \in AccountData
  PROVE  /\ d.kind = "none" => d = NoData
         /\ d.kind = "credential" => d \in CredentialData
         /\ d.kind = "schema" => d \in SchemaData
         /\ d.kind = "attestation" => d \in AttestationData
         /\ d.kind \in {"none", "credential", "schema", "attestation"}
BY DEF AccountData, NoData, CredentialData, SchemaData, AttestationData

(* The inputs of the handlers are sequences.                               *)
LEMMA InputTypes ==
  /\ \A name \in Name : name \in Seq(0 .. 255)
  /\ \A list \in SignerList : list \in Seq(Wallet)
  /\ \A description \in Description : description \in Seq(0 .. 255)
  /\ \A layout \in Layout : layout \in Seq(0 .. 255)
  /\ \A data \in Data : data \in Seq(0 .. 255)
  /\ \A f \in FieldNames : f.bytes \in Nat /\ f.count \in Nat
BY NameAssumption, DomainAssumption

(* Every account has a length.                                             *)
LEMMA EncodedLenType ==
  ASSUME NEW d \in AccountData
  PROVE  EncodedLen(d) \in Nat
<1>1. CASE d.kind = "none"
  BY <1>1 DEF EncodedLen
<1>2. CASE d.kind = "credential"
  <2> DEFINE n == Len(d.name)
             k == Len(d.authorized_signers)
  <2>1. n \in Nat /\ k \in Nat
    BY <1>2, KindType, InputTypes DEF CredentialData
  <2>2. EncodedLen(d) = 1 + 32 + 4 + n + 4 + 32 * k
    BY <1>2 DEF EncodedLen
  <2> HIDE DEF n, k
  <2> QED BY <2>1, <2>2
<1>3. CASE d.kind = "schema"
  <2> DEFINE n == Len(d.name)
             m == Len(d.description)
             k == Len(d.layout)
             b == d.field_names.bytes
  <2>1. n \in Nat /\ m \in Nat /\ k \in Nat /\ b \in Nat
    BY <1>3, KindType, InputTypes DEF SchemaData
  <2>2. EncodedLen(d) = 1 + 32 + 4 + n + 4 + m + 4 + k + 4 + b + 1 + 1
    BY <1>3 DEF EncodedLen
  <2> HIDE DEF n, m, k, b
  <2> QED BY <2>1, <2>2
<1>4. CASE d.kind = "attestation"
  <2>1. Len(d.data) \in Nat
    BY <1>4, KindType, InputTypes DEF AttestationData
  <2>2. EncodedLen(d) = 1 + 32 + 32 + 32 + 4 + Len(d.data) + 32 + 8 + 32
    BY <1>4 DEF EncodedLen
  <2> QED BY <2>1, <2>2
<1> QED BY <1>1, <1>2, <1>3, <1>4, KindType

(* The three kinds of account the handlers create, and their sizes.        *)
LEMMA NewCredential ==
  ASSUME NEW authority \in Wallet, NEW name \in Name, NEW list \in SignerList
  PROVE  LET d == Credential(authority, name, list)
         IN  /\ d \in CredentialData /\ d \in AccountData
             /\ d.kind = "credential"
             /\ d.authority = authority /\ d.name = name
             /\ OwnPda(d) = CredentialPda(authority, name)
             /\ OwnPda(d) \in CredentialAddress
             /\ EncodedLen(d) = CredentialSpace(name, list)
<1> DEFINE d == Credential(authority, name, list)
<1>1. d \in CredentialData /\ d.kind = "credential"
  BY DEF Credential, CredentialData
<1>2. /\ d.authority = authority /\ d.name = name
      /\ d.authorized_signers = list
  BY DEF Credential
<1>3. OwnPda(d) = CredentialPda(authority, name)
  BY <1>1, <1>2 DEF OwnPda
<1>4. Len(name) \in Nat /\ Len(list) \in Nat
  BY InputTypes
<1>5. EncodedLen(d) = 1 + 32 + 4 + Len(name) + 4 + 32 * Len(list)
  BY <1>1, <1>2 DEF EncodedLen
<1>6. EncodedLen(d) = CredentialSpace(name, list)
  BY <1>4, <1>5 DEF CredentialSpace
<1> QED BY <1>1, <1>2, <1>3, <1>6
     DEF AccountData, CredentialAddress, CredentialPda

LEMMA NewSchemaData ==
  ASSUME NEW c \in CredentialKey, NEW name \in Name,
         NEW description \in Description, NEW layout \in Layout,
         NEW fieldNames \in FieldNames, NEW version \in 1 .. MaxVersion
  PROVE  LET d == Schema(c, name, description, layout, fieldNames, version)
         IN  /\ d \in SchemaData /\ d \in AccountData
             /\ d.kind = "schema"
             /\ d.credential = c /\ d.name = name /\ d.version = version
             /\ d.layout = layout /\ d.field_names = fieldNames
             /\ OwnPda(d) = SchemaPda(c, name, version)
             /\ OwnPda(d) \in SchemaAddress
             /\ EncodedLen(d)
                  = SchemaSpace(name, description, layout, fieldNames)
<1> DEFINE d == Schema(c, name, description, layout, fieldNames, version)
<1>1. d \in SchemaData /\ d.kind = "schema"
  BY DEF Schema, SchemaData
<1>2. /\ d.credential = c /\ d.name = name /\ d.version = version
      /\ d.layout = layout /\ d.field_names = fieldNames
      /\ d.description = description
  BY DEF Schema
<1>3. OwnPda(d) = SchemaPda(c, name, version)
  BY <1>1, <1>2 DEF OwnPda
<1>4. /\ Len(name) \in Nat /\ Len(description) \in Nat /\ Len(layout) \in Nat
      /\ fieldNames.bytes \in Nat
  BY InputTypes
<1>5. EncodedLen(d) = 1 + 32 + 4 + Len(name) + 4 + Len(description)
           + 4 + Len(layout) + 4 + fieldNames.bytes + 1 + 1
  BY <1>1, <1>2 DEF EncodedLen
<1>6. EncodedLen(d) = SchemaSpace(name, description, layout, fieldNames)
  BY <1>4, <1>5 DEF SchemaSpace
<1> QED BY <1>1, <1>2, <1>3, <1>6 DEF AccountData, SchemaAddress, SchemaPda

LEMMA NewAttestation ==
  ASSUME NEW nonce \in Nonce, NEW c \in CredentialKey, NEW s \in SchemaAddress,
         NEW data \in Data, NEW signer \in Wallet, NEW expiry \in Expiry,
         NEW token \in HoldingAddress \cup {NoToken}
  PROVE  LET d == Attestation(nonce, c, s, data, signer, expiry, token)
         IN  /\ d \in AttestationData /\ d \in AccountData
             /\ d.kind = "attestation"
             /\ d.credential = c /\ d.schema = s /\ d.data = data
             /\ OwnPda(d) = AttestationPda(c, s, nonce)
             /\ OwnPda(d) \in AttestationAddress
             /\ EncodedLen(d) = AttestationSpace(data)
<1> DEFINE d == Attestation(nonce, c, s, data, signer, expiry, token)
<1>1. d \in AttestationData /\ d.kind = "attestation"
  BY DEF Attestation, AttestationData
<1>2. /\ d.credential = c /\ d.schema = s /\ d.data = data /\ d.nonce = nonce
  BY DEF Attestation
<1>3. OwnPda(d) = AttestationPda(c, s, nonce)
  BY <1>1, <1>2 DEF OwnPda
<1>4. Len(data) \in Nat
  BY InputTypes
<1>5. EncodedLen(d) = 1 + 32 + 32 + 32 + 4 + Len(data) + 32 + 8 + 32
  BY <1>1, <1>2 DEF EncodedLen
<1>6. EncodedLen(d) = AttestationSpace(data)
  BY <1>4, <1>5 DEF AttestationSpace
<1> QED BY <1>1, <1>2, <1>3, <1>6
     DEF AccountData, AttestationAddress, AttestationPda

-----------------------------------------------------------------------------
(* What holds of the ledger between any two instructions.                  *)

LedgerInv(ledger) ==
  /\ BoundIn(ledger)
  /\ RootedIn(ledger)
  /\ ContiguousIn(ledger)
  /\ ConformingIn(ledger)
  /\ FitsIn(ledger)
  /\ ExemptIn(ledger)

(* Where the addresses that an account refers to lie.                      *)
LEMMA References ==
  ASSUME NEW ledger \in [Address -> Account], NEW a \in Address
  PROVE  LET d == ledger[a].data
         IN  /\ d \in AccountData
             /\ ledger[a].owner \in {"system", "sas"}
             /\ ledger[a].space \in Nat /\ ledger[a].lamports \in Nat
             /\ d.kind = "schema" =>
                  d.credential \in CredentialKey /\ d.credential \in Address
             /\ d.kind = "attestation" =>
                  /\ d.credential \in CredentialKey
                  /\ d.schema \in SchemaAddress /\ d.schema \in Address
<1>1. CredentialKey \subseteq Address /\ SchemaAddress \subseteq Address
  BY WalletAssumption DEF CredentialKey, Address
<1>2. /\ ledger[a].data \in AccountData
      /\ ledger[a].owner \in {"system", "sas"}
      /\ ledger[a].space \in Nat /\ ledger[a].lamports \in Nat
  BY DEF Account
<1> QED BY <1>1, <1>2, KindType DEF SchemaData, AttestationData

(* The version before a version is a schema address too.                   *)
LEMMA PreviousVersion ==
  ASSUME NEW s \in SchemaAddress, s.version > 1
  PROVE  /\ SchemaPda(s.credential, s.name, s.version - 1) \in SchemaAddress
         /\ SchemaPda(s.credential, s.name, s.version - 1) \in Address
BY LimitAssumption DEF SchemaAddress, SchemaPda, Address

(* Moving lamports the program does not own leaves the invariant alone.    *)
LEMMA KeepInv ==
  ASSUME NEW l1 \in [Address -> Account], NEW l2 \in [Address -> Account],
         LedgerInv(l1), SameContents(l1, l2), NoLoss(l1, l2)
  PROVE  LedgerInv(l2)
<1>1. \A a \in Address :
        /\ l2[a].owner = l1[a].owner
        /\ l2[a].space = l1[a].space
        /\ l2[a].data = l1[a].data
        /\ l1[a].owner = "sas" =>
             l2[a].lamports >= l1[a].lamports
  BY DEF SameContents, NoLoss
<1>2. \A a \in Address, k \in {"credential", "schema", "attestation"} :
        HeldIn(l2, a, k) <=> HeldIn(l1, a, k)
  BY <1>1 DEF HeldIn
<1>3. BoundIn(l2)
  BY <1>1 DEF LedgerInv, BoundIn
<1>4. RootedIn(l2)
  <2> SUFFICES ASSUME NEW a \in Address
               PROVE  LET d == l2[a].data
                      IN  /\ HeldIn(l2, a, "schema") =>
                               HeldIn(l2, d.credential, "credential")
                          /\ HeldIn(l2, a, "attestation") =>
                               /\ HeldIn(l2, d.schema, "schema")
                               /\ l2[d.schema].data.credential = d.credential
    BY DEF RootedIn
  <2>1. l2[a].data = l1[a].data
    BY <1>1
  <2>2. CASE HeldIn(l2, a, "schema")
    <3>1. HeldIn(l1, l1[a].data.credential, "credential")
      BY <1>2, <2>2 DEF LedgerInv, RootedIn
    <3>2. l1[a].data.credential \in Address
      BY <2>1, <2>2, References DEF HeldIn
    <3>3. ~HeldIn(l2, a, "attestation")
      BY <2>2 DEF HeldIn
    <3> QED BY <1>2, <2>1, <3>1, <3>2, <3>3
  <2>3. CASE HeldIn(l2, a, "attestation")
    <3>1. /\ HeldIn(l1, l1[a].data.schema, "schema")
          /\ l1[l1[a].data.schema].data.credential = l1[a].data.credential
      BY <1>2, <2>3 DEF LedgerInv, RootedIn
    <3>2. l1[a].data.schema \in Address
      BY <2>1, <2>3, References DEF HeldIn
    <3>3. ~HeldIn(l2, a, "schema")
      BY <2>3 DEF HeldIn
    <3> QED BY <1>1, <1>2, <2>1, <3>1, <3>2, <3>3
  <2> QED BY <2>2, <2>3
<1>5. ContiguousIn(l2)
  <2> SUFFICES ASSUME NEW s \in SchemaAddress,
                      HeldIn(l2, s, "schema"), s.version > 1
               PROVE  HeldIn(l2, SchemaPda(s.credential, s.name, s.version - 1),
                             "schema")
    BY DEF ContiguousIn
  <2>1. s \in Address
    BY DEF Address
  <2>2. HeldIn(l1, SchemaPda(s.credential, s.name, s.version - 1), "schema")
    BY <1>2, <2>1 DEF LedgerInv, ContiguousIn
  <2> QED BY <1>2, <2>2, PreviousVersion
<1>6. ConformingIn(l2)
  <2> SUFFICES ASSUME NEW a \in Address
               PROVE  LET d == l2[a].data
                      IN  /\ HeldIn(l2, a, "schema") =>
                               LayoutValid(d.layout, d.field_names)
                          /\ HeldIn(l2, a, "attestation") =>
                               ValidateData(l2[d.schema].data.layout, d.data)
                                 = "ok"
    BY DEF ConformingIn
  <2>1. l2[a].data = l1[a].data
    BY <1>1
  <2>2. HeldIn(l2, a, "schema") =>
          LayoutValid(l2[a].data.layout, l2[a].data.field_names)
    BY <1>2, <2>1 DEF LedgerInv, ConformingIn
  <2>3. ASSUME HeldIn(l2, a, "attestation")
        PROVE  ValidateData(l2[l2[a].data.schema].data.layout, l2[a].data.data)
                 = "ok"
    <3>1. l1[a].data.schema \in Address
      BY <2>1, <2>3, References DEF HeldIn
    <3>2. ValidateData(l1[l1[a].data.schema].data.layout, l1[a].data.data)
            = "ok"
      BY <1>2, <2>3 DEF LedgerInv, ConformingIn
    <3>3. l2[l1[a].data.schema].data = l1[l1[a].data.schema].data
      BY <1>1, <3>1
    <3> QED BY <2>1, <3>2, <3>3
  <2> QED BY <2>2, <2>3
<1>7. FitsIn(l2)
  BY <1>1 DEF LedgerInv, FitsIn
<1>8. ExemptIn(l2)
  <2> SUFFICES ASSUME NEW a \in Address, l2[a].owner = "sas"
               PROVE  l2[a].lamports >= RequiredLamports(l2[a].space)
    BY DEF ExemptIn
  <2>1. l1[a].lamports >= RequiredLamports(l1[a].space)
    BY <1>1 DEF LedgerInv, ExemptIn
  <2>2. RequiredLamports(l1[a].space) \in Nat
    BY References, RequiredLamportsType
  <2> QED BY <1>1, <2>1, <2>2, References
<1> QED BY <1>3, <1>4, <1>5, <1>6, <1>7, <1>8 DEF LedgerInv

(* What an account of the program may hold, next to a ledger.              *)
SoundIn(ledger, d) ==
  /\ d.kind = "schema" =>
       /\ HeldIn(ledger, d.credential, "credential")
       /\ LayoutValid(d.layout, d.field_names)
       /\ d.version > 1 =>
            HeldIn(ledger, SchemaPda(d.credential, d.name, d.version - 1),
                   "schema")
  /\ d.kind = "attestation" =>
       /\ HeldIn(ledger, d.schema, "schema")
       /\ ledger[d.schema].data.credential = d.credential
       /\ ValidateData(ledger[d.schema].data.layout, d.data) = "ok"

(* From l1 to l2 the account at x, if a credential or a schema, keeps what *)
(* others rely on.                                                         *)
CarriedAt(l1, l2, x) ==
  /\ HeldIn(l1, x, "credential") => HeldIn(l2, x, "credential")
  /\ HeldIn(l1, x, "schema") =>
       /\ HeldIn(l2, x, "schema")
       /\ l2[x].data.credential = l1[x].data.credential
       /\ l2[x].data.layout = l1[x].data.layout

(* The invariant says of each account that what it holds is sound.         *)
LEMMA InvSound ==
  ASSUME NEW ledger \in [Address -> Account], LedgerInv(ledger),
         NEW a \in Address, ledger[a].owner = "sas"
  PROVE  SoundIn(ledger, ledger[a].data)
<1> DEFINE d == ledger[a].data
<1>1. CASE d.kind = "schema"
  <2>1. /\ HeldIn(ledger, d.credential, "credential")
        /\ LayoutValid(d.layout, d.field_names)
    BY <1>1 DEF LedgerInv, RootedIn, ConformingIn, HeldIn
  <2>2. a = SchemaPda(d.credential, d.name, d.version)
    BY <1>1 DEF LedgerInv, BoundIn, OwnPda, BlankCredential, Credential
  <2>3. d \in SchemaData
    BY <1>1, References, KindType
  <2>4. a \in SchemaAddress
    BY <2>2, <2>3 DEF SchemaData, SchemaPda, SchemaAddress
  <2>5. /\ a.credential = d.credential /\ a.name = d.name
        /\ a.version = d.version
    BY <2>2 DEF SchemaPda
  <2>6. HeldIn(ledger, a, "schema")
    BY <1>1 DEF HeldIn
  <2>7. d.version > 1 =>
          HeldIn(ledger, SchemaPda(d.credential, d.name, d.version - 1),
                 "schema")
    BY <2>4, <2>5, <2>6 DEF LedgerInv, ContiguousIn
  <2> QED BY <1>1, <2>1, <2>7 DEF SoundIn
<1>2. CASE d.kind = "attestation"
  BY <1>2 DEF LedgerInv, RootedIn, ConformingIn, HeldIn, SoundIn
<1>3. CASE d.kind \notin {"schema", "attestation"}
  BY <1>3 DEF SoundIn
<1> QED BY <1>1, <1>2, <1>3

(* And conversely, once each account lies where it should.                 *)
LEMMA SoundInv ==
  ASSUME NEW ledger \in [Address -> Account], BoundIn(ledger),
         \A a \in Address :
           ledger[a].owner = "sas" => SoundIn(ledger, ledger[a].data)
  PROVE  RootedIn(ledger) /\ ContiguousIn(ledger) /\ ConformingIn(ledger)
<1>1. RootedIn(ledger)
  BY DEF RootedIn, HeldIn, SoundIn
<1>2. ContiguousIn(ledger)
  <2> SUFFICES ASSUME NEW s \in SchemaAddress,
                      HeldIn(ledger, s, "schema"), s.version > 1
               PROVE  HeldIn(ledger,
                             SchemaPda(s.credential, s.name, s.version - 1),
                             "schema")
    BY DEF ContiguousIn
  <2> DEFINE d == ledger[s].data
  <2>1. s \in Address /\ ledger[s].owner = "sas" /\ d.kind = "schema"
    BY DEF Address, HeldIn
  <2>2. s = SchemaPda(d.credential, d.name, d.version)
    BY <2>1 DEF BoundIn, OwnPda, BlankCredential, Credential
  <2>3. /\ s.credential = d.credential /\ s.name = d.name
        /\ s.version = d.version
    BY <2>2 DEF SchemaPda
  <2>4. SoundIn(ledger, d)
    BY <2>1
  <2> QED BY <2>1, <2>3, <2>4 DEF SoundIn
<1>3. ConformingIn(ledger)
  BY DEF ConformingIn, HeldIn, SoundIn
<1> QED BY <1>1, <1>2, <1>3

(* What was sound stays so while credentials and schemas are carried over. *)
LEMMA SoundCarried ==
  ASSUME NEW l1 \in [Address -> Account], NEW l2 \in [Address -> Account],
         \A x \in Address : CarriedAt(l1, l2, x),
         NEW d \in AccountData, SoundIn(l1, d)
  PROVE  SoundIn(l2, d)
<1>1. CredentialKey \subseteq Address /\ SchemaAddress \subseteq Address
  BY WalletAssumption DEF CredentialKey, Address
<1>2. CASE d.kind = "schema"
  <2>1. d \in SchemaData
    BY <1>2, KindType
  <2>2. d.credential \in Address
    BY <1>1, <2>1 DEF SchemaData
  <2>3. d.version > 1 =>
          SchemaPda(d.credential, d.name, d.version - 1) \in Address
    BY <1>1, <2>1, LimitAssumption DEF SchemaData, SchemaPda, SchemaAddress
  <2> QED BY <1>2, <2>2, <2>3 DEF SoundIn, CarriedAt
<1>3. CASE d.kind = "attestation"
  <2>1. d.schema \in Address
    BY <1>1, <1>3, KindType DEF AttestationData
  <2> QED BY <1>3, <2>1 DEF SoundIn, CarriedAt
<1>4. CASE d.kind \notin {"schema", "attestation"}
  BY <1>4 DEF SoundIn
<1> QED BY <1>2, <1>3, <1>4

(* One account changes: what has to hold of it for the invariant to stay.  *)
LEMMA UpdateInv ==
  ASSUME NEW l1 \in [Address -> Account], NEW l2 \in [Address -> Account],
         LedgerInv(l1),
         NEW a \in Address, NEW owner \in {"system", "sas"},
         NEW space \in Nat, NEW d \in AccountData,
         Updated(l1, l2, a, owner, space, d),
         \A x \in Address \ {a} :
           l1[x].owner = "sas" => l2[x].lamports >= l1[x].lamports,
         CarriedAt(l1, l2, a),
         space = EncodedLen(d),
         owner = "system" => d = NoData,
         owner = "sas" => /\ SoundIn(l1, d)
                          /\ \/ d.kind # "none" /\ a = OwnPda(d)
                             \/ a \in Squatter /\ d = BlankCredential
                          /\ l2[a].lamports >= RequiredLamports(space)
  PROVE  LedgerInv(l2)
<1>1. \A x \in Address \ {a} :
        /\ l2[x].owner = l1[x].owner
        /\ l2[x].space = l1[x].space
        /\ l2[x].data = l1[x].data
  BY DEF Updated
<1>2. l2[a].owner = owner /\ l2[a].space = space /\ l2[a].data = d
  BY DEF Updated
<1>3. owner = "system" => space = 0
  BY DEF EncodedLen, NoData
<1>4. BoundIn(l2)
  <2> SUFFICES ASSUME NEW x \in Address
               PROVE  IF l2[x].owner = "sas"
                      THEN \/ l2[x].data.kind # "none" /\ x = OwnPda(l2[x].data)
                           \/ x \in Squatter /\ l2[x].data = BlankCredential
                      ELSE l2[x].data = NoData /\ l2[x].space = 0
    BY DEF BoundIn
  <2>1. CASE x = a
    BY <1>2, <1>3, <2>1
  <2>2. CASE x # a
    BY <1>1, <2>2 DEF LedgerInv, BoundIn
  <2> QED BY <2>1, <2>2
<1>5. FitsIn(l2)
  BY <1>1, <1>2 DEF LedgerInv, FitsIn
<1>6. ExemptIn(l2)
  <2> SUFFICES ASSUME NEW x \in Address, l2[x].owner = "sas"
               PROVE  l2[x].lamports >= RequiredLamports(l2[x].space)
    BY DEF ExemptIn
  <2>1. CASE x = a
    BY <1>2, <2>1
  <2>2. CASE x # a
    <3>1. l1[x].lamports >= RequiredLamports(l1[x].space)
      BY <1>1, <2>2 DEF LedgerInv, ExemptIn
    <3>2. RequiredLamports(l1[x].space) \in Nat
      BY References, RequiredLamportsType
    <3>3. /\ l2[x].lamports >= l1[x].lamports
          /\ l1[x].lamports \in Nat /\ l2[x].lamports \in Nat
      BY <1>1, <2>2, References
    <3> QED BY <1>1, <2>2, <3>1, <3>2, <3>3
  <2> QED BY <2>1, <2>2
<1>7. \A x \in Address : CarriedAt(l1, l2, x)
  BY <1>1 DEF CarriedAt, HeldIn
<1>8. \A x \in Address : l2[x].owner = "sas" => SoundIn(l2, l2[x].data)
  <2> SUFFICES ASSUME NEW x \in Address, l2[x].owner = "sas"
               PROVE  SoundIn(l2, l2[x].data)
    OBVIOUS
  <2>1. l2[x].data \in AccountData
    BY References
  <2>2. SoundIn(l1, l2[x].data)
    <3>1. CASE x = a
      BY <1>2, <3>1
    <3>2. CASE x # a
      BY <1>1, <3>2, InvSound
    <3> QED BY <3>1, <3>2
  <2> QED BY <1>7, <2>1, <2>2, SoundCarried
<1>9. RootedIn(l2) /\ ContiguousIn(l2) /\ ConformingIn(l2)
  BY <1>4, <1>8, SoundInv
<1> QED BY <1>4, <1>5, <1>6, <1>9 DEF LedgerInv

(* A new account at a derived address nobody uses.                         *)
LEMMA CreateInv ==
  ASSUME NEW ledger \in [Address -> Account], LedgerInv(ledger), NEW signed,
         NEW payer \in Wallet, NEW d \in AccountData, d.kind # "none",
         NEW a \in Address \ Wallet, a = OwnPda(d),
         NEW space, space = EncodedLen(d),
         SoundIn(ledger, d), CanCreate(ledger, signed, payer, a, space)
  PROVE  /\ Create(ledger, payer, a, space, d) \in [Address -> Account]
         /\ LedgerInv(Create(ledger, payer, a, space, d))
<1> DEFINE l2 == Create(ledger, payer, a, space, d)
<1>1. space \in Nat
  BY EncodedLenType
<1>2. /\ Updated(ledger, l2, a, "sas", space, d)
      /\ NoLoss(ledger, l2)
      /\ l2[a].lamports >= RequiredLamports(space)
  BY <1>1, CreateUpdates
<1>3. CarriedAt(ledger, l2, a)
  BY DEF CanCreate, IsVacant, CarriedAt, HeldIn
<1>4. \A x \in Address \ {a} :
        ledger[x].owner = "sas" => l2[x].lamports >= ledger[x].lamports
  BY <1>2 DEF NoLoss
<1>5. l2 \in [Address -> Account]
  BY <1>2 DEF Updated
<1> HIDE DEF l2
<1>6. LedgerInv(l2)
  BY <1>1, <1>2, <1>3, <1>4, <1>5, UpdateInv
<1> QED BY <1>5, <1>6 DEF l2

(* An account that is rewritten, with the size of what is written, and     *)
(* keeps its address and what others rely on.                              *)
LEMMA ResizeInv ==
  ASSUME NEW ledger \in [Address -> Account], LedgerInv(ledger), NEW signed,
         NEW payer \in Wallet, NEW a \in Address, ledger[a].owner = "sas",
         NEW d \in AccountData, d.kind # "none", a = OwnPda(d),
         d.kind = ledger[a].data.kind,
         d.kind = "schema" => /\ d.credential = ledger[a].data.credential
                              /\ d.layout = ledger[a].data.layout,
         NEW space, space = EncodedLen(d),
         SoundIn(ledger, d), CanResize(ledger, signed, payer, a, space)
  PROVE  /\ Resize(ledger, payer, a, space, d) \in [Address -> Account]
         /\ LedgerInv(Resize(ledger, payer, a, space, d))
<1> DEFINE l2 == Resize(ledger, payer, a, space, d)
<1>1. space \in Nat
  BY EncodedLenType
<1>2. /\ Updated(ledger, l2, a, "sas", space, d)
      /\ NoLoss(ledger, l2)
      /\ space > ledger[a].space => l2[a].lamports >= MinimumBalance(space)
  BY <1>1, ResizeUpdates
<1>3. l2 \in [Address -> Account] /\ l2[a].owner = "sas" /\ l2[a].data = d
  BY <1>2 DEF Updated
<1>4. CarriedAt(ledger, l2, a)
  BY <1>3 DEF CarriedAt, HeldIn
<1>5. \A x \in Address \ {a} :
        ledger[x].owner = "sas" => l2[x].lamports >= ledger[x].lamports
  BY <1>2 DEF NoLoss
<1>6. l2[a].lamports >= RequiredLamports(space)
  <2> HIDE DEF l2
  <2>1. ledger[a].lamports >= RequiredLamports(ledger[a].space)
    BY DEF LedgerInv, ExemptIn
  <2>2. l2[a].lamports >= ledger[a].lamports
    BY <1>2 DEF NoLoss
  <2>3. /\ ledger[a].lamports \in Nat /\ ledger[a].space \in Nat
        /\ l2[a].lamports \in Nat
    BY <1>3, References
  <2>4. RequiredLamports(ledger[a].space) \in Nat \ {0}
    BY <2>3, RequiredLamportsType
  <2>5. l2[a].lamports >= 1
    BY <2>1, <2>2, <2>3, <2>4
  <2>6. CASE space > ledger[a].space
    BY <1>2, <2>5, <2>6 DEF RequiredLamports
  <2>7. CASE space <= ledger[a].space
    <3>1. /\ RequiredLamports(space) <= RequiredLamports(ledger[a].space)
          /\ RequiredLamports(space) \in Nat
      BY <1>1, <2>3, <2>7, RentMonotone, RequiredLamportsType
    <3> QED BY <2>1, <2>2, <2>3, <2>4, <3>1
  <2> QED BY <1>1, <2>3, <2>6, <2>7
<1> HIDE DEF l2
<1>7. LedgerInv(l2)
  BY <1>1, <1>2, <1>3, <1>4, <1>5, <1>6, UpdateInv
<1> QED BY <1>3, <1>7 DEF l2

(* An attestation that is closed; nothing refers to attestations.          *)
LEMMA CloseInv ==
  ASSUME NEW ledger \in [Address -> Account], LedgerInv(ledger),
         NEW a \in Address, HeldIn(ledger, a, "attestation"),
         NEW payee \in Address, payee # a
  PROVE  /\ Close(ledger, a, payee) \in [Address -> Account]
         /\ LedgerInv(Close(ledger, a, payee))
<1> DEFINE l2 == Close(ledger, a, payee)
<1>1. /\ Updated(ledger, l2, a, "system", 0, NoData)
      /\ \A x \in Address \ {a} : l2[x].lamports >= ledger[x].lamports
  BY CloseUpdates
<1>2. l2 \in [Address -> Account]
  BY <1>1 DEF Updated
<1>3. CarriedAt(ledger, l2, a)
  BY DEF CarriedAt, HeldIn
<1>4. NoData \in AccountData /\ EncodedLen(NoData) = 0
  BY DEF AccountData, NoData, EncodedLen
<1> HIDE DEF l2
<1>5. LedgerInv(l2)
  BY <1>1, <1>2, <1>3, <1>4, UpdateInv
<1> QED BY <1>2, <1>5 DEF l2

(* What a transaction leaves without lamports is vacant already.           *)
LEMMA PurgeInv ==
  ASSUME NEW ledger \in [Address -> Account], LedgerInv(ledger)
  PROVE  /\ Purge(ledger) \in [Address -> Account]
         /\ LedgerInv(Purge(ledger))
<1> DEFINE l2 == Purge(ledger)
<1>1. Vacant \in Account
  BY DEF Vacant, Account, AccountData
<1>2. \A x \in Address :
        l2[x] = IF ledger[x].lamports = 0 THEN Vacant ELSE ledger[x]
  BY DEF Purge
<1>3. l2 \in [Address -> Account]
  BY <1>1 DEF Purge
<1>4. ASSUME NEW x \in Address
      PROVE  l2[x] = ledger[x] \/ /\ ledger[x].owner = "system"
                                  /\ ledger[x].space = 0
                                  /\ ledger[x].data = NoData
                                  /\ l2[x] = Vacant
  <2>1. CASE ledger[x].lamports # 0
    BY <1>2, <2>1
  <2>2. CASE ledger[x].lamports = 0
    <3>1. ledger[x].owner # "sas"
      BY <2>2, References, RequiredLamportsType DEF LedgerInv, ExemptIn
    <3> QED BY <1>2, <2>2, <3>1, References DEF LedgerInv, BoundIn
  <2> QED BY <2>1, <2>2
<1>5. SameContents(ledger, l2)
  BY <1>4 DEF SameContents, Vacant
<1>6. NoLoss(ledger, l2)
  <2> SUFFICES ASSUME NEW x \in Address, ledger[x].owner = "sas"
               PROVE  l2[x].lamports >= ledger[x].lamports
    BY DEF NoLoss
  <2>1. l2[x] = ledger[x]
    BY <1>4
  <2> QED BY <2>1, References
<1> HIDE DEF l2
<1>7. LedgerInv(l2)
  BY <1>3, <1>5, <1>6, KeepInv
<1> QED BY <1>3, <1>7 DEF l2

-----------------------------------------------------------------------------
(* The instructions.                                                       *)

(* Derived addresses are addresses and no wallets.                         *)
LEMMA AddressKinds ==
  /\ CredentialAddress \subseteq Address \ Wallet
  /\ SchemaAddress \subseteq Address \ Wallet
  /\ AttestationAddress \subseteq Address \ Wallet
  /\ Wallet \subseteq Address
  /\ CredentialKey \subseteq Address
BY AddressAssumption, WalletAssumption DEF Address, CredentialKey

(* An action keeps the accounts in order.                                  *)
AccountsGood(ledger) == ledger \in [Address -> Account] /\ LedgerInv(ledger)

LEMMA CreateCredentialGood ==
  ASSUME AccountsGood(accounts), NEW authority \in Wallet, NEW name \in Name,
         NEW list \in SignerList, NEW payer \in Wallet,
         CreateCredential(authority, name, list, payer)
  PROVE  AccountsGood(accounts')
<1> DEFINE c == CredentialPda(authority, name)
           space == CredentialSpace(name, list)
           d == Credential(authority, name, list)
<1>1. /\ CanCreate(accounts, signers, payer, c, space)
      /\ accounts' = Create(accounts, payer, c, space, d)
  BY DEF CreateCredential
<1>2. /\ d \in AccountData /\ d.kind = "credential" /\ OwnPda(d) = c
      /\ c \in Address \ Wallet /\ EncodedLen(d) = space
  BY NewCredential, AddressKinds
<1>3. SoundIn(accounts, d)
  BY <1>2 DEF SoundIn
<1> HIDE DEF c, space, d
<1> QED BY <1>1, <1>2, <1>3, CreateInv DEF AccountsGood

LEMMA NewSchemaGood ==
  ASSUME AccountsGood(accounts), NEW c \in CredentialKey, NEW name \in Name,
         NEW description \in Description, NEW layout \in Layout,
         NEW fieldNames \in FieldNames, NEW version \in 1 .. MaxVersion,
         NEW payer \in Wallet,
         Holds(c, "credential"),
         version > 1 =>
           HeldIn(accounts, SchemaPda(c, name, version - 1), "schema"),
         NewSchema(c, name, description, layout, fieldNames, version, payer)
  PROVE  AccountsGood(accounts')
<1> DEFINE s == SchemaPda(c, name, version)
           space == SchemaSpace(name, description, layout, fieldNames)
           d == Schema(c, name, description, layout, fieldNames, version)
<1>1. /\ CanCreate(accounts, signers, payer, s, space)
      /\ accounts' = Create(accounts, payer, s, space, d)
      /\ LayoutValid(layout, fieldNames)
  BY DEF NewSchema
<1>2. /\ d \in AccountData /\ d.kind = "schema" /\ OwnPda(d) = s
      /\ s \in Address \ Wallet /\ EncodedLen(d) = space
      /\ d.credential = c /\ d.name = name /\ d.version = version
      /\ d.layout = layout /\ d.field_names = fieldNames
  BY NewSchemaData, AddressKinds
<1>3. SoundIn(accounts, d)
  <2> HIDE DEF d
  <2> QED BY <1>1, <1>2 DEF SoundIn, Holds
<1> HIDE DEF s, space, d
<1> QED BY <1>1, <1>2, <1>3, CreateInv DEF AccountsGood

LEMMA CreateSchemaGood ==
  ASSUME AccountsGood(accounts), NEW c \in CredentialKey, NEW name \in Name,
         NEW description \in Description, NEW layout \in Layout,
         NEW fieldNames \in FieldNames, NEW payer \in Wallet,
         CreateSchema(c, name, description, layout, fieldNames, payer)
  PROVE  AccountsGood(accounts')
<1>1. Holds(c, "credential") /\ FirstVersion = 1
  BY DEF CreateSchema, AuthoritySigned, FirstVersion
<1>2. FirstVersion \in 1 .. MaxVersion
  BY LimitAssumption DEF FirstVersion
<1>3. NewSchema(c, name, description, layout, fieldNames, FirstVersion, payer)
  BY DEF CreateSchema
<1> QED BY <1>1, <1>2, <1>3, NewSchemaGood

LEMMA ChangeSchemaVersionGood ==
  ASSUME AccountsGood(accounts), NEW c \in CredentialKey,
         NEW s \in SchemaAddress, NEW layout \in Layout,
         NEW fieldNames \in FieldNames, NEW payer \in Wallet,
         ChangeSchemaVersion(c, s, layout, fieldNames, payer)
  PROVE  AccountsGood(accounts')
<1> DEFINE d == accounts[s].data
<1>1. /\ Holds(c, "credential") /\ Holds(s, "schema") /\ d.credential = c
      /\ d.version < MaxVersion
      /\ NewSchema(c, d.name, d.description, layout, fieldNames,
                   d.version + 1, payer)
  BY DEF ChangeSchemaVersion, AuthoritySigned, SchemaOf
<1>2. s \in Address
  BY AddressKinds
<1>3. d \in SchemaData
  BY <1>1, <1>2, References, KindType DEF AccountsGood, Holds, HeldIn
<1>4. /\ d.name \in Name /\ d.description \in Description
      /\ d.version \in 1 .. MaxVersion
  BY <1>3 DEF SchemaData
<1>5. d.version + 1 \in 1 .. MaxVersion /\ (d.version + 1) - 1 = d.version
  BY <1>1, <1>4, LimitAssumption
<1>6. s = SchemaPda(c, d.name, d.version)
  BY <1>1, <1>2
     DEF AccountsGood, LedgerInv, BoundIn, Holds, HeldIn, OwnPda,
         BlankCredential, Credential
<1>7. HeldIn(accounts, SchemaPda(c, d.name, (d.version + 1) - 1), "schema")
  BY <1>1, <1>5, <1>6 DEF Holds
<1> HIDE DEF d
<1> QED BY <1>1, <1>4, <1>5, <1>7, NewSchemaGood

(* What creating and closing an attestation does to the accounts and to    *)
(* the counts, whether it has a token or not.                              *)
LEMMA AttestationCreatedGood ==
  ASSUME AccountsGood(accounts), NEW signer \in Wallet,
         NEW c \in CredentialKey, NEW s \in SchemaAddress, NEW nonce \in Nonce,
         NEW data \in Data, NEW expiry \in Expiry, NEW payer \in Wallet,
         NEW token \in HoldingAddress \cup {NoToken},
         CanCreateAttestation(signer, c, s, nonce, data, expiry, payer)
  PROVE  AccountsGood(AttestationCreated(signer, c, s, nonce, data, expiry,
                                         payer, token))
<1> DEFINE a == AttestationPda(c, s, nonce)
           space == AttestationSpace(data)
           d == Attestation(nonce, c, s, data, signer, expiry, token)
<1>1. /\ CanCreate(accounts, signers, payer, a, space)
      /\ AttestationCreated(signer, c, s, nonce, data, expiry, payer, token)
           = Create(accounts, payer, a, space, d)
      /\ SchemaOf(s, c) /\ Conforms(data, s)
  BY DEF CanCreateAttestation, AttestationCreated
<1>2. /\ d \in AccountData /\ d.kind = "attestation" /\ OwnPda(d) = a
      /\ a \in Address \ Wallet /\ EncodedLen(d) = space
      /\ d.credential = c /\ d.schema = s /\ d.data = data
  BY NewAttestation, AddressKinds
<1>3. SoundIn(accounts, d)
  <2> HIDE DEF d
  <2> QED BY <1>1, <1>2 DEF SoundIn, SchemaOf, Holds, Conforms
<1> HIDE DEF a, space, d
<1> QED BY <1>1, <1>2, <1>3, CreateInv DEF AccountsGood

LEMMA IssueType ==
  ASSUME events \in [Event -> Nat], issued \in [Event -> Nat],
         NEW s \in SchemaAddress, NEW data \in Data, Issue(s, data)
  PROVE  events' \in [Event -> Nat] /\ issued' \in [Event -> Nat]
<1>1. [schema |-> s, data |-> data] \in Event
  BY DEF Event
<1> QED BY <1>1 DEF Issue

LEMMA ClosedGood ==
  ASSUME AccountsGood(accounts), NEW a \in AttestationAddress,
         NEW payee \in Address, NEW signer, NEW c, NEW token,
         CanCloseAttestation(signer, c, a, payee, token)
  PROVE  AccountsGood(Close(accounts, a, payee))
<1>1. HeldIn(accounts, a, "attestation") /\ payee # a
  BY DEF CanCloseAttestation, Holds
<1>2. a \in Address
  BY AddressKinds
<1> QED BY <1>1, <1>2, CloseInv DEF AccountsGood

LEMMA EmitCloseType ==
  ASSUME AccountsGood(accounts), NEW a \in AttestationAddress,
         events \in [Event -> Nat], issued \in [Event -> Nat],
         HeldIn(accounts, a, "attestation"), EmitClose(a)
  PROVE  events' \in [Event -> Nat] /\ issued' \in [Event -> Nat]
<1> DEFINE d == accounts[a].data
<1>1. d \in AttestationData
  BY AddressKinds, References, KindType DEF HeldIn, AccountsGood
<1>2. [schema |-> d.schema, data |-> d.data] \in Event
  BY <1>1 DEF AttestationData, Event
<1>3. /\ events' = [events EXCEPT ![[schema |-> d.schema, data |-> d.data]]
                                     = @ + 1]
      /\ issued' = issued
  BY DEF EmitClose
<1> QED BY <1>2, <1>3

(* A credential of a wallet's lies at its own address: only the zeroed     *)
(* ones do not, and nobody signs for the null key.                         *)
LEMMA OwnCredential ==
  ASSUME AccountsGood(accounts), signers \subseteq Wallet,
         NEW c \in CredentialKey, AuthoritySigned(c)
  PROVE  /\ c \in Address /\ accounts[c].owner = "sas"
         /\ accounts[c].data \in CredentialData
         /\ accounts[c].data.kind = "credential"
         /\ c = OwnPda(accounts[c].data)
<1>1. /\ c \in Address /\ accounts[c].owner = "sas"
      /\ accounts[c].data.kind = "credential"
      /\ accounts[c].data.authority \in Wallet
  BY AddressKinds DEF AuthoritySigned, Holds, HeldIn
<1>2. accounts[c].data # BlankCredential
  BY <1>1, WalletAssumption DEF BlankCredential, Credential
<1>3. c = OwnPda(accounts[c].data)
  BY <1>1, <1>2 DEF AccountsGood, LedgerInv, BoundIn
<1>4. accounts[c].data \in CredentialData
  BY <1>1, References, KindType DEF AccountsGood
<1> QED BY <1>1, <1>3, <1>4

(* A credential with another list of signers lies where it did, and its    *)
(* new size is the length of what is written.                              *)
LEMMA CredentialResized ==
  ASSUME AccountsGood(accounts), signers \subseteq Wallet,
         NEW c \in CredentialKey, NEW list \in SignerList, AuthoritySigned(c)
  PROVE  LET old == accounts[c].data
             d == [old EXCEPT !.authorized_signers = list]
             space == ResizedSpace(accounts[c].space,
                        32 * Len(old.authorized_signers), 32 * Len(list))
         IN  /\ c \in Address /\ accounts[c].owner = "sas"
             /\ d \in AccountData /\ d.kind = "credential"
             /\ d.kind = old.kind
             /\ c = OwnPda(d)
             /\ space \in Nat /\ space = EncodedLen(d)
<1> DEFINE old == accounts[c].data
           d == [old EXCEPT !.authorized_signers = list]
           space == ResizedSpace(accounts[c].space,
                      32 * Len(old.authorized_signers), 32 * Len(list))
<1>1. /\ c \in Address /\ accounts[c].owner = "sas"
      /\ old \in CredentialData /\ old.kind = "credential"
      /\ c = OwnPda(old)
  BY OwnCredential
<1>2. accounts[c].space = EncodedLen(old)
  BY <1>1 DEF AccountsGood, LedgerInv, FitsIn
<1> HIDE DEF old
<1>3. /\ d \in CredentialData /\ d.kind = "credential"
      /\ d.authority = old.authority /\ d.name = old.name
      /\ d.authorized_signers = list
  BY <1>1 DEF CredentialData
<1>4. space = EncodedLen(d)
  <2> DEFINE n == Len(old.name)
             k == Len(old.authorized_signers)
             m == Len(list)
  <2>1. n \in Nat /\ k \in Nat /\ m \in Nat
    BY <1>1, InputTypes DEF CredentialData
  <2>2. EncodedLen(old) = 1 + 32 + 4 + n + 4 + 32 * k
    BY <1>1 DEF EncodedLen
  <2>3. EncodedLen(d) = 1 + 32 + 4 + n + 4 + 32 * m
    BY <1>3 DEF EncodedLen
  <2>4. space = EncodedLen(old) + 32 * m - 32 * k
    BY <1>2 DEF ResizedSpace
  <2> HIDE DEF n, k, m, space, d
  <2> QED BY <2>1, <2>2, <2>3, <2>4
<1> HIDE DEF d, space
<1>5. c = OwnPda(d)
  BY <1>1, <1>3 DEF OwnPda
<1>6. d \in AccountData
  BY <1>3 DEF AccountData
<1>7. space \in Nat
  BY <1>4, <1>6, EncodedLenType
<1> QED BY <1>1, <1>3, <1>4, <1>5, <1>6, <1>7 DEF old, d, space

LEMMA ChangeAuthorizedSignersGood ==
  ASSUME AccountsGood(accounts), signers \subseteq Wallet,
         NEW c \in CredentialKey, NEW list \in SignerList, NEW payer \in Wallet,
         ChangeAuthorizedSigners(c, list, payer)
  PROVE  AccountsGood(accounts')
<1> DEFINE d == [accounts[c].data EXCEPT !.authorized_signers = list]
           space == ResizedSpace(accounts[c].space,
                      32 * Len(accounts[c].data.authorized_signers),
                      32 * Len(list))
<1>1. /\ AuthoritySigned(c)
      /\ CanResize(accounts, signers, payer, c, space)
      /\ accounts' = Resize(accounts, payer, c, space, d)
  BY DEF ChangeAuthorizedSigners
<1>2. /\ c \in Address /\ accounts[c].owner = "sas"
      /\ d \in AccountData /\ d.kind = "credential"
      /\ d.kind = accounts[c].data.kind
      /\ c = OwnPda(d) /\ space = EncodedLen(d)
  BY <1>1, CredentialResized
<1> HIDE DEF d, space
<1>3. SoundIn(accounts, d)
  BY <1>2 DEF SoundIn
<1> QED BY <1>1, <1>2, <1>3, ResizeInv DEF AccountsGood

(* A schema with another description or status is still the one it was.    *)
LEMMA SchemaEdited ==
  ASSUME AccountsGood(accounts), NEW c \in CredentialKey,
         NEW s \in SchemaAddress, SchemaOf(s, c),
         NEW d \in SchemaData,
         d.credential = accounts[s].data.credential,
         d.name = accounts[s].data.name,
         d.version = accounts[s].data.version,
         d.layout = accounts[s].data.layout,
         d.field_names = accounts[s].data.field_names
  PROVE  /\ s = OwnPda(d)
         /\ d \in AccountData /\ d.kind = "schema"
         /\ SoundIn(accounts, d)
<1>1. /\ s \in Address /\ accounts[s].owner = "sas"
      /\ accounts[s].data.kind = "schema"
  BY AddressKinds DEF SchemaOf, Holds, HeldIn
<1>2. d.kind = "schema" /\ d \in AccountData
  BY DEF SchemaData, AccountData
<1>3. s = OwnPda(accounts[s].data)
  BY <1>1 DEF AccountsGood, LedgerInv, BoundIn, BlankCredential, Credential
<1>4. s = OwnPda(d)
  BY <1>1, <1>2, <1>3 DEF OwnPda
<1>5. SoundIn(accounts, accounts[s].data)
  BY <1>1, InvSound DEF AccountsGood
<1>6. SoundIn(accounts, d)
  BY <1>1, <1>2, <1>5 DEF SoundIn
<1> QED BY <1>2, <1>4, <1>6

(* A schema with another description: its size follows the description.    *)
LEMMA SchemaResized ==
  ASSUME AccountsGood(accounts), NEW c \in CredentialKey,
         NEW s \in SchemaAddress, NEW description \in Description,
         SchemaOf(s, c)
  PROVE  LET old == accounts[s].data
             d == [old EXCEPT !.description = description]
             space == ResizedSpace(accounts[s].space,
                        Len(old.description), Len(description))
         IN  /\ s \in Address /\ accounts[s].owner = "sas"
             /\ d \in AccountData /\ d.kind = "schema" /\ d.kind = old.kind
             /\ s = OwnPda(d) /\ SoundIn(accounts, d)
             /\ d.credential = old.credential /\ d.layout = old.layout
             /\ space \in Nat /\ space = EncodedLen(d)
<1> DEFINE old == accounts[s].data
           d == [old EXCEPT !.description = description]
           space == ResizedSpace(accounts[s].space,
                      Len(old.description), Len(description))
<1>1. /\ s \in Address /\ accounts[s].owner = "sas" /\ old.kind = "schema"
  BY AddressKinds DEF SchemaOf, Holds, HeldIn
<1>2. old \in SchemaData
  BY <1>1, References, KindType DEF AccountsGood
<1>3. accounts[s].space = EncodedLen(old)
  BY <1>1 DEF AccountsGood, LedgerInv, FitsIn
<1>4. /\ d \in SchemaData
      /\ d.credential = old.credential /\ d.name = old.name
      /\ d.version = old.version /\ d.layout = old.layout
      /\ d.field_names = old.field_names
      /\ d.description = description
  <2> HIDE DEF old
  <2> QED BY <1>2 DEF SchemaData
<1>5. s = OwnPda(d) /\ d \in AccountData /\ d.kind = "schema"
      /\ SoundIn(accounts, d)
  <2> HIDE DEF d
  <2> QED BY <1>4, SchemaEdited
<1>6. space = EncodedLen(d)
  <2> DEFINE n == Len(old.name)
             m == Len(old.description)
             k == Len(old.layout)
             b == old.field_names.bytes
             t == Len(description)
  <2>1. n \in Nat /\ m \in Nat /\ k \in Nat /\ b \in Nat /\ t \in Nat
    <3>1. /\ old.name \in Name /\ old.description \in Description
          /\ old.layout \in Layout /\ old.field_names \in FieldNames
      BY <1>2 DEF SchemaData
    <3> HIDE DEF old
    <3>2. Len(old.name) \in Nat /\ Len(old.description) \in Nat
      BY <3>1, InputTypes
    <3>3. Len(old.layout) \in Nat /\ Len(description) \in Nat
      BY <3>1, InputTypes
    <3>4. old.field_names.bytes \in Nat
      BY <3>1, InputTypes
    <3> QED BY <3>2, <3>3, <3>4
  <2>2. EncodedLen(old) = 1 + 32 + 4 + n + 4 + m + 4 + k + 4 + b + 1 + 1
    BY <1>1 DEF EncodedLen
  <2>3. EncodedLen(d) = 1 + 32 + 4 + n + 4 + t + 4 + k + 4 + b + 1 + 1
    BY <1>4, <1>5 DEF EncodedLen
  <2>4. space = EncodedLen(old) + t - m
    BY <1>3 DEF ResizedSpace
  <2> HIDE DEF n, m, k, b, t, space, d, old
  <2> QED BY <2>1, <2>2, <2>3, <2>4
<1> HIDE DEF d, space, old
<1>7. space \in Nat
  BY <1>5, <1>6, EncodedLenType
<1> QED BY <1>1, <1>4, <1>5, <1>6, <1>7 DEF old, d, space

LEMMA ChangeSchemaDescriptionGood ==
  ASSUME AccountsGood(accounts), NEW c \in CredentialKey,
         NEW s \in SchemaAddress, NEW description \in Description,
         NEW payer \in Wallet,
         ChangeSchemaDescription(c, s, description, payer)
  PROVE  AccountsGood(accounts')
<1> DEFINE d == [accounts[s].data EXCEPT !.description = description]
           space == ResizedSpace(accounts[s].space,
                      Len(accounts[s].data.description), Len(description))
<1>1. /\ SchemaOf(s, c)
      /\ CanResize(accounts, signers, payer, s, space)
      /\ accounts' = Resize(accounts, payer, s, space, d)
  BY DEF ChangeSchemaDescription
<1>2. /\ s \in Address /\ accounts[s].owner = "sas"
      /\ d \in AccountData /\ d.kind = "schema"
      /\ d.kind = accounts[s].data.kind
      /\ s = OwnPda(d) /\ SoundIn(accounts, d)
      /\ d.credential = accounts[s].data.credential
      /\ d.layout = accounts[s].data.layout
      /\ space = EncodedLen(d)
  BY <1>1, SchemaResized
<1> HIDE DEF d, space
<1> QED BY <1>1, <1>2, ResizeInv DEF AccountsGood

LEMMA ChangeSchemaStatusGood ==
  ASSUME AccountsGood(accounts), NEW c \in CredentialKey,
         NEW s \in SchemaAddress, NEW paused \in BOOLEAN,
         ChangeSchemaStatus(c, s, paused)
  PROVE  AccountsGood(accounts')
<1> DEFINE old == accounts[s].data
           d == [old EXCEPT !.is_paused = paused]
           l2 == [accounts EXCEPT ![s] = [accounts[s] EXCEPT !.data = d]]
<1>1. SchemaOf(s, c)
  BY DEF ChangeSchemaStatus
<1>2. accounts' = [accounts EXCEPT ![s].data.is_paused = paused]
  BY DEF ChangeSchemaStatus
<1>3. /\ s \in Address /\ accounts[s].owner = "sas" /\ old.kind = "schema"
  BY <1>1, AddressKinds DEF SchemaOf, Holds, HeldIn
<1>4. old \in SchemaData
  BY <1>3, References, KindType DEF AccountsGood
<1>5. /\ d \in SchemaData
      /\ d.credential = old.credential /\ d.name = old.name
      /\ d.version = old.version /\ d.layout = old.layout
      /\ d.field_names = old.field_names
      /\ d.description = old.description
  <2> HIDE DEF old
  <2> QED BY <1>4 DEF SchemaData
<1>6. s = OwnPda(d) /\ d \in AccountData /\ d.kind = "schema"
      /\ SoundIn(accounts, d)
  <2> HIDE DEF d
  <2> QED BY <1>1, <1>5, SchemaEdited
<1>7. EncodedLen(d) = EncodedLen(old)
  <2>1. EncodedLen(old) = 1 + 32 + 4 + Len(old.name) + 4 + Len(old.description)
           + 4 + Len(old.layout) + 4 + old.field_names.bytes + 1 + 1
    BY <1>3 DEF EncodedLen
  <2>2. EncodedLen(d) = 1 + 32 + 4 + Len(d.name) + 4 + Len(d.description)
           + 4 + Len(d.layout) + 4 + d.field_names.bytes + 1 + 1
    BY <1>6 DEF EncodedLen
  <2> HIDE DEF d, old
  <2> QED BY <1>5, <2>1, <2>2
<1>8. accounts' = l2
  BY <1>2
<1> HIDE DEF d
<1>9. /\ l2 \in [Address -> Account]
      /\ Updated(accounts, l2, s, "sas", accounts[s].space, d)
      /\ l2[s].lamports = accounts[s].lamports
      /\ \A x \in Address \ {s} : l2[x] = accounts[x]
  BY <1>3, <1>6 DEF AccountsGood, Account, Updated
<1>10. /\ accounts[s].space \in Nat
       /\ accounts[s].space = EncodedLen(d)
       /\ l2[s].lamports >= RequiredLamports(accounts[s].space)
  BY <1>3, <1>7, <1>9, References
     DEF AccountsGood, LedgerInv, FitsIn, ExemptIn
<1>11. CarriedAt(accounts, l2, s)
  BY <1>3, <1>5, <1>6, <1>9 DEF CarriedAt, HeldIn, Updated
<1>12. \A x \in Address \ {s} : l2[x].lamports >= accounts[x].lamports
  BY <1>9, References DEF AccountsGood
<1> HIDE DEF l2
<1>13. LedgerInv(l2)
  BY <1>3, <1>6, <1>9, <1>10, <1>11, <1>12, UpdateInv DEF AccountsGood
<1> QED BY <1>8, <1>9, <1>13 DEF AccountsGood

LEMMA SendLamportsGood ==
  ASSUME AccountsGood(accounts), NEW from \in Wallet, NEW to \in Address,
         NEW amount \in Nat, SendLamports(from, to, amount)
  PROVE  AccountsGood(accounts')
<1>1. /\ CanPay(accounts, signers, from, amount)
      /\ accounts' = Transfer(accounts, from, to, amount)
  BY DEF SendLamports
<1>2. from \in Address
  BY AddressKinds
<1> QED BY <1>1, <1>2, TransferUpdates, KeepInv DEF AccountsGood

LEMMA AssignWalletGood ==
  ASSUME AccountsGood(accounts), NEW w \in Squatter, AssignWallet(w)
  PROVE  AccountsGood(accounts')
<1> DEFINE d == BlankCredential
           space == EncodedLen(d)
           l2 == [accounts EXCEPT
                   ![w] = [owner |-> "sas", lamports |-> @.lamports,
                           space |-> space, data |-> d]]
<1>1. /\ IsVacant(accounts, w)
      /\ accounts[w].lamports >= RequiredLamports(space)
      /\ accounts' = l2
  BY DEF AssignWallet
<1>2. w \in Address
  BY WalletAssumption, AddressKinds
<1>3. d \in CredentialData /\ d \in AccountData /\ d.kind = "credential"
  BY DEF BlankCredential, Credential, CredentialData, AccountData
<1>4. space \in Nat /\ SoundIn(accounts, d)
  BY <1>3, EncodedLenType DEF SoundIn
<1> HIDE DEF d, space
<1>5. /\ l2 \in [Address -> Account]
      /\ Updated(accounts, l2, w, "sas", space, d)
      /\ l2[w].lamports = accounts[w].lamports
      /\ \A x \in Address \ {w} : l2[x] = accounts[x]
  BY <1>2, <1>3, <1>4 DEF AccountsGood, Account, Updated
<1>6. CarriedAt(accounts, l2, w)
  BY <1>1 DEF IsVacant, CarriedAt, HeldIn
<1>7. \A x \in Address \ {w} : l2[x].lamports >= accounts[x].lamports
  BY <1>5, References DEF AccountsGood
<1> HIDE DEF l2
<1>8. d = BlankCredential /\ space = EncodedLen(d)
  BY DEF d, space
<1>9. LedgerInv(l2)
  BY <1>1, <1>2, <1>3, <1>4, <1>5, <1>6, <1>7, <1>8, UpdateInv
     DEF AccountsGood
<1> QED BY <1>1, <1>5, <1>9 DEF AccountsGood

-----------------------------------------------------------------------------
(* What one instruction can do: which account it changes and on whose      *)
(* signature, and from whom lamports are taken.  The theorems about        *)
(* transactions and about the registry rest on these effects instead of on *)
(* the handlers.                                                           *)

(* Only the account at a differs in owner or data, and holds these.        *)
Rewritten(a, owner, data) ==
  /\ accounts'[a].owner = owner
  /\ accounts'[a].data = data
  /\ \A x \in Address \ {a} : /\ accounts'[x].owner = accounts[x].owner
                              /\ accounts'[x].data = accounts[x].data

(* At most lamports have moved.                                            *)
LamportsOnly ==
  /\ \A x \in Address : /\ accounts'[x].owner = accounts[x].owner
                        /\ accounts'[x].data = accounts[x].data
  /\ UNCHANGED <<events, issued>>

CredentialCreated(c, list) ==
  /\ accounts[c].owner = "system"
  /\ c.authority \in signers
  /\ Rewritten(c, "sas", Credential(c.authority, c.name, list))
  /\ UNCHANGED <<events, issued>>

SignersChanged(c, list) ==
  /\ AuthoritySigned(c)
  /\ Rewritten(c, "sas", [accounts[c].data EXCEPT !.authorized_signers = list])
  /\ UNCHANGED <<events, issued>>

SchemaCreated(s, description, layout, fieldNames) ==
  /\ accounts[s].owner = "system"
  /\ AuthoritySigned(s.credential)
  /\ LayoutValid(layout, fieldNames)
  /\ s.version > 1 =>
       LET before == SchemaPda(s.credential, s.name, s.version - 1)
       IN  /\ before \in SchemaAddress
           /\ Holds(before, "schema")
           /\ accounts[before].data.description = description
  /\ Rewritten(s, "sas", Schema(s.credential, s.name, description, layout,
                                fieldNames, s.version))
  /\ UNCHANGED <<events, issued>>

StatusChanged(s, paused) ==
  /\ Holds(s, "schema")
  /\ AuthoritySigned(s.credential)
  /\ Rewritten(s, "sas", [accounts[s].data EXCEPT !.is_paused = paused])
  /\ UNCHANGED <<events, issued>>

DescriptionChanged(s, description) ==
  /\ Holds(s, "schema")
  /\ AuthoritySigned(s.credential)
  /\ Rewritten(s, "sas", [accounts[s].data EXCEPT !.description = description])
  /\ UNCHANGED <<events, issued>>

AttestationIssued(a, signer, data, expiry, token) ==
  /\ accounts[a].owner = "system"
  /\ SignerAuthorized(signer, a.credential)
  /\ SchemaOf(a.schema, a.credential)
  /\ Active(a.schema)
  /\ NotExpired(expiry)
  /\ Conforms(data, a.schema)
  /\ Rewritten(a, "sas", Attestation(a.nonce, a.credential, a.schema, data,
                                     signer, expiry, token))
  /\ Issue(a.schema, data)

AttestationClosed(a, signer) ==
  /\ Holds(a, "attestation")
  /\ SignerAuthorized(signer, a.credential)
  /\ Rewritten(a, "system", NoData)
  /\ EmitClose(a)

WalletAssigned(w) ==
  /\ accounts[w].owner = "system"
  /\ w \in signers
  /\ Rewritten(w, "sas", BlankCredential)
  /\ UNCHANGED <<events, issued>>

Effect ==
  \/ LamportsOnly
  \/ \E c \in CredentialAddress, list \in SignerList :
       CredentialCreated(c, list)
  \/ \E c \in CredentialKey, list \in SignerList : SignersChanged(c, list)
  \/ \E s \in SchemaAddress, description \in Description, layout \in Layout,
        fieldNames \in FieldNames :
       SchemaCreated(s, description, layout, fieldNames)
  \/ \E s \in SchemaAddress, paused \in BOOLEAN : StatusChanged(s, paused)
  \/ \E s \in SchemaAddress, description \in Description :
       DescriptionChanged(s, description)
  \/ \E a \in AttestationAddress, signer \in Wallet, data \in Data,
        expiry \in Expiry, token \in HoldingAddress \cup {NoToken} :
       AttestationIssued(a, signer, data, expiry, token)
  \/ \E a \in AttestationAddress, signer \in Wallet :
       AttestationClosed(a, signer)
  \/ \E w \in Squatter : WalletAssigned(w)

(* Between two ledgers, only signers lose lamports.                        *)
PaidBy(l1, l2, signed) ==
  \A x \in Address : l2[x].lamports < l1[x].lamports => x \in signed

(* Lamports come from wallets that signed, or from the attestation that an *)
(* event says was closed.                                                  *)
Funded ==
  \A x \in Address :
    accounts'[x].lamports < accounts[x].lamports =>
      \/ x \in signers
      \/ x \in AttestationAddress /\ \E e \in Event : events'[e] > events[e]

(* What every instruction does, as long as the ledger is in order.         *)
InOrder ==
  /\ AccountsGood(accounts)
  /\ events \in [Event -> Nat] /\ issued \in [Event -> Nat]
  /\ signers \subseteq Wallet

GoodStep ==
  /\ AccountsGood(accounts')
  /\ events' \in [Event -> Nat] /\ issued' \in [Event -> Nat]
  /\ Instruction
  /\ Effect
  /\ Funded

-----------------------------------------------------------------------------
(* Lamports.                                                               *)

(* A payment lowers the balance of the payer alone.                        *)
LEMMA DebitUpdates ==
  ASSUME NEW ledger \in [Address -> Account], NEW signed,
         NEW from \in Address, NEW amount \in Nat,
         CanPay(ledger, signed, from, amount)
  PROVE  /\ Debit(ledger, from, amount) \in [Address -> Account]
         /\ SameContents(ledger, Debit(ledger, from, amount))
         /\ NoLoss(ledger, Debit(ledger, from, amount))
         /\ PaidBy(ledger, Debit(ledger, from, amount), signed)
<1> DEFINE l2 == Debit(ledger, from, amount)
<1>1. ledger[from].lamports \in Nat /\ ledger[from].lamports - amount \in Nat
  BY DEF CanPay, Account
<1>2. l2 \in [Address -> Account]
  BY <1>1 DEF Account, Debit
<1>3. \A x \in Address :
        /\ l2[x].owner = ledger[x].owner
        /\ l2[x].space = ledger[x].space
        /\ l2[x].data = ledger[x].data
        /\ l2[x].lamports = IF x = from THEN ledger[x].lamports - amount
                            ELSE ledger[x].lamports
  BY DEF Account, Debit
<1>4. \A x \in Address : ledger[x].lamports \in Nat
  BY DEF Account
<1> HIDE DEF l2
<1>5. NoLoss(ledger, l2)
  BY <1>3, <1>4 DEF NoLoss, CanPay
<1>6. PaidBy(ledger, l2, signed)
  BY <1>3, <1>4 DEF PaidBy, CanPay
<1> QED BY <1>2, <1>3, <1>5, <1>6 DEF SameContents, l2

(* A payment received lowers no balance.                                   *)
LEMMA CreditUpdates ==
  ASSUME NEW ledger \in [Address -> Account],
         NEW to \in Address, NEW amount \in Nat
  PROVE  /\ Credit(ledger, to, amount) \in [Address -> Account]
         /\ SameContents(ledger, Credit(ledger, to, amount))
         /\ \A x \in Address :
              Credit(ledger, to, amount)[x].lamports >= ledger[x].lamports
<1> DEFINE l2 == Credit(ledger, to, amount)
<1>1. \A x \in Address : ledger[x].lamports \in Nat
  BY DEF Account
<1>2. l2 \in [Address -> Account]
  BY DEF Account, Credit
<1>3. \A x \in Address :
        /\ l2[x].owner = ledger[x].owner
        /\ l2[x].space = ledger[x].space
        /\ l2[x].data = ledger[x].data
        /\ l2[x].lamports = IF x = to THEN ledger[x].lamports + amount
                            ELSE ledger[x].lamports
  BY DEF Account, Credit
<1> HIDE DEF l2
<1>4. \A x \in Address : l2[x].lamports >= ledger[x].lamports
  BY <1>1, <1>3
<1> QED BY <1>2, <1>3, <1>4 DEF SameContents, l2

(* So only a signer pays for a transfer, a creation or a growth.           *)
LEMMA TransferPaid ==
  ASSUME NEW ledger \in [Address -> Account], NEW signed,
         NEW from \in Address, NEW to \in Address, NEW amount \in Nat,
         CanPay(ledger, signed, from, amount)
  PROVE  PaidBy(ledger, Transfer(ledger, from, to, amount), signed)
<1> DEFINE mid == Debit(ledger, from, amount)
           l2 == Credit(mid, to, amount)
<1>1. mid \in [Address -> Account] /\ PaidBy(ledger, mid, signed)
  BY DebitUpdates
<1> HIDE DEF mid
<1>2. /\ l2 \in [Address -> Account]
      /\ \A x \in Address : l2[x].lamports >= mid[x].lamports
  BY <1>1, CreditUpdates
<1> HIDE DEF l2
<1>3. \A x \in Address : /\ ledger[x].lamports \in Nat
                         /\ mid[x].lamports \in Nat
                         /\ l2[x].lamports \in Nat
  BY <1>1, <1>2, References
<1>4. PaidBy(ledger, l2, signed)
  BY <1>1, <1>2, <1>3 DEF PaidBy
<1> QED BY <1>4 DEF Transfer, l2, mid

LEMMA CreatePaid ==
  ASSUME NEW ledger \in [Address -> Account], NEW signed,
         NEW payer \in Wallet, NEW a \in Address \ Wallet,
         NEW space \in Nat, NEW data,
         CanCreate(ledger, signed, payer, a, space)
  PROVE  PaidBy(ledger, Create(ledger, payer, a, space, data), signed)
<1> DEFINE cost == CreationCost(ledger, a, space)
           mid == Transfer(ledger, payer, a, cost)
<1>1. cost \in Nat
  BY TopUpEnough, RequiredLamportsType DEF CreationCost
<1>2. payer \in Address /\ a \in Address
  BY DEF Address
<1>3. CanPay(ledger, signed, payer, cost)
  BY DEF CanCreate
<1>4. mid \in [Address -> Account] /\ PaidBy(ledger, mid, signed)
  <2> HIDE DEF cost
  <2> QED BY <1>1, <1>2, <1>3, TransferUpdates, TransferPaid
<1>5. Create(ledger, payer, a, space, data)
        = [mid EXCEPT ![a] = [owner |-> "sas", lamports |-> @.lamports,
                              space |-> space, data |-> data]]
  BY DEF Create
<1> HIDE DEF mid
<1>6. \A x \in Address : Create(ledger, payer, a, space, data)[x].lamports
                           = mid[x].lamports
  BY <1>4, <1>5
<1> QED BY <1>4, <1>6 DEF PaidBy

LEMMA ResizePaid ==
  ASSUME NEW ledger \in [Address -> Account], NEW signed,
         NEW payer \in Wallet, NEW a \in Address,
         NEW space \in Nat, NEW data,
         CanResize(ledger, signed, payer, a, space)
  PROVE  PaidBy(ledger, Resize(ledger, payer, a, space, data), signed)
<1> DEFINE cost == ResizeCost(ledger, a, space)
           mid == Transfer(ledger, payer, a, cost)
<1>1. cost \in Nat
  BY TopUpEnough, MinimumBalanceType DEF ResizeCost
<1>2. payer \in Address /\ a \in Address
  BY DEF Address
<1>3. CanPay(ledger, signed, payer, cost)
  BY DEF CanResize
<1>4. mid \in [Address -> Account] /\ PaidBy(ledger, mid, signed)
  <2> HIDE DEF cost
  <2> QED BY <1>1, <1>2, <1>3, TransferUpdates, TransferPaid
<1>5. Resize(ledger, payer, a, space, data)
        = [mid EXCEPT ![a] = [owner |-> @.owner, lamports |-> @.lamports,
                              space |-> space, data |-> data]]
  BY DEF Resize
<1> HIDE DEF mid
<1>6. \A x \in Address : Resize(ledger, payer, a, space, data)[x].lamports
                           = mid[x].lamports
  BY <1>4, <1>5
<1> QED BY <1>4, <1>6 DEF PaidBy

-----------------------------------------------------------------------------
(* The effects of the handlers.                                            *)

(* Creation and resizing rewrite the one account, at the cost of a signer. *)
LEMMA CreateEffect ==
  ASSUME AccountsGood(accounts), NEW payer \in Wallet,
         NEW a \in Address \ Wallet, NEW space \in Nat, NEW d \in AccountData,
         CanCreate(accounts, signers, payer, a, space),
         accounts' = Create(accounts, payer, a, space, d)
  PROVE  /\ accounts[a].owner = "system"
         /\ Rewritten(a, "sas", d)
         /\ Funded
<1>1. Updated(accounts, accounts', a, "sas", space, d)
  BY CreateUpdates DEF AccountsGood
<1>2. PaidBy(accounts, accounts', signers)
  BY CreatePaid DEF AccountsGood
<1>3. accounts[a].owner = "system"
  BY DEF CanCreate, IsVacant
<1> QED BY <1>1, <1>2, <1>3 DEF Updated, Rewritten, PaidBy, Funded

LEMMA ResizeEffect ==
  ASSUME AccountsGood(accounts), NEW payer \in Wallet, NEW a \in Address,
         accounts[a].owner = "sas", NEW space \in Nat, NEW d \in AccountData,
         CanResize(accounts, signers, payer, a, space),
         accounts' = Resize(accounts, payer, a, space, d)
  PROVE  Rewritten(a, "sas", d) /\ Funded
<1>1. Updated(accounts, accounts', a, "sas", space, d)
  BY ResizeUpdates DEF AccountsGood
<1>2. PaidBy(accounts, accounts', signers)
  BY ResizePaid DEF AccountsGood
<1> QED BY <1>1, <1>2 DEF Updated, Rewritten, PaidBy, Funded

LEMMA CreateCredentialEffect ==
  ASSUME AccountsGood(accounts), NEW authority \in Wallet, NEW name \in Name,
         NEW list \in SignerList, NEW payer \in Wallet,
         CreateCredential(authority, name, list, payer)
  PROVE  /\ \E c \in CredentialAddress : CredentialCreated(c, list)
         /\ Funded
<1> DEFINE c == CredentialPda(authority, name)
           space == CredentialSpace(name, list)
           d == Credential(authority, name, list)
<1>1. /\ CanCreate(accounts, signers, payer, c, space)
      /\ accounts' = Create(accounts, payer, c, space, d)
      /\ authority \in signers
      /\ UNCHANGED <<events, issued>>
  BY DEF CreateCredential
<1>2. /\ c \in CredentialAddress /\ c \in Address \ Wallet
      /\ c.authority = authority /\ c.name = name
      /\ d \in AccountData /\ EncodedLen(d) = space
  BY NewCredential, AddressKinds DEF CredentialPda
<1>3. space \in Nat
  BY <1>2, EncodedLenType
<1> HIDE DEF c, space, d
<1>4. accounts[c].owner = "system" /\ Rewritten(c, "sas", d) /\ Funded
  BY <1>1, <1>2, <1>3, CreateEffect
<1>5. d = Credential(c.authority, c.name, list)
  BY <1>2 DEF d
<1>6. CredentialCreated(c, list)
  BY <1>1, <1>2, <1>4, <1>5 DEF CredentialCreated
<1> QED BY <1>2, <1>4, <1>6

LEMMA ChangeAuthorizedSignersEffect ==
  ASSUME AccountsGood(accounts), signers \subseteq Wallet,
         NEW c \in CredentialKey, NEW list \in SignerList, NEW payer \in Wallet,
         ChangeAuthorizedSigners(c, list, payer)
  PROVE  SignersChanged(c, list) /\ Funded
<1> DEFINE d == [accounts[c].data EXCEPT !.authorized_signers = list]
           space == ResizedSpace(accounts[c].space,
                      32 * Len(accounts[c].data.authorized_signers),
                      32 * Len(list))
<1>1. /\ AuthoritySigned(c)
      /\ CanResize(accounts, signers, payer, c, space)
      /\ accounts' = Resize(accounts, payer, c, space, d)
      /\ UNCHANGED <<events, issued>>
  BY DEF ChangeAuthorizedSigners
<1>2. /\ c \in Address /\ accounts[c].owner = "sas"
      /\ d \in AccountData /\ space \in Nat
  BY <1>1, CredentialResized
<1> HIDE DEF space, d
<1>3. Rewritten(c, "sas", d) /\ Funded
  BY <1>1, <1>2, ResizeEffect
<1> QED BY <1>1, <1>3 DEF SignersChanged, d

LEMMA NewSchemaEffect ==
  ASSUME AccountsGood(accounts), NEW c \in CredentialKey, NEW name \in Name,
         NEW description \in Description, NEW layout \in Layout,
         NEW fieldNames \in FieldNames, NEW version \in 1 .. MaxVersion,
         NEW payer \in Wallet,
         AuthoritySigned(c),
         version > 1 =>
           LET before == SchemaPda(c, name, version - 1)
           IN  /\ before \in SchemaAddress
               /\ Holds(before, "schema")
               /\ accounts[before].data.description = description,
         NewSchema(c, name, description, layout, fieldNames, version, payer)
  PROVE  /\ \E s \in SchemaAddress :
              SchemaCreated(s, description, layout, fieldNames)
         /\ Funded
<1> DEFINE s == SchemaPda(c, name, version)
           space == SchemaSpace(name, description, layout, fieldNames)
           d == Schema(c, name, description, layout, fieldNames, version)
<1>1. /\ CanCreate(accounts, signers, payer, s, space)
      /\ accounts' = Create(accounts, payer, s, space, d)
      /\ LayoutValid(layout, fieldNames)
      /\ UNCHANGED <<events, issued>>
  BY DEF NewSchema
<1>2. /\ s \in SchemaAddress /\ s \in Address \ Wallet
      /\ d \in AccountData /\ EncodedLen(d) = space
  BY NewSchemaData, AddressKinds
<1>3. s.credential = c /\ s.name = name /\ s.version = version
  BY DEF SchemaPda
<1>4. space \in Nat
  BY <1>2, EncodedLenType
<1> HIDE DEF s, space, d
<1>5. accounts[s].owner = "system" /\ Rewritten(s, "sas", d) /\ Funded
  BY <1>1, <1>2, <1>4, CreateEffect
<1>6. d = Schema(s.credential, s.name, description, layout, fieldNames,
                 s.version)
  BY <1>3 DEF d
<1>7. SchemaCreated(s, description, layout, fieldNames)
  BY <1>1, <1>3, <1>5, <1>6 DEF SchemaCreated
<1> QED BY <1>2, <1>5, <1>7

LEMMA CreateSchemaEffect ==
  ASSUME AccountsGood(accounts), NEW c \in CredentialKey, NEW name \in Name,
         NEW description \in Description, NEW layout \in Layout,
         NEW fieldNames \in FieldNames, NEW payer \in Wallet,
         CreateSchema(c, name, description, layout, fieldNames, payer)
  PROVE  /\ \E s \in SchemaAddress :
              SchemaCreated(s, description, layout, fieldNames)
         /\ Funded
<1>1. FirstVersion \in 1 .. MaxVersion /\ ~(FirstVersion > 1)
  BY LimitAssumption DEF FirstVersion
<1>2. /\ AuthoritySigned(c)
      /\ NewSchema(c, name, description, layout, fieldNames, FirstVersion,
                   payer)
  BY DEF CreateSchema
<1> QED BY <1>1, <1>2, NewSchemaEffect

LEMMA ChangeSchemaVersionEffect ==
  ASSUME AccountsGood(accounts), NEW c \in CredentialKey,
         NEW s \in SchemaAddress, NEW layout \in Layout,
         NEW fieldNames \in FieldNames, NEW payer \in Wallet,
         ChangeSchemaVersion(c, s, layout, fieldNames, payer)
  PROVE  /\ \E new \in SchemaAddress, description \in Description :
              SchemaCreated(new, description, layout, fieldNames)
         /\ Funded
<1> DEFINE d == accounts[s].data
<1>1. /\ AuthoritySigned(c) /\ Holds(s, "schema") /\ d.credential = c
      /\ NewSchema(c, d.name, d.description, layout, fieldNames,
                   d.version + 1, payer)
      /\ d.version < MaxVersion
  BY DEF ChangeSchemaVersion, SchemaOf
<1>2. s \in Address
  BY AddressKinds
<1>3. d \in SchemaData
  BY <1>1, <1>2, References, KindType DEF AccountsGood, Holds, HeldIn
<1>4. /\ d.name \in Name /\ d.description \in Description
      /\ d.version \in 1 .. MaxVersion
  BY <1>3 DEF SchemaData
<1>5. d.version + 1 \in 1 .. MaxVersion /\ (d.version + 1) - 1 = d.version
  BY <1>1, <1>4, LimitAssumption
<1>6. s = SchemaPda(c, d.name, d.version)
  BY <1>1, <1>2
     DEF AccountsGood, LedgerInv, BoundIn, Holds, HeldIn, OwnPda,
         BlankCredential, Credential
<1>7. LET before == SchemaPda(c, d.name, (d.version + 1) - 1)
      IN  /\ before \in SchemaAddress
          /\ Holds(before, "schema")
          /\ accounts[before].data.description = d.description
  BY <1>1, <1>5, <1>6
<1> HIDE DEF d
<1> QED BY <1>1, <1>4, <1>5, <1>7, NewSchemaEffect

(* A schema under c says so in its address.                                *)
LEMMA SchemaUnder ==
  ASSUME AccountsGood(accounts), NEW s \in SchemaAddress, NEW c, SchemaOf(s, c)
  PROVE  /\ s \in Address /\ accounts[s].owner = "sas"
         /\ accounts[s].data \in SchemaData
         /\ s = SchemaPda(c, accounts[s].data.name, accounts[s].data.version)
         /\ s.credential = c
<1>1. /\ s \in Address /\ accounts[s].owner = "sas"
      /\ accounts[s].data.kind = "schema" /\ accounts[s].data.credential = c
  BY AddressKinds DEF SchemaOf, Holds, HeldIn
<1>2. accounts[s].data \in SchemaData
  BY <1>1, References, KindType DEF AccountsGood
<1>3. s = SchemaPda(c, accounts[s].data.name, accounts[s].data.version)
  BY <1>1 DEF AccountsGood, LedgerInv, BoundIn, OwnPda, BlankCredential,
              Credential
<1>4. s.credential = c
  BY <1>3 DEF SchemaPda
<1> QED BY <1>1, <1>2, <1>3, <1>4

LEMMA ChangeSchemaStatusEffect ==
  ASSUME AccountsGood(accounts), NEW c \in CredentialKey,
         NEW s \in SchemaAddress, NEW paused \in BOOLEAN,
         ChangeSchemaStatus(c, s, paused)
  PROVE  StatusChanged(s, paused) /\ Funded
<1> DEFINE d == [accounts[s].data EXCEPT !.is_paused = paused]
<1>1. /\ AuthoritySigned(c) /\ SchemaOf(s, c)
      /\ accounts' = [accounts EXCEPT ![s].data.is_paused = paused]
      /\ UNCHANGED <<events, issued>>
  BY DEF ChangeSchemaStatus
<1>2. s \in Address /\ accounts[s].owner = "sas" /\ s.credential = c
  BY <1>1, SchemaUnder
<1>3. accounts' = [accounts EXCEPT ![s] = [accounts[s] EXCEPT !.data = d]]
  BY <1>1
<1> HIDE DEF d
<1>4. /\ accounts'[s].owner = "sas" /\ accounts'[s].data = d
      /\ accounts'[s].lamports = accounts[s].lamports
      /\ \A x \in Address \ {s} : accounts'[x] = accounts[x]
  BY <1>2, <1>3 DEF AccountsGood, Account
<1>5. Rewritten(s, "sas", d)
  BY <1>4 DEF Rewritten
<1>6. Funded
  BY <1>4, References DEF Funded, AccountsGood
<1> QED BY <1>1, <1>2, <1>5, <1>6 DEF StatusChanged, SchemaOf, d

LEMMA ChangeSchemaDescriptionEffect ==
  ASSUME AccountsGood(accounts), NEW c \in CredentialKey,
         NEW s \in SchemaAddress, NEW description \in Description,
         NEW payer \in Wallet,
         ChangeSchemaDescription(c, s, description, payer)
  PROVE  DescriptionChanged(s, description) /\ Funded
<1> DEFINE d == [accounts[s].data EXCEPT !.description = description]
           space == ResizedSpace(accounts[s].space,
                      Len(accounts[s].data.description), Len(description))
<1>1. /\ AuthoritySigned(c) /\ SchemaOf(s, c)
      /\ CanResize(accounts, signers, payer, s, space)
      /\ accounts' = Resize(accounts, payer, s, space, d)
      /\ UNCHANGED <<events, issued>>
  BY DEF ChangeSchemaDescription
<1>2. /\ s \in Address /\ accounts[s].owner = "sas"
      /\ d \in AccountData /\ space \in Nat
  BY <1>1, SchemaResized
<1>3. s.credential = c
  BY <1>1, SchemaUnder
<1> HIDE DEF d, space
<1>4. Rewritten(s, "sas", d) /\ Funded
  BY <1>1, <1>2, ResizeEffect
<1> QED BY <1>1, <1>3, <1>4 DEF DescriptionChanged, SchemaOf, d

(* An attestation is issued, whatever else has then been paid for.         *)
LEMMA AttestationIssuedEffect ==
  ASSUME AccountsGood(accounts), NEW signer \in Wallet,
         NEW c \in CredentialKey, NEW s \in SchemaAddress, NEW nonce \in Nonce,
         NEW data \in Data, NEW expiry \in Expiry, NEW payer \in Wallet,
         NEW token \in HoldingAddress \cup {NoToken},
         CanCreateAttestation(signer, c, s, nonce, data, expiry, payer),
         LET created == AttestationCreated(signer, c, s, nonce, data, expiry,
                                           payer, token)
         IN  SameContents(created, accounts')
               /\ PaidBy(created, accounts', signers),
         accounts' \in [Address -> Account],
         Issue(s, data)
  PROVE  /\ \E a \in AttestationAddress :
              /\ a = AttestationPda(c, s, nonce)
              /\ AttestationIssued(a, signer, data, expiry, token)
         /\ Funded
<1> DEFINE a == AttestationPda(c, s, nonce)
           space == AttestationSpace(data)
           d == Attestation(nonce, c, s, data, signer, expiry, token)
           l2 == Create(accounts, payer, a, space, d)
<1>1. /\ CanCreate(accounts, signers, payer, a, space)
      /\ SignerAuthorized(signer, c) /\ SchemaOf(s, c) /\ Active(s)
      /\ NotExpired(expiry) /\ Conforms(data, s)
  BY DEF CanCreateAttestation
<1>2. SameContents(l2, accounts') /\ PaidBy(l2, accounts', signers)
  BY DEF AttestationCreated
<1>3. /\ a \in AttestationAddress /\ a \in Address \ Wallet
      /\ d \in AccountData /\ EncodedLen(d) = space
  BY NewAttestation, AddressKinds
<1>4. a.credential = c /\ a.schema = s /\ a.nonce = nonce
  BY DEF AttestationPda
<1>5. space \in Nat
  BY <1>3, EncodedLenType
<1> HIDE DEF a, space, d
<1>6. /\ Updated(accounts, l2, a, "sas", space, d)
      /\ PaidBy(accounts, l2, signers)
  BY <1>1, <1>3, <1>5, CreateUpdates, CreatePaid DEF AccountsGood
<1> HIDE DEF l2
<1>7. Rewritten(a, "sas", d)
  BY <1>2, <1>3, <1>6 DEF Updated, SameContents, Rewritten
<1>8. Funded
  <2>1. \A x \in Address : /\ accounts[x].lamports \in Nat
                           /\ l2[x].lamports \in Nat
                           /\ accounts'[x].lamports \in Nat
    BY <1>6, References DEF AccountsGood, Updated
  <2>2. PaidBy(accounts, accounts', signers)
    BY <1>2, <1>6, <2>1 DEF PaidBy
  <2> QED BY <2>2 DEF PaidBy, Funded
<1>9. accounts[a].owner = "system"
  BY <1>1 DEF CanCreate, IsVacant
<1>10. AttestationIssued(a, signer, data, expiry, token)
  BY <1>1, <1>4, <1>7, <1>9 DEF AttestationIssued, d
<1> QED BY <1>3, <1>8, <1>10 DEF a

(* An attestation under c says so in its address.                          *)
LEMMA AttestationUnder ==
  ASSUME AccountsGood(accounts), NEW a \in AttestationAddress,
         Holds(a, "attestation")
  PROVE  /\ a \in Address /\ accounts[a].owner = "sas"
         /\ accounts[a].data \in AttestationData
         /\ a = AttestationPda(accounts[a].data.credential,
                               accounts[a].data.schema, accounts[a].data.nonce)
         /\ a.credential = accounts[a].data.credential
         /\ a.schema = accounts[a].data.schema
         /\ a.nonce = accounts[a].data.nonce
<1>1. /\ a \in Address /\ accounts[a].owner = "sas"
      /\ accounts[a].data.kind = "attestation"
  BY AddressKinds DEF Holds, HeldIn
<1>2. accounts[a].data \in AttestationData
  BY <1>1, References, KindType DEF AccountsGood
<1>3. a = AttestationPda(accounts[a].data.credential,
                         accounts[a].data.schema, accounts[a].data.nonce)
  BY <1>1 DEF AccountsGood, LedgerInv, BoundIn, OwnPda, BlankCredential,
              Credential
<1> QED BY <1>1, <1>2, <1>3 DEF AttestationPda

(* An attestation is closed, whatever the payee has been paid before.      *)
LEMMA AttestationClosedEffect ==
  ASSUME AccountsGood(accounts), NEW a \in AttestationAddress,
         NEW payee \in Address, NEW signer \in Wallet, NEW c, NEW token,
         events \in [Event -> Nat],
         CanCloseAttestation(signer, c, a, payee, token),
         NEW mid \in [Address -> Account], SameContents(accounts, mid),
         \A x \in Address : mid[x].lamports >= accounts[x].lamports,
         accounts' = Close(mid, a, payee),
         EmitClose(a)
  PROVE  AttestationClosed(a, signer) /\ Funded
<1>1. /\ SignerAuthorized(signer, c) /\ Holds(a, "attestation")
      /\ accounts[a].data.credential = c /\ payee # a
  BY DEF CanCloseAttestation
<1>2. /\ a \in Address /\ a.credential = c
      /\ accounts[a].data \in AttestationData
  BY <1>1, AttestationUnder
<1>3. /\ Updated(mid, accounts', a, "system", 0, NoData)
      /\ \A x \in Address \ {a} : accounts'[x].lamports >= mid[x].lamports
  BY <1>1, <1>2, CloseUpdates
<1>4. Rewritten(a, "system", NoData)
  BY <1>3 DEF Updated, SameContents, Rewritten
<1>5. \E e \in Event : events'[e] > events[e]
  <2> DEFINE e == [schema |-> accounts[a].data.schema,
                   data |-> accounts[a].data.data]
  <2>1. e \in Event
    BY <1>2 DEF AttestationData, Event
  <2>2. events' = [events EXCEPT ![e] = @ + 1]
    BY DEF EmitClose
  <2> HIDE DEF e
  <2>3. events'[e] = events[e] + 1 /\ events[e] \in Nat
    BY <2>1, <2>2
  <2>4. events'[e] > events[e]
    BY <2>3
  <2> QED BY <2>1, <2>4
<1>6. Funded
  <2> SUFFICES ASSUME NEW x \in Address,
                      accounts'[x].lamports < accounts[x].lamports
               PROVE  x \in AttestationAddress
    BY <1>5 DEF Funded
  <2>1. /\ accounts[x].lamports \in Nat /\ mid[x].lamports \in Nat
        /\ accounts'[x].lamports \in Nat
    BY <1>3, References DEF AccountsGood, Updated
  <2>2. x = a
    BY <1>3, <2>1
  <2> QED BY <2>2
<1> QED BY <1>1, <1>2, <1>4, <1>6 DEF AttestationClosed

LEMMA CreateAttestationEffect ==
  ASSUME AccountsGood(accounts), NEW signer \in Wallet,
         NEW c \in CredentialKey, NEW s \in SchemaAddress, NEW nonce \in Nonce,
         NEW data \in Data, NEW expiry \in Expiry, NEW payer \in Wallet,
         CreateAttestation(signer, c, s, nonce, data, expiry, payer)
  PROVE  /\ \E a \in AttestationAddress :
              AttestationIssued(a, signer, data, expiry, NoToken)
         /\ Funded
<1>1. /\ CanCreateAttestation(signer, c, s, nonce, data, expiry, payer)
      /\ accounts' = AttestationCreated(signer, c, s, nonce, data, expiry,
                                        payer, NoToken)
      /\ Issue(s, data)
  BY DEF CreateAttestation
<1>2. accounts' \in [Address -> Account]
  BY <1>1, AttestationCreatedGood DEF AccountsGood
<1>3. SameContents(accounts', accounts') /\ PaidBy(accounts', accounts', signers)
  BY <1>2, References DEF SameContents, PaidBy
<1> QED BY <1>1, <1>2, <1>3, AttestationIssuedEffect

LEMMA CloseAttestationEffect ==
  ASSUME AccountsGood(accounts), events \in [Event -> Nat],
         NEW signer \in Wallet, NEW c \in CredentialKey,
         NEW a \in AttestationAddress, NEW payee \in Address,
         CloseAttestation(signer, c, a, payee)
  PROVE  /\ AttestationClosed(a, signer)
         /\ accounts[a].data.token_account = NoToken
         /\ Funded
<1>1. /\ CanCloseAttestation(signer, c, a, payee, NoToken)
      /\ accounts' = Close(accounts, a, payee)
      /\ EmitClose(a)
      /\ accounts[a].data.token_account = NoToken
  BY DEF CloseAttestation, CanCloseAttestation
<1>2. accounts \in [Address -> Account]
  BY DEF AccountsGood
<1>3. /\ SameContents(accounts, accounts)
      /\ \A x \in Address : accounts[x].lamports >= accounts[x].lamports
  BY <1>2, References DEF SameContents
<1> QED BY <1>1, <1>2, <1>3, AttestationClosedEffect

LEMMA SendLamportsEffect ==
  ASSUME AccountsGood(accounts), NEW from \in Wallet, NEW to \in Address,
         NEW amount \in Nat, SendLamports(from, to, amount)
  PROVE  LamportsOnly /\ Funded
<1>1. /\ CanPay(accounts, signers, from, amount)
      /\ accounts' = Transfer(accounts, from, to, amount)
      /\ UNCHANGED <<events, issued>>
  BY DEF SendLamports
<1>2. from \in Address
  BY AddressKinds
<1>3. SameContents(accounts, accounts') /\ PaidBy(accounts, accounts', signers)
  BY <1>1, <1>2, TransferUpdates, TransferPaid DEF AccountsGood
<1> QED BY <1>1, <1>3 DEF SameContents, LamportsOnly, PaidBy, Funded

LEMMA AssignWalletEffect ==
  ASSUME AccountsGood(accounts), NEW w \in Squatter, AssignWallet(w)
  PROVE  WalletAssigned(w) /\ Funded
<1>1. /\ IsVacant(accounts, w) /\ w \in signers
      /\ accounts' = [accounts EXCEPT
           ![w] = [owner |-> "sas", lamports |-> @.lamports,
                   space |-> EncodedLen(BlankCredential),
                   data |-> BlankCredential]]
      /\ UNCHANGED <<events, issued>>
  BY DEF AssignWallet
<1>2. w \in Address
  BY WalletAssumption, AddressKinds
<1>3. /\ accounts'[w].owner = "sas" /\ accounts'[w].data = BlankCredential
      /\ accounts'[w].lamports = accounts[w].lamports
      /\ \A x \in Address \ {w} : accounts'[x] = accounts[x]
  BY <1>1, <1>2 DEF AccountsGood
<1>4. Rewritten(w, "sas", BlankCredential)
  BY <1>3 DEF Rewritten
<1>5. Funded
  BY <1>3, References DEF Funded, AccountsGood
<1> QED BY <1>1, <1>4, <1>5 DEF WalletAssigned, IsVacant

-----------------------------------------------------------------------------
(* Every instruction is a good step.                                       *)

LEMMA CredentialStep ==
  ASSUME InOrder, CredentialNext
  PROVE  GoodStep
<1>1. /\ AccountsGood(accounts) /\ signers \subseteq Wallet
      /\ events \in [Event -> Nat] /\ issued \in [Event -> Nat]
  BY DEF InOrder
<1>2. PICK payer \in Wallet, list \in SignerList :
        \/ \E authority \in Issuer, name \in Name :
             CreateCredential(authority, name, list, payer)
        \/ \E c \in CredentialKey : ChangeAuthorizedSigners(c, list, payer)
  BY DEF CredentialNext
<1>3. CASE \E authority \in Issuer, name \in Name :
             CreateCredential(authority, name, list, payer)
  <2>1. PICK authority \in Wallet, name \in Name :
          CreateCredential(authority, name, list, payer)
    BY <1>3, BoundAssumption
  <2>2. Effect /\ Funded
    BY <1>1, <2>1, CreateCredentialEffect DEF Effect
  <2>3. AccountsGood(accounts')
    BY <1>1, <2>1, CreateCredentialGood
  <2> QED BY <1>1, <2>1, <2>2, <2>3 DEF GoodStep, CreateCredential
<1>4. CASE \E c \in CredentialKey : ChangeAuthorizedSigners(c, list, payer)
  <2>1. PICK c \in CredentialKey : ChangeAuthorizedSigners(c, list, payer)
    BY <1>4
  <2>2. Effect /\ Funded
    BY <1>1, <2>1, ChangeAuthorizedSignersEffect DEF Effect
  <2>3. AccountsGood(accounts')
    BY <1>1, <2>1, ChangeAuthorizedSignersGood
  <2> QED BY <1>1, <2>1, <2>2, <2>3 DEF GoodStep, ChangeAuthorizedSigners
<1> QED BY <1>2, <1>3, <1>4

LEMMA SchemaStep ==
  ASSUME InOrder, SchemaNext
  PROVE  GoodStep
<1>1. /\ AccountsGood(accounts)
      /\ events \in [Event -> Nat] /\ issued \in [Event -> Nat]
  BY DEF InOrder
<1>2. PICK c \in CredentialKey :
        \/ \E payer \in Wallet, layout \in Layout, fieldNames \in FieldNames :
             \/ \E name \in Name, description \in Description :
                  CreateSchema(c, name, description, layout, fieldNames, payer)
             \/ \E s \in SchemaAddress :
                  ChangeSchemaVersion(c, s, layout, fieldNames, payer)
        \/ \E s \in SchemaAddress :
             \/ \E paused \in BOOLEAN : ChangeSchemaStatus(c, s, paused)
             \/ \E payer \in Wallet, description \in Description :
                  ChangeSchemaDescription(c, s, description, payer)
  BY DEF SchemaNext
<1>3. ASSUME NEW payer \in Wallet, NEW layout \in Layout,
             NEW fieldNames \in FieldNames, NEW name \in Name,
             NEW description \in Description,
             CreateSchema(c, name, description, layout, fieldNames, payer)
      PROVE  GoodStep
  <2>1. Effect /\ Funded
    BY <1>1, <1>3, CreateSchemaEffect DEF Effect
  <2>2. AccountsGood(accounts')
    BY <1>1, <1>3, CreateSchemaGood
  <2> QED BY <1>1, <1>3, <2>1, <2>2 DEF GoodStep, CreateSchema, NewSchema
<1>4. ASSUME NEW payer \in Wallet, NEW layout \in Layout,
             NEW fieldNames \in FieldNames, NEW s \in SchemaAddress,
             ChangeSchemaVersion(c, s, layout, fieldNames, payer)
      PROVE  GoodStep
  <2>1. Effect /\ Funded
    BY <1>1, <1>4, ChangeSchemaVersionEffect DEF Effect
  <2>2. AccountsGood(accounts')
    BY <1>1, <1>4, ChangeSchemaVersionGood
  <2> QED BY <1>1, <1>4, <2>1, <2>2
       DEF GoodStep, ChangeSchemaVersion, NewSchema
<1>5. ASSUME NEW s \in SchemaAddress, NEW paused \in BOOLEAN,
             ChangeSchemaStatus(c, s, paused)
      PROVE  GoodStep
  <2>1. Effect /\ Funded
    BY <1>1, <1>5, ChangeSchemaStatusEffect DEF Effect
  <2>2. AccountsGood(accounts')
    BY <1>1, <1>5, ChangeSchemaStatusGood
  <2> QED BY <1>1, <1>5, <2>1, <2>2 DEF GoodStep, ChangeSchemaStatus
<1>6. ASSUME NEW s \in SchemaAddress, NEW payer \in Wallet,
             NEW description \in Description,
             ChangeSchemaDescription(c, s, description, payer)
      PROVE  GoodStep
  <2>1. Effect /\ Funded
    BY <1>1, <1>6, ChangeSchemaDescriptionEffect DEF Effect
  <2>2. AccountsGood(accounts')
    BY <1>1, <1>6, ChangeSchemaDescriptionGood
  <2> QED BY <1>1, <1>6, <2>1, <2>2 DEF GoodStep, ChangeSchemaDescription
<1> QED BY <1>2, <1>3, <1>4, <1>5, <1>6

LEMMA AttestationStep ==
  ASSUME InOrder, AttestationNext
  PROVE  GoodStep
<1>1. /\ AccountsGood(accounts)
      /\ events \in [Event -> Nat] /\ issued \in [Event -> Nat]
  BY DEF InOrder
<1>2. ASSUME NEW signer \in Wallet, NEW c \in CredentialKey,
             NEW s \in SchemaAddress, NEW nonce \in Nonce, NEW data \in Data,
             NEW expiry \in Expiry, NEW payer \in Wallet,
             CreateAttestation(signer, c, s, nonce, data, expiry, payer)
      PROVE  GoodStep
  <2>1. AccountsGood(accounts') /\ Instruction
    BY <1>1, <1>2, AttestationCreatedGood DEF CreateAttestation
  <2>2. events' \in [Event -> Nat] /\ issued' \in [Event -> Nat]
    BY <1>1, <1>2, IssueType DEF CreateAttestation
  <2>3. Effect /\ Funded
    BY <1>1, <1>2, CreateAttestationEffect DEF Effect
  <2> QED BY <2>1, <2>2, <2>3 DEF GoodStep
<1>3. ASSUME NEW signer \in Wallet, NEW c \in CredentialKey,
             NEW a \in AttestationAddress, NEW payee \in Payee,
             CloseAttestation(signer, c, a, payee)
      PROVE  GoodStep
  <2>1. payee \in Address
    BY BoundAssumption
  <2>2. AccountsGood(accounts') /\ Instruction
    BY <1>1, <1>3, <2>1, ClosedGood DEF CloseAttestation
  <2>3. HeldIn(accounts, a, "attestation") /\ EmitClose(a)
    BY <1>3 DEF CloseAttestation, CanCloseAttestation, Holds
  <2>4. events' \in [Event -> Nat] /\ issued' \in [Event -> Nat]
    BY <1>1, <2>3, EmitCloseType
  <2>5. AttestationClosed(a, signer) /\ Funded
    BY <1>1, <1>3, <2>1, CloseAttestationEffect
  <2> QED BY <2>2, <2>4, <2>5 DEF GoodStep, Effect
<1> QED BY <1>2, <1>3 DEF AttestationNext

LEMMA SystemStep ==
  ASSUME InOrder, SystemNext
  PROVE  GoodStep
<1>1. /\ AccountsGood(accounts)
      /\ events \in [Event -> Nat] /\ issued \in [Event -> Nat]
  BY DEF InOrder
<1>2. ASSUME NEW from \in Wallet, NEW to \in Payee,
             NEW amount \in TransferAmount, SendLamports(from, to, amount)
      PROVE  GoodStep
  <2>1. to \in Address /\ amount \in Nat
    BY BoundAssumption
  <2>2. AccountsGood(accounts')
    BY <1>1, <1>2, <2>1, SendLamportsGood
  <2>3. LamportsOnly /\ Funded
    BY <1>1, <1>2, <2>1, SendLamportsEffect
  <2> QED BY <1>1, <1>2, <2>2, <2>3 DEF GoodStep, Effect, SendLamports
<1>3. ASSUME NEW w \in Squatter, AssignWallet(w)
      PROVE  GoodStep
  <2>1. AccountsGood(accounts')
    BY <1>1, <1>3, AssignWalletGood
  <2>2. WalletAssigned(w) /\ Funded
    BY <1>1, <1>3, AssignWalletEffect
  <2> QED BY <1>1, <1>3, <2>1, <2>2 DEF GoodStep, Effect, AssignWallet
<1> QED BY <1>2, <1>3 DEF SystemNext

-----------------------------------------------------------------------------
(* What there is on a ledger in all.                                       *)

(* What some addresses of a ledger hold in all is a sum.                   *)
SumOver(ledger, S) == MapThenSumSet(LAMBDA a : ledger[a].lamports, S)

LEMMA PartIsSum ==
  ASSUME NEW S, IsFiniteSet(S), NEW ledger,
         \A x \in S : ledger[x].lamports \in Int
  PROVE  \E g : /\ SumsUp(g, [x \in S |-> ledger[x].lamports], S)
                /\ SumOver(ledger, S) = g[S]
<1> DEFINE f == [x \in S |-> ledger[x].lamports]
           Fun(g) == [s \in SUBSET S |->
                        IF s = {} THEN 0
                        ELSE ledger[Chosen(s)].lamports + g[s \ {Chosen(s)}]]
           total == CHOOSE g : g = Fun(g)
<1>1. SumOver(ledger, S) = total[S]
  BY DEF SumOver, MapThenSumSet, MapThenFoldSet, Chosen
<1>2. f \in [S -> Int]
  OBVIOUS
<1> HIDE DEF f
<1>3. PICK h : SumsUp(h, f, S)
  BY <1>2, SumExists
<1>4. \A s \in SUBSET S :
        s # {} => h[s] = ledger[Chosen(s)].lamports + h[s \ {Chosen(s)}]
  <2> TAKE s \in SUBSET S
  <2> HAVE s # {}
  <2>1. Chosen(s) \in S
    BY ChosenIn
  <2>2. f[Chosen(s)] = ledger[Chosen(s)].lamports
    BY <2>1 DEF f
  <2> QED BY <1>3, <2>2 DEF SumsUp
<1>5. h = Fun(h)
  <2>1. h \in [SUBSET S -> Int] /\ h[{}] = 0
    BY <1>3 DEF SumsUp
  <2>2. \A s \in SUBSET S : h[s] = Fun(h)[s]
    BY <1>4, <2>1
  <2>3. h = [s \in SUBSET S |-> h[s]]
    BY <2>1
  <2> QED BY <2>2, <2>3
<1> HIDE DEF Fun
<1>6. total = Fun(total)
  BY <1>5
<1> HIDE DEF total
<1>7. /\ total[{}] = 0
      /\ \A s \in SUBSET S :
           s # {} =>
             total[s] = ledger[Chosen(s)].lamports + total[s \ {Chosen(s)}]
      /\ total = [s \in SUBSET S |-> total[s]]
  <2>1. \A s \in SUBSET S :
          total[s] = IF s = {} THEN 0
                     ELSE ledger[Chosen(s)].lamports + total[s \ {Chosen(s)}]
    BY <1>6 DEF Fun
  <2>2. total = [s \in SUBSET S |-> total[s]]
    BY <1>6 DEF Fun
  <2> QED BY <2>1, <2>2
<1> DEFINE N == {n \in Nat : \A s \in SUBSET S :
                                Cardinality(s) = n => total[s] = h[s]}
<1>8. \A s \in SUBSET S : IsFiniteSet(s) /\ Cardinality(s) \in Nat
  BY FS_Subset, FS_CardinalityType
<1>9. 0 \in N
  <2>1. \A s \in SUBSET S : Cardinality(s) = 0 => s = {}
    BY <1>8, FS_EmptySet
  <2> QED BY <1>3, <1>7, <2>1 DEF SumsUp
<1>10. ASSUME NEW n \in Nat, n \in N
       PROVE  n + 1 \in N
  <2> SUFFICES ASSUME NEW s \in SUBSET S, Cardinality(s) = n + 1
               PROVE  total[s] = h[s]
    OBVIOUS
  <2>1. s # {}
    BY FS_EmptySet
  <2>2. Chosen(s) \in s
    BY <2>1, ChosenIn
  <2>3. s \ {Chosen(s)} \in SUBSET S /\ Cardinality(s \ {Chosen(s)}) = n
    BY <2>2, OneLess
  <2>4. total[s \ {Chosen(s)}] = h[s \ {Chosen(s)}]
    BY <1>10, <2>3
  <2> QED BY <1>4, <1>7, <2>1, <2>4
<1> HIDE DEF N
<1>11. Cardinality(S) \in N
  BY <1>8, <1>9, <1>10, Induction
<1>12. total[S] = h[S]
  BY <1>11 DEF N
<1> QED BY <1>1, <1>3, <1>12 DEF f

(* A total is a sum over the addresses of the ledger.                      *)
LEMMA TotalIsSum ==
  ASSUME NEW S, IsFiniteSet(S), NEW ledger, DOMAIN ledger = S,
         \A x \in S : ledger[x].lamports \in Int
  PROVE  \E g : /\ SumsUp(g, [x \in S |-> ledger[x].lamports], S)
                /\ TotalLamports(ledger) = g[S]
<1>1. TotalLamports(ledger) = SumOver(ledger, S)
  BY DEF TotalLamports, SumOver, MapThenSumSet, MapThenFoldSet
<1> QED BY <1>1, PartIsSum

(* It is all in a part of them if the others hold nothing.                 *)
LEMMA TotalOfPart ==
  ASSUME NEW S, IsFiniteSet(S), NEW ledger, DOMAIN ledger = S,
         \A x \in S : ledger[x].lamports \in Int,
         NEW W \in SUBSET S, \A x \in S \ W : ledger[x].lamports = 0
  PROVE  TotalLamports(ledger) = SumOver(ledger, W)
<1> DEFINE f == [x \in S |-> ledger[x].lamports]
           part == [x \in W |-> ledger[x].lamports]
<1>1. IsFiniteSet(W) /\ \A x \in W : ledger[x].lamports \in Int
  BY FS_Subset
<1>2. PICK g : SumsUp(g, f, S) /\ TotalLamports(ledger) = g[S]
  BY TotalIsSum
<1>3. PICK h : SumsUp(h, part, W) /\ SumOver(ledger, W) = h[W]
  BY <1>1, PartIsSum
<1>4. /\ f \in [S -> Int] /\ part \in [W -> Int]
      /\ \A x \in S : f[x] = IF x \in W THEN part[x] ELSE 0
  BY <1>1
<1> HIDE DEF f, part
<1>5. g[S] = h[W]
  BY <1>1, <1>2, <1>3, <1>4, SumOfPart
<1> QED BY <1>2, <1>3, <1>5

(* It changes by what one balance changes by.                              *)
LEMMA TotalChanged ==
  ASSUME NEW S, IsFiniteSet(S), NEW l1, NEW l2,
         DOMAIN l1 = S, \A x \in S : l1[x].lamports \in Int,
         DOMAIN l2 = S, \A x \in S : l2[x].lamports \in Int,
         NEW a \in S, NEW d \in Int,
         l2[a].lamports = l1[a].lamports + d,
         \A x \in S \ {a} : l2[x].lamports = l1[x].lamports
  PROVE  /\ TotalLamports(l1) \in Int
         /\ TotalLamports(l2) = TotalLamports(l1) + d
<1> DEFINE f1 == [x \in S |-> l1[x].lamports]
           f2 == [x \in S |-> l2[x].lamports]
<1>1. PICK g1 : SumsUp(g1, f1, S) /\ TotalLamports(l1) = g1[S]
  BY TotalIsSum
<1>2. PICK g2 : SumsUp(g2, f2, S) /\ TotalLamports(l2) = g2[S]
  BY TotalIsSum
<1>3. /\ f1 \in [S -> Int] /\ f2 \in [S -> Int]
      /\ f2[a] = f1[a] + d
      /\ \A x \in S \ {a} : f2[x] = f1[x]
  OBVIOUS
<1> HIDE DEF f1, f2
<1>4. g2[S] = g1[S] + d
  BY <1>1, <1>2, <1>3, SumChanged
<1>5. g1[S] \in Int
  BY <1>1 DEF SumsUp
<1> QED BY <1>1, <1>2, <1>4, <1>5

(* Ledgers with the same balances have the same total.                     *)
LEMMA TotalSame ==
  ASSUME NEW S, IsFiniteSet(S), NEW l1, NEW l2,
         DOMAIN l1 = S, \A x \in S : l1[x].lamports \in Int,
         DOMAIN l2 = S, \A x \in S : l2[x].lamports = l1[x].lamports
  PROVE  TotalLamports(l2) = TotalLamports(l1)
<1>1. CASE S = {}
  <2>1. PICK g1 : SumsUp(g1, [x \in S |-> l1[x].lamports], S)
                  /\ TotalLamports(l1) = g1[S]
    BY TotalIsSum
  <2>2. PICK g2 : SumsUp(g2, [x \in S |-> l2[x].lamports], S)
                  /\ TotalLamports(l2) = g2[S]
    BY TotalIsSum
  <2> QED BY <1>1, <2>1, <2>2 DEF SumsUp
<1>2. CASE S # {}
  <2>1. PICK a \in S : TRUE
    BY <1>2
  <2>2. /\ l2[a].lamports = l1[a].lamports + 0
        /\ \A x \in S \ {a} : l2[x].lamports = l1[x].lamports
        /\ \A x \in S : l2[x].lamports \in Int
    OBVIOUS
  <2>3. /\ TotalLamports(l1) \in Int
        /\ TotalLamports(l2) = TotalLamports(l1) + 0
    BY <2>2, TotalChanged
  <2> QED BY <2>3
<1> QED BY <1>1, <1>2

(* The ledger of the program has finitely many addresses.                  *)
LEMMA BalanceType ==
  ASSUME NEW ledger \in [Address -> Account]
  PROVE  /\ IsFiniteSet(Address)
         /\ DOMAIN ledger = Address
         /\ \A x \in Address : ledger[x].lamports \in Int
BY FinitenessAssumption DEF Account

(* A payment changes the total by its amount.                              *)
LEMMA DebitTotal ==
  ASSUME NEW ledger \in [Address -> Account], NEW signed,
         NEW from \in Address, NEW amount \in Nat,
         CanPay(ledger, signed, from, amount)
  PROVE  /\ TotalLamports(ledger) \in Int
         /\ TotalLamports(Debit(ledger, from, amount))
              = TotalLamports(ledger) - amount
<1> DEFINE l2 == Debit(ledger, from, amount)
<1>1. l2 \in [Address -> Account]
  BY DebitUpdates
<1>2. /\ l2[from].lamports = ledger[from].lamports - amount
      /\ \A x \in Address \ {from} : l2[x].lamports = ledger[x].lamports
  BY DEF Debit, Account
<1>3. ledger[from].lamports \in Int
  BY BalanceType
<1> HIDE DEF l2
<1>4. l2[from].lamports = ledger[from].lamports + (0 - amount)
  BY <1>2, <1>3
<1>5. /\ TotalLamports(ledger) \in Int
      /\ TotalLamports(l2) = TotalLamports(ledger) + (0 - amount)
  BY <1>1, <1>2, <1>4, BalanceType, TotalChanged
<1> QED BY <1>5 DEF l2

LEMMA CreditTotal ==
  ASSUME NEW ledger \in [Address -> Account],
         NEW to \in Address, NEW amount \in Nat
  PROVE  /\ TotalLamports(ledger) \in Int
         /\ TotalLamports(Credit(ledger, to, amount))
              = TotalLamports(ledger) + amount
<1> DEFINE l2 == Credit(ledger, to, amount)
<1>1. l2 \in [Address -> Account]
  BY CreditUpdates
<1>2. /\ l2[to].lamports = ledger[to].lamports + amount
      /\ \A x \in Address \ {to} : l2[x].lamports = ledger[x].lamports
  BY DEF Credit, Account
<1> HIDE DEF l2
<1>3. /\ TotalLamports(ledger) \in Int
      /\ TotalLamports(l2) = TotalLamports(ledger) + amount
  BY <1>1, <1>2, BalanceType, TotalChanged
<1> QED BY <1>3 DEF l2

(* A transfer keeps it, and so do a creation, a growth and a closing.      *)
LEMMA TransferTotal ==
  ASSUME NEW ledger \in [Address -> Account], NEW signed,
         NEW from \in Address, NEW to \in Address, NEW amount \in Nat,
         CanPay(ledger, signed, from, amount)
  PROVE  TotalLamports(Transfer(ledger, from, to, amount))
           = TotalLamports(ledger)
<1> DEFINE mid == Debit(ledger, from, amount)
<1>1. /\ mid \in [Address -> Account]
      /\ TotalLamports(ledger) \in Int
      /\ TotalLamports(mid) = TotalLamports(ledger) - amount
  BY DebitUpdates, DebitTotal
<1>2. Transfer(ledger, from, to, amount) = Credit(mid, to, amount)
  BY DEF Transfer
<1> HIDE DEF mid
<1>3. TotalLamports(Credit(mid, to, amount)) = TotalLamports(mid) + amount
  BY <1>1, CreditTotal
<1> QED BY <1>1, <1>2, <1>3

LEMMA CreateTotal ==
  ASSUME NEW ledger \in [Address -> Account], NEW signed,
         NEW payer \in Wallet, NEW a \in Address,
         NEW space \in Nat, NEW data,
         CanCreate(ledger, signed, payer, a, space)
  PROVE  TotalLamports(Create(ledger, payer, a, space, data))
           = TotalLamports(ledger)
<1> DEFINE l2 == Create(ledger, payer, a, space, data)
           cost == CreationCost(ledger, a, space)
           mid == Transfer(ledger, payer, a, cost)
<1>1. cost \in Nat
  BY TopUpEnough, RequiredLamportsType DEF CreationCost
<1>2. payer \in Address
  BY DEF Address
<1>3. CanPay(ledger, signed, payer, cost)
  BY DEF CanCreate
<1>4. l2 = [mid EXCEPT ![a] = [owner |-> "sas", lamports |-> @.lamports,
                               space |-> space, data |-> data]]
  BY DEF Create
<1> HIDE DEF cost
<1>5. /\ mid \in [Address -> Account]
      /\ TotalLamports(mid) = TotalLamports(ledger)
  BY <1>1, <1>2, <1>3, TransferUpdates, TransferTotal
<1> HIDE DEF mid
<1>6. DOMAIN l2 = Address /\ \A x \in Address : l2[x].lamports = mid[x].lamports
  BY <1>4, <1>5
<1> HIDE DEF l2
<1>7. TotalLamports(l2) = TotalLamports(mid)
  BY <1>5, <1>6, BalanceType, TotalSame
<1> QED BY <1>5, <1>7 DEF l2

LEMMA ResizeTotal ==
  ASSUME NEW ledger \in [Address -> Account], NEW signed,
         NEW payer \in Wallet, NEW a \in Address,
         NEW space \in Nat, NEW data,
         CanResize(ledger, signed, payer, a, space)
  PROVE  TotalLamports(Resize(ledger, payer, a, space, data))
           = TotalLamports(ledger)
<1> DEFINE l2 == Resize(ledger, payer, a, space, data)
           cost == ResizeCost(ledger, a, space)
           mid == Transfer(ledger, payer, a, cost)
<1>1. cost \in Nat
  BY TopUpEnough, MinimumBalanceType DEF ResizeCost
<1>2. payer \in Address
  BY DEF Address
<1>3. CanPay(ledger, signed, payer, cost)
  BY DEF CanResize
<1>4. l2 = [mid EXCEPT ![a] = [owner |-> @.owner, lamports |-> @.lamports,
                               space |-> space, data |-> data]]
  BY DEF Resize
<1> HIDE DEF cost
<1>5. /\ mid \in [Address -> Account]
      /\ TotalLamports(mid) = TotalLamports(ledger)
  BY <1>1, <1>2, <1>3, TransferUpdates, TransferTotal
<1> HIDE DEF mid
<1>6. DOMAIN l2 = Address /\ \A x \in Address : l2[x].lamports = mid[x].lamports
  BY <1>4, <1>5
<1> HIDE DEF l2
<1>7. TotalLamports(l2) = TotalLamports(mid)
  BY <1>5, <1>6, BalanceType, TotalSame
<1> QED BY <1>5, <1>7 DEF l2

LEMMA CloseTotal ==
  ASSUME NEW ledger \in [Address -> Account],
         NEW payee \in Address, NEW a \in Address, payee # a
  PROVE  TotalLamports(Close(ledger, a, payee)) = TotalLamports(ledger)
<1> DEFINE l2 == Close(ledger, a, payee)
           rent == ledger[a].lamports
           mid == Credit(ledger, payee, rent)
<1>1. rent \in Nat
  BY DEF Account
<1>2. l2 \in [Address -> Account]
  BY CloseUpdates DEF Updated
<1>3. l2 = [mid EXCEPT ![a] = Vacant]
  BY DEF Close
<1>4. mid[a].lamports = rent
  BY DEF Credit
<1> HIDE DEF rent
<1>5. /\ mid \in [Address -> Account]
      /\ TotalLamports(ledger) \in Int
      /\ TotalLamports(mid) = TotalLamports(ledger) + rent
  BY <1>1, CreditUpdates, CreditTotal
<1> HIDE DEF mid
<1>6. /\ l2[a].lamports = mid[a].lamports + (0 - rent)
      /\ \A x \in Address \ {a} : l2[x].lamports = mid[x].lamports
  <2>1. l2[a].lamports = 0
    BY <1>3, <1>5 DEF Vacant
  <2> QED BY <1>1, <1>3, <1>4, <1>5, <2>1
<1> HIDE DEF l2
<1>7. TotalLamports(l2) = TotalLamports(mid) + (0 - rent)
  <2>1. /\ DOMAIN mid = Address /\ \A x \in Address : mid[x].lamports \in Int
        /\ DOMAIN l2 = Address /\ \A x \in Address : l2[x].lamports \in Int
        /\ IsFiniteSet(Address)
    BY <1>2, <1>5, BalanceType
  <2>2. 0 - rent \in Int
    BY <1>1
  <2> QED BY <1>6, <2>1, <2>2, TotalChanged
<1> QED BY <1>1, <1>5, <1>7 DEF l2

(* Forgetting accounts without lamports loses none.                        *)
LEMMA PurgeTotal ==
  ASSUME NEW S, IsFiniteSet(S), NEW ledger, DOMAIN ledger = S,
         \A x \in S : ledger[x].lamports \in Int
  PROVE  TotalLamports(Purge(ledger)) = TotalLamports(ledger)
<1>1. /\ DOMAIN Purge(ledger) = S
      /\ \A x \in S : Purge(ledger)[x].lamports = ledger[x].lamports
  BY DEF Purge, Vacant
<1> QED BY <1>1, TotalSame

(* So whatever an instruction of the program or of the System program      *)
(* moves, the total stays.                                                 *)
Balanced == TotalLamports(accounts') = TotalLamports(accounts)

LEMMA CredentialBalanced ==
  ASSUME InOrder, CredentialNext
  PROVE  Balanced
<1>1. accounts \in [Address -> Account] /\ signers \subseteq Wallet
  BY DEF InOrder, AccountsGood
<1>2. ASSUME NEW payer \in Wallet, NEW list \in SignerList,
             NEW authority \in Issuer, NEW name \in Name,
             CreateCredential(authority, name, list, payer)
      PROVE  Balanced
  <2> DEFINE c == CredentialPda(authority, name)
             space == CredentialSpace(name, list)
             d == Credential(authority, name, list)
  <2>1. /\ CanCreate(accounts, signers, payer, c, space)
        /\ accounts' = Create(accounts, payer, c, space, d)
    BY <1>2 DEF CreateCredential
  <2>2. authority \in Wallet
    BY BoundAssumption
  <2>3. c \in Address /\ space \in Nat
    BY <2>2, NewCredential, AddressKinds, EncodedLenType
  <2> HIDE DEF c, space, d
  <2> QED BY <1>1, <2>1, <2>3, CreateTotal DEF Balanced
<1>3. ASSUME NEW payer \in Wallet, NEW list \in SignerList,
             NEW c \in CredentialKey, ChangeAuthorizedSigners(c, list, payer)
      PROVE  Balanced
  <2> DEFINE d == [accounts[c].data EXCEPT !.authorized_signers = list]
             space == ResizedSpace(accounts[c].space,
                        32 * Len(accounts[c].data.authorized_signers),
                        32 * Len(list))
  <2>1. /\ AuthoritySigned(c)
        /\ CanResize(accounts, signers, payer, c, space)
        /\ accounts' = Resize(accounts, payer, c, space, d)
    BY <1>3 DEF ChangeAuthorizedSigners
  <2>2. c \in Address /\ space \in Nat
    BY <1>1, <2>1, CredentialResized DEF InOrder
  <2> HIDE DEF d, space
  <2> QED BY <1>1, <2>1, <2>2, ResizeTotal DEF Balanced
<1> QED BY <1>2, <1>3 DEF CredentialNext

LEMMA NewSchemaBalanced ==
  ASSUME InOrder, NEW c \in CredentialKey, NEW name \in Name,
         NEW description \in Description, NEW layout \in Layout,
         NEW fieldNames \in FieldNames, NEW version \in 1 .. MaxVersion,
         NEW payer \in Wallet,
         NewSchema(c, name, description, layout, fieldNames, version, payer)
  PROVE  Balanced
<1> DEFINE s == SchemaPda(c, name, version)
           space == SchemaSpace(name, description, layout, fieldNames)
           d == Schema(c, name, description, layout, fieldNames, version)
<1>1. /\ CanCreate(accounts, signers, payer, s, space)
      /\ accounts' = Create(accounts, payer, s, space, d)
  BY DEF NewSchema
<1>2. s \in Address /\ space \in Nat
  BY NewSchemaData, AddressKinds, EncodedLenType
<1> HIDE DEF s, space, d
<1> QED BY <1>1, <1>2, CreateTotal DEF Balanced, InOrder, AccountsGood

LEMMA SchemaBalanced ==
  ASSUME InOrder, SchemaNext
  PROVE  Balanced
<1>1. accounts \in [Address -> Account] /\ AccountsGood(accounts)
  BY DEF InOrder, AccountsGood
<1>2. ASSUME NEW c \in CredentialKey, NEW payer \in Wallet,
             NEW layout \in Layout, NEW fieldNames \in FieldNames,
             NEW name \in Name, NEW description \in Description,
             CreateSchema(c, name, description, layout, fieldNames, payer)
      PROVE  Balanced
  <2>1. FirstVersion \in 1 .. MaxVersion
    BY LimitAssumption DEF FirstVersion
  <2> QED BY <1>2, <2>1, NewSchemaBalanced DEF CreateSchema
<1>3. ASSUME NEW c \in CredentialKey, NEW payer \in Wallet,
             NEW layout \in Layout, NEW fieldNames \in FieldNames,
             NEW s \in SchemaAddress,
             ChangeSchemaVersion(c, s, layout, fieldNames, payer)
      PROVE  Balanced
  <2> DEFINE d == accounts[s].data
  <2>1. /\ SchemaOf(s, c) /\ d.version < MaxVersion
        /\ NewSchema(c, d.name, d.description, layout, fieldNames,
                     d.version + 1, payer)
    BY <1>3 DEF ChangeSchemaVersion
  <2>2. d \in SchemaData
    BY <1>1, <2>1, SchemaUnder
  <2>3. /\ d.name \in Name /\ d.description \in Description
        /\ d.version \in 1 .. MaxVersion
    BY <2>2 DEF SchemaData
  <2>4. d.version + 1 \in 1 .. MaxVersion
    BY <2>1, <2>3, LimitAssumption
  <2> HIDE DEF d
  <2> QED BY <2>1, <2>3, <2>4, NewSchemaBalanced
<1>4. ASSUME NEW c \in CredentialKey, NEW s \in SchemaAddress,
             NEW paused \in BOOLEAN, ChangeSchemaStatus(c, s, paused)
      PROVE  Balanced
  <2>1. accounts' = [accounts EXCEPT ![s].data.is_paused = paused]
    BY <1>4 DEF ChangeSchemaStatus
  <2>2. /\ DOMAIN accounts' = Address
        /\ \A x \in Address : accounts'[x].lamports = accounts[x].lamports
    BY <1>1, <2>1 DEF Account
  <2> QED BY <1>1, <2>2, BalanceType, TotalSame DEF Balanced
<1>5. ASSUME NEW c \in CredentialKey, NEW s \in SchemaAddress,
             NEW payer \in Wallet, NEW description \in Description,
             ChangeSchemaDescription(c, s, description, payer)
      PROVE  Balanced
  <2> DEFINE d == [accounts[s].data EXCEPT !.description = description]
             space == ResizedSpace(accounts[s].space,
                        Len(accounts[s].data.description), Len(description))
  <2>1. /\ SchemaOf(s, c)
        /\ CanResize(accounts, signers, payer, s, space)
        /\ accounts' = Resize(accounts, payer, s, space, d)
    BY <1>5 DEF ChangeSchemaDescription
  <2>2. s \in Address /\ space \in Nat
    BY <1>1, <2>1, SchemaResized
  <2> HIDE DEF d, space
  <2> QED BY <1>1, <2>1, <2>2, ResizeTotal DEF Balanced
<1> QED BY <1>2, <1>3, <1>4, <1>5 DEF SchemaNext

(* A new attestation, whether or not a mint comes with it.                 *)
LEMMA AttestationCreatedTotal ==
  ASSUME AccountsGood(accounts), NEW signer \in Wallet,
         NEW c \in CredentialKey, NEW s \in SchemaAddress, NEW nonce \in Nonce,
         NEW data \in Data, NEW expiry \in Expiry, NEW payer \in Wallet,
         NEW token \in HoldingAddress \cup {NoToken},
         CanCreateAttestation(signer, c, s, nonce, data, expiry, payer)
  PROVE  TotalLamports(AttestationCreated(signer, c, s, nonce, data, expiry,
                                          payer, token))
           = TotalLamports(accounts)
<1> DEFINE a == AttestationPda(c, s, nonce)
           space == AttestationSpace(data)
           d == Attestation(nonce, c, s, data, signer, expiry, token)
<1>1. /\ CanCreate(accounts, signers, payer, a, space)
      /\ AttestationCreated(signer, c, s, nonce, data, expiry, payer, token)
           = Create(accounts, payer, a, space, d)
  BY DEF CanCreateAttestation, AttestationCreated
<1>2. a \in Address /\ space \in Nat
  BY NewAttestation, AddressKinds, EncodedLenType
<1> HIDE DEF a, space, d
<1> QED BY <1>1, <1>2, CreateTotal DEF AccountsGood

LEMMA AttestationBalanced ==
  ASSUME InOrder, AttestationNext
  PROVE  Balanced
<1>1. AccountsGood(accounts) /\ accounts \in [Address -> Account]
  BY DEF InOrder, AccountsGood
<1>2. ASSUME NEW signer \in Wallet, NEW c \in CredentialKey,
             NEW s \in SchemaAddress, NEW nonce \in Nonce, NEW data \in Data,
             NEW expiry \in Expiry, NEW payer \in Wallet,
             CreateAttestation(signer, c, s, nonce, data, expiry, payer)
      PROVE  Balanced
  BY <1>1, <1>2, AttestationCreatedTotal DEF CreateAttestation, Balanced
<1>3. ASSUME NEW signer \in Wallet, NEW c \in CredentialKey,
             NEW a \in AttestationAddress, NEW payee \in Payee,
             CloseAttestation(signer, c, a, payee)
      PROVE  Balanced
  <2>1. payee \in Address /\ a \in Address /\ payee # a
    BY <1>3, BoundAssumption, AddressKinds
       DEF CloseAttestation, CanCloseAttestation
  <2> QED BY <1>1, <1>3, <2>1, CloseTotal DEF CloseAttestation, Balanced
<1> QED BY <1>2, <1>3 DEF AttestationNext

LEMMA SystemBalanced ==
  ASSUME InOrder, SystemNext
  PROVE  Balanced
<1>1. accounts \in [Address -> Account]
  BY DEF InOrder, AccountsGood
<1>2. ASSUME NEW from \in Wallet, NEW to \in Payee,
             NEW amount \in TransferAmount, SendLamports(from, to, amount)
      PROVE  Balanced
  <2>1. from \in Address /\ to \in Address /\ amount \in Nat
    BY BoundAssumption, AddressKinds
  <2> QED BY <1>1, <1>2, <2>1, TransferTotal DEF SendLamports, Balanced
<1>3. ASSUME NEW w \in Squatter, AssignWallet(w)
      PROVE  Balanced
  <2>1. /\ DOMAIN accounts' = Address
        /\ \A x \in Address : accounts'[x].lamports = accounts[x].lamports
    BY <1>1, <1>3 DEF AssignWallet
  <2> QED BY <1>1, <2>1, BalanceType, TotalSame DEF Balanced
<1> QED BY <1>2, <1>3 DEF SystemNext

(* All the lamports there are come from the wallets.                       *)
LEMMA InitTotal ==
  ASSUME NEW ledger, ledger = [a \in Address |->
           IF a \in Wallet THEN [Vacant EXCEPT !.lamports = InitialLamports]
           ELSE Vacant]
  PROVE  TotalLamports(ledger) = InitialLamports * Cardinality(Wallet)
<1> DEFINE f == [a \in Address |-> ledger[a].lamports]
<1>1. \A a \in Address :
        ledger[a].lamports = IF a \in Wallet THEN InitialLamports ELSE 0
  BY DEF Vacant
<1>2. DOMAIN ledger = Address /\ \A a \in Address : ledger[a].lamports \in Int
  BY <1>1, BoundAssumption
<1>3. /\ f \in [Address -> Int]
      /\ \A a \in Address : f[a] = IF a \in Wallet THEN InitialLamports ELSE 0
  BY <1>1, <1>2
<1>4. PICK g : SumsUp(g, f, Address) /\ TotalLamports(ledger) = g[Address]
  BY ONLY <1>2, FinitenessAssumption, TotalIsSum
<1>5. Wallet \in SUBSET Address /\ InitialLamports \in Int
  BY AddressKinds, BoundAssumption
<1> HIDE DEF f
<1> QED BY <1>3, <1>4, <1>5, FinitenessAssumption, SumOfEqual

=============================================================================
