--------------------------- MODULE ClientRequests ---------------------------
(***************************************************************************)
(* The way of a request from the client's builder into a handler of the    *)
(* program: fields are set one by one, the builder makes the request or    *)
(* panics, wallets sign it (or a program lends its privileges to it), the  *)
(* runtime checks the privileges, the program dispatches it and its        *)
(* handler checks the accounts and reads the arguments.                    *)
(*                                                                         *)
(* The caller means well but slips: it forgets a field, mixes up a key,    *)
(* adds an account, leaves out a signature or writes an AccountMeta by     *)
(* hand and forgets a flag, MaxSlips times in all.                         *)
(***************************************************************************)
EXTENDS ClientInterface, HandlerInterface

CONSTANT MaxSlips

ASSUME MaxSlipsAssumption == MaxSlips \in Nat

VARIABLES builder,    \* the builder in use
          asked,      \* how many of its account fields have been dealt with
          keys,       \* the account fields set so far
          given,      \* the names of the arguments set
          remaining,  \* the remaining accounts, with the flags asked for
          request,    \* the accounts of the request made
          granted,    \* who signed, and what a calling program may write
          slips,      \* how often the caller slipped
          stage       \* how far the request has come

vars == <<builder, asked, keys, given, remaining, request, granted, slips,
          stage>>

Builders ==
  {CreateCredentialBuilder, CreateCredentialCpiBuilder,
   CreateSchemaBuilder, CreateSchemaCpiBuilder,
   ChangeSchemaStatusBuilder, ChangeSchemaStatusCpiBuilder,
   ChangeAuthorizedSignersBuilder, ChangeAuthorizedSignersCpiBuilder,
   ChangeSchemaDescriptionBuilder, ChangeSchemaDescriptionCpiBuilder,
   ChangeSchemaVersionBuilder, ChangeSchemaVersionCpiBuilder,
   CreateAttestationBuilder, CreateAttestationCpiBuilder,
   CloseAttestationBuilder, CloseAttestationCpiBuilder,
   TokenizeSchemaBuilder, TokenizeSchemaCpiBuilder,
   CreateTokenizedAttestationBuilder, CreateTokenizedAttestationCpiBuilder,
   CloseTokenizedAttestationBuilder, CloseTokenizedAttestationCpiBuilder,
   EmitEventBuilder, EmitEventCpiBuilder}

\* The keys of the instance: the issuer holds the credential, the sponsor is
\* another wallet, "other" an account that fits no role. Everything else,
\* programs and accounts of the program alike, goes by the name of its role.
Wallets == {"issuer", "sponsor"}
Meant(name) == CASE name = "payer"     -> Wallets
                 [] name = "authority" -> {"issuer"}
                 [] OTHER              -> {name}
Mistaken(name) == (Wallets \cup {"other"}) \ Meant(name)

Accounts == builder.request.accounts
Arguments == builder.request.args
Names == {Accounts[i].name : i \in DOMAIN Accounts}
ArgumentNames == {Arguments[i][1] : i \in DOMAIN Arguments}

----------------------------------------------------------------------------
(* The builder.                                                            *)

Slip == /\ slips < MaxSlips
        /\ slips' = slips + 1

Init == /\ builder \in Builders
        /\ asked = 0
        /\ keys = <<>>
        /\ given = {}
        /\ remaining = <<>>
        /\ request = <<>>
        /\ granted = [signed |-> {}, writable |-> {}]
        /\ slips = 0
        /\ stage = "filling"

Field == Accounts[asked + 1].name
Setting == /\ stage = "filling"
           /\ asked < Len(Accounts)
           /\ asked' = asked + 1
           /\ UNCHANGED <<builder, given, remaining, request, granted, stage>>

\* A setter gives its field a value.
Having(name, key) == [n \in DOMAIN keys \cup {name} |->
                        IF n = name THEN key ELSE keys[n]]

SetAccount == /\ Setting
              /\ \E key \in Meant(Field) : keys' = Having(Field, key)
              /\ UNCHANGED slips

SetWrongAccount == /\ Setting
                   /\ \E key \in Mistaken(Field) :
                        keys' = Having(Field, key)
                   /\ Slip

\* An account with a default is left alone in good faith.
LeaveAccount == /\ Setting
                /\ UNCHANGED keys
                /\ IF Field \in builder.defaults THEN UNCHANGED slips ELSE Slip

SetArguments == /\ stage = "filling"
                /\ asked = Len(Accounts)
                /\ \/ given' = ArgumentNames /\ UNCHANGED slips
                   \/ /\ \E name \in ArgumentNames :
                           given' = ArgumentNames \ {name}
                      /\ Slip
                /\ stage' = "filled"
                /\ UNCHANGED <<builder, asked, keys, remaining, request,
                                granted>>

AddRemainingAccount(key, writable, signer) ==
  /\ stage = "filled"
  /\ Slip
  /\ remaining' = Append(remaining, [key |-> key, writable |-> writable,
                                     signer |-> signer])
  /\ UNCHANGED <<builder, asked, keys, given, request, granted, stage>>

\* The key an account field ends up with: what was set or the default.
KeyOf(name) == IF name \in DOMAIN keys THEN keys[name] ELSE name
Missing == ~ /\ Names \ builder.defaults \subseteq DOMAIN keys
             /\ ArgumentNames \subseteq given

\* invoke_signed_with_remaining_accounts takes the first flag of a remaining
\* account for is_signer and the second for is_writable, although the setter
\* documents them the other way round.
RemainingMeta(account) ==
  IF builder.request.invoked
  THEN [key |-> account.key, signer |-> account.writable,
        writable |-> account.signer]
  ELSE account

FieldMetas ==
  [i \in DOMAIN Accounts |->
     [key |-> KeyOf(Accounts[i].name), signer |-> Accounts[i].signer,
      writable |-> Accounts[i].writable]]
\* A fault: the remaining accounts are left out.
MetasWithoutRemaining == FieldMetas
Metas == FieldMetas \o [i \in DOMAIN remaining |-> RemainingMeta(remaining[i])]

Instruct == /\ stage = "filled"
            /\ ~Missing
            /\ request' = Metas
            /\ stage' = "made"
            /\ UNCHANGED <<builder, asked, keys, given, remaining, granted,
                           slips>>

Panic == /\ stage = "filled"
         /\ Missing
         /\ stage' = "panicked"
         /\ UNCHANGED <<builder, asked, keys, given, remaining, request,
                        granted, slips>>

\* A caller that does without the builder forgets a flag.
ForgetFlag(i) == /\ stage = "made"
                 /\ i \in DOMAIN request
                 /\ Slip
                 /\ \/ /\ request[i].signer
                       /\ request' = [request EXCEPT ![i].signer = FALSE]
                    \/ /\ request[i].writable
                       /\ request' = [request EXCEPT ![i].writable = FALSE]
                 /\ UNCHANGED <<builder, asked, keys, given, remaining,
                                granted, stage>>

----------------------------------------------------------------------------
(* The runtime. The flags of an account that is listed twice are joined.   *)

RequestKeys == {request[i].key : i \in DOMAIN request}
Signers == {k \in RequestKeys :
              \E i \in DOMAIN request :
                request[i].key = k /\ request[i].signer}
Written == {k \in RequestKeys :
              \E i \in DOMAIN request :
                request[i].key = k /\ request[i].writable}

\* Nobody outside signs for an address of the program.
Sign == /\ stage = "made"
        /\ \/ /\ granted' = [signed |-> Wallets \cap RequestKeys,
                             writable |-> RequestKeys]
              /\ UNCHANGED slips
           \/ /\ \E k \in RequestKeys \cap Wallets :
                   granted' = [signed |-> (Wallets \cap RequestKeys) \ {k},
                               writable |-> RequestKeys]
              /\ Slip
           \/ /\ builder.request.invoked
              /\ \E k \in RequestKeys :
                   granted' = [signed |-> Wallets \cap RequestKeys,
                               writable |-> RequestKeys \ {k}]
              /\ Slip
        /\ stage' = "signed"
        /\ UNCHANGED <<builder, asked, keys, given, remaining, request>>

Privileged == /\ Signers \subseteq granted.signed
              /\ Written \subseteq granted.writable

Send == /\ stage = "signed"
        /\ stage' = IF Privileged THEN "delivered" ELSE "refused"
        /\ UNCHANGED <<builder, asked, keys, given, remaining, request,
                       granted, slips>>

----------------------------------------------------------------------------
(* The program. A role whose address is fixed, derived or stored takes no  *)
(* other account; the payer is whoever pays.                               *)

RoleTaken(role, key) == \/ role = "payer"
                        \/ key \in Meant(role)

AccountsTaken(handler) ==
  /\ Len(request) = Len(handler.roles)
  /\ \A i \in DOMAIN request :
       /\ RoleTaken(handler.roles[i], request[i].key)
       /\ handler.roles[i] \in handler.signers => request[i].key \in Signers
       /\ handler.roles[i] \in handler.written => request[i].key \in Written

\* Bytes read at another place than they were written at make no sense.
ArgumentsRead(handler) ==
  \A p \in DOMAIN handler.parsers :
    LET parser == handler.parsers[p] IN
    /\ Len(parser) =< Len(Arguments)
    /\ \A i \in DOMAIN parser : parser[i][2] = Arguments[i][2]

Accepted == \E handler \in Dispatch(builder.request.discriminator) :
              AccountsTaken(handler) /\ ArgumentsRead(handler)

Process == /\ stage = "delivered"
           /\ stage' = IF Accepted THEN "accepted" ELSE "rejected"
           /\ UNCHANGED <<builder, asked, keys, given, remaining, request,
                          granted, slips>>

Next == \/ SetAccount \/ SetWrongAccount \/ LeaveAccount
        \/ SetArguments
        \/ \E key \in Wallets \cup {"other"}, w, s \in BOOLEAN :
             AddRemainingAccount(key, w, s)
        \/ Instruct \/ Panic
        \/ \E i \in DOMAIN request : ForgetFlag(i)
        \/ Sign \/ Send \/ Process

Spec == Init /\ [][Next]_vars

----------------------------------------------------------------------------
(* Properties.                                                             *)

Stages == {"filling", "filled", "made", "panicked", "signed", "refused",
           "delivered", "accepted", "rejected"}

\* The state of a request: the fields of its builder, what was made of them
\* and who vouches for it.
TypeOK ==
  /\ builder \in Builders
  /\ DOMAIN keys \subseteq Names
  /\ given \subseteq ArgumentNames
  /\ stage \in Stages
  /\ asked \in 0 .. Len(Accounts)
  /\ request # <<>> => Len(request) = Len(Accounts) + Len(remaining)
  /\ granted.signed \subseteq Wallets
  /\ slips \in 0 .. MaxSlips

\* Who fills in every field, adds nothing and has all sign is served: client
\* and program agree on discriminators, on the order and number of accounts,
\* on the flags the handlers and the programs they call come to need, and on
\* the encoding of the arguments. Only events are not for callers.
CompleteRequestsServed ==
  stage \in {"panicked", "refused", "rejected"} =>
    slips > 0 \/ builder.request = EmitEvent \/ builder.request = EmitEventCpi

\* What is served is served as it was meant: every role of the handler is the
\* account field of that name and every value read is the argument of that
\* name, also where neither the kind of the account nor the bytes would tell.
NothingMisread ==
  stage = "accepted" =>
    \A handler \in Dispatch(builder.request.discriminator) :
      /\ \A i \in DOMAIN handler.roles : Accounts[i].name = handler.roles[i]
      /\ \A p \in DOMAIN handler.parsers :
           \A i \in DOMAIN handler.parsers[p] :
             handler.parsers[p][i][1] \in {"", Arguments[i][1]}

\* However the request came about, nothing is done in the name of an issuer
\* and nothing taken from a payer that has not signed.
ServedForSigners ==
  stage = "accepted" =>
    /\ "issuer" \in granted.signed
    /\ "payer" \in Names =>
         \/ KeyOf("payer") \in granted.signed
         \/ builder.request.discriminator \in {7, 11}

\* Events are the program's own word: emit_event is part of the interface,
\* but nobody outside can have it accepted.
EventsOnlyFromProgram ==
  stage = "accepted" => builder.request.discriminator # 228

=============================================================================
