-------------------------- MODULE GuideDemoProofs --------------------------
(***************************************************************************)
(* Theorems about GuideDemo, in four parts: the steps of a demo take       *)
(* effect once each and in their order, whatever the network does to their *)
(* transactions and the other parties to the ledger; the invariants of the *)
(* service and its registry hold while demos run; a demo finds on the      *)
(* ledger what its steps have put there and, when others act beside it, an *)
(* attestation that one of the two attesters vouches for, from which       *)
(* follow its verdicts, its panics and the rent that comes back; and no    *)
(* lamport of the airdrop is lost, whoever acts.                           *)
(*                                                                         *)
(* The first part uses nothing of what the transactions do: the order      *)
(* rests on the client, which sends one at a time, and on the runtime,     *)
(* which executes none twice.                                              *)
(***************************************************************************)
EXTENDS GuideDemo, RegistryProofs

----------------------------------------------------------------------------
(* The inductive invariant.                                                *)

(* What was committed is what the runtime remembers as committed.          *)
LogKept ==
  /\ log \in Seq(Transactions)
  /\ \A t \in Transactions : status[t] = "committed" <=> t \in Range(log)

(* The client does not go on before a step is committed, and sends nothing *)
(* for a step it has not come to.                                          *)
OneAhead ==
  /\ Taken(pc - 1) \subseteq Range(log)
  /\ Range(log) \subseteq sent
  /\ sent \subseteq Taken(pc)
  /\ phase \in {"ready", "fetched"} => sent \subseteq Taken(pc - 1)

PhaseFits ==
  /\ phase = "waiting" => Step \in Transactions
  /\ phase = "fetched" => Step \in Looks
  /\ phase = "done" => pc = Len(flow) /\ Range(log) = Taken(pc)

(* The runtime executes what was sent and has not been executed.           *)
RunningFits ==
  running \in Transactions => running \in sent /\ status[running] = "none"

Ordered == \A i, j \in DOMAIN log : i < j => Precedes(log[i], log[j])

DemoInv == /\ DemoTypeOK
           /\ LogKept
           /\ OneAhead
           /\ PhaseFits
           /\ RunningFits
           /\ Ordered

----------------------------------------------------------------------------
(* The lists of steps.                                                     *)

LEMMA FlowsFit ==
  ASSUME NEW f \in {StandardFlow, TokenizedFlow}
  PROVE  /\ Len(f) \in Nat \ {0}
         /\ DOMAIN f = 1 .. Len(f)
         /\ \A i, j \in DOMAIN f : f[i] = f[j] => i = j
<1>1. CASE f = StandardFlow
  <2>1. Len(f) = 7 /\ DOMAIN f = 1 .. 7
    BY <1>1 DEF StandardFlow
  <2>2. \A i, j \in 1 .. 7 : f[i] = f[j] => i = j
    BY <1>1, SMTT(30) DEF StandardFlow
  <2> QED BY <2>1, <2>2
<1>2. CASE f = TokenizedFlow
  <2>1. Len(f) = 8 /\ DOMAIN f = 1 .. 8
    BY <1>2 DEF TokenizedFlow
  <2>2. \A i, j \in 1 .. 8 : f[i] = f[j] => i = j
    BY <1>2, SMTT(30) DEF TokenizedFlow
  <2> QED BY <2>1, <2>2
<1> QED BY <1>1, <1>2

LEMMA TransactionsAreSteps ==
  /\ "none" \notin Transactions /\ "others" \notin Transactions
  /\ \A s \in Looks : s \notin Transactions
  /\ Transactions \subseteq Steps
<1>1. \A i \in DOMAIN StandardFlow : StandardFlow[i] \notin {"none", "others"}
  BY DEF StandardFlow
<1>2. \A i \in DOMAIN TokenizedFlow :
        TokenizedFlow[i] \notin {"none", "others"}
  BY DEF TokenizedFlow
<1> QED BY <1>1, <1>2 DEF Transactions, Steps

(* What a client may have sent grows by the step it comes to.              *)
LEMMA TakenGrows ==
  ASSUME DemoTypeOK
  PROVE  /\ pc \in 1 .. Len(flow) /\ Len(flow) \in Nat \ {0}
         /\ DOMAIN flow = 1 .. Len(flow)
         /\ Taken(pc) = Taken(pc - 1) \cup ({Step} \cap Transactions)
<1>1. pc \in 1 .. Len(flow) /\ Len(flow) \in Nat \ {0}
      /\ DOMAIN flow = 1 .. Len(flow)
  BY FlowsFit DEF DemoTypeOK
<1>2. 1 .. pc = (1 .. (pc - 1)) \cup {pc}
  BY <1>1
<1> HIDE DEF Transactions
<1> QED BY <1>1, <1>2 DEF Taken, Step

LEMMA DemoInvInit ==
  ASSUME DemoInit
  PROVE  DemoInv
<1>1. /\ flow \in {StandardFlow, TokenizedFlow}
      /\ pc = 1 /\ phase = "ready" /\ sent = {} /\ expired = {}
      /\ status = [t \in Transactions |-> "none"] /\ running = "none"
      /\ log = <<>> /\ answer = [u \in Users |-> "none"]
      /\ errors = {} /\ missed = {}
  BY DEF DemoInit
<1>2. 1 \in DOMAIN flow
  BY <1>1, FlowsFit
<1>3. DemoTypeOK
  BY <1>1, <1>2, TransactionsAreSteps DEF DemoTypeOK, Phases
<1>4. Range(log) = {} /\ log \in Seq(Transactions)
  BY <1>1 DEF Range
<1>5. Taken(pc - 1) = {}
  BY <1>1 DEF Taken
<1>6. OneAhead
  BY <1>1, <1>4, <1>5 DEF OneAhead
<1>7. LogKept
  BY <1>1, <1>4 DEF LogKept
<1>8. PhaseFits /\ RunningFits
  BY <1>1, TransactionsAreSteps DEF PhaseFits, RunningFits
<1>9. Ordered
  BY <1>1 DEF Ordered
<1> QED BY <1>3, <1>6, <1>7, <1>8, <1>9 DEF DemoInv

(* The next step, or the end, of a demo all of whose steps so far are      *)
(* committed.                                                              *)
LEMMA AdvanceGood ==
  ASSUME DemoInv, Advance, Taken(pc) \subseteq Range(log),
         UNCHANGED <<flow, sent, expired, status, running, log, errors,
                     missed>>,
         answer' \in [Users -> {"none", "verified", "not verified"}]
  PROVE  DemoInv'
<1> HIDE DEF Transactions
<1>1. /\ flow' = flow /\ sent' = sent /\ expired' = expired
      /\ status' = status /\ running' = running /\ log' = log
      /\ errors' = errors /\ missed' = missed
  OBVIOUS
<1>2. /\ pc \in 1 .. Len(flow) /\ Len(flow) \in Nat \ {0}
      /\ DOMAIN flow = 1 .. Len(flow)
  BY TakenGrows DEF DemoInv
<1>3. \/ pc = Len(flow) /\ phase' = "done" /\ pc' = pc
      \/ pc # Len(flow) /\ phase' = "ready" /\ pc' = pc + 1
  BY DEF Advance
<1>4. pc' \in DOMAIN flow
  <2>1. ASSUME NEW n \in Nat, NEW p \in 1 .. n, NEW q,
               \/ q = p
               \/ p # n /\ q = p + 1
        PROVE  q \in 1 .. n
    BY ONLY <2>1
  <2> QED BY <1>2, <1>3, <2>1
<1>5. DemoTypeOK'
  BY <1>1, <1>3, <1>4 DEF DemoInv, DemoTypeOK, Phases, Ended
<1>6. LogKept'
  BY <1>1 DEF DemoInv, LogKept
<1>7. RunningFits'
  BY <1>1 DEF DemoInv, RunningFits
<1>8. Ordered'
  <2>1. Ordered
    BY DEF DemoInv
  <2> QED BY ONLY <1>1, <2>1 DEF Ordered, Precedes
<1>9. Range(log) \subseteq sent /\ sent \subseteq Taken(pc)
  BY DEF DemoInv, OneAhead
<1>10. CASE phase' = "done"
  <2>1. pc' = pc /\ pc = Len(flow)
    BY <1>3, <1>10
  <2>2. Taken(pc)' = Taken(pc) /\ Taken(pc - 1)' = Taken(pc - 1)
    BY <1>1, <2>1 DEF Taken
  <2>3. OneAhead'
    BY <1>1, <1>10, <2>2 DEF DemoInv, OneAhead
  <2>4. PhaseFits'
    <3>1. Range(log) = Taken(pc)
      BY <1>9
    <3>2. Range(log)' = Range(log) /\ Len(flow)' = Len(flow)
      BY <1>1
    <3> QED BY ONLY <1>10, <2>1, <2>2, <3>1, <3>2 DEF PhaseFits
  <2> QED BY <1>5, <1>6, <1>7, <1>8, <2>3, <2>4 DEF DemoInv
<1>11. CASE phase' = "ready"
  <2>1. pc' = pc + 1
    BY <1>3, <1>11
  <2>2. Taken(pc - 1)' = Taken(pc)
    <3>1. pc' - 1 = pc
      BY ONLY <1>2, <2>1
    <3> QED BY ONLY <1>1, <3>1 DEF Taken
  <2>3. Taken(pc - 1)' \subseteq Taken(pc)'
    <3>1. 1 .. (pc' - 1) \subseteq 1 .. pc'
      BY ONLY <1>2, <2>1
    <3> QED BY ONLY <3>1 DEF Taken
  <2>4. OneAhead'
    BY <1>1, <1>9, <2>2, <2>3 DEF OneAhead
  <2>5. PhaseFits'
    BY <1>11 DEF PhaseFits
  <2> QED BY <1>5, <1>6, <1>7, <1>8, <2>4, <2>5 DEF DemoInv
<1> QED BY <1>3, <1>10, <1>11

(* Nothing that the invariant is about changes.                            *)
LEMMA DemoInvSame ==
  ASSUME DemoInv,
         UNCHANGED <<flow, pc, phase, sent, expired, status, running, log,
                     answer, errors, missed>>
  PROVE  DemoInv'
<1>1. /\ flow' = flow /\ pc' = pc /\ phase' = phase /\ sent' = sent
      /\ expired' = expired /\ status' = status /\ running' = running
      /\ log' = log /\ answer' = answer /\ errors' = errors
      /\ missed' = missed
  OBVIOUS
<1>2. DemoTypeOK'
  BY <1>1 DEF DemoInv, DemoTypeOK
<1>3. LogKept' /\ RunningFits'
  BY <1>1 DEF DemoInv, LogKept, RunningFits
<1>4. OneAhead' /\ PhaseFits'
  BY <1>1 DEF DemoInv, OneAhead, PhaseFits, Taken, Step
<1>5. Ordered'
  BY <1>1 DEF DemoInv, Ordered, Precedes
<1> QED BY <1>2, <1>3, <1>4, <1>5 DEF DemoInv

----------------------------------------------------------------------------
(* The client.                                                             *)

LEMMA SendGood ==
  ASSUME DemoInv, Send
  PROVE  DemoInv'
<1> HIDE DEF Transactions
<1>1. /\ phase = "ready" /\ Step \in Transactions
      /\ sent' = sent \cup {Step} /\ phase' = "waiting"
      /\ flow' = flow /\ pc' = pc /\ expired' = expired
      /\ status' = status /\ running' = running /\ log' = log
      /\ answer' = answer /\ errors' = errors /\ missed' = missed
  BY DEF Send
<1>2. Step' = Step /\ Taken(pc)' = Taken(pc) /\ Taken(pc - 1)' = Taken(pc - 1)
  BY <1>1 DEF Step, Taken
<1>3. Taken(pc) = Taken(pc - 1) \cup ({Step} \cap Transactions)
  BY TakenGrows DEF DemoInv
<1>4. DemoTypeOK'
  BY <1>1 DEF DemoInv, DemoTypeOK, Phases
<1>5. LogKept'
  BY <1>1 DEF DemoInv, LogKept
<1>6. OneAhead'
  BY <1>1, <1>2, <1>3 DEF DemoInv, OneAhead
<1>7. PhaseFits'
  BY <1>1, <1>2 DEF PhaseFits
<1>8. RunningFits'
  BY <1>1 DEF DemoInv, RunningFits
<1>9. Ordered'
  <2>1. Ordered
    BY DEF DemoInv
  <2> QED BY ONLY <1>1, <2>1 DEF Ordered, Precedes
<1> QED BY <1>4, <1>5, <1>6, <1>7, <1>8, <1>9 DEF DemoInv

LEMMA ConfirmGood ==
  ASSUME DemoInv, Confirm
  PROVE  DemoInv'
<1> HIDE DEF Transactions
<1>1. /\ phase = "waiting" /\ status[Step] = "committed" /\ Advance
      /\ UNCHANGED <<flow, sent, expired, status, running, log, errors,
                     missed>>
      /\ answer' = answer
  BY DEF Confirm
<1>2. Step \in Transactions
  BY <1>1 DEF DemoInv, PhaseFits
<1>3. Step \in Range(log)
  BY <1>1, <1>2 DEF DemoInv, LogKept
<1>4. Taken(pc) = Taken(pc - 1) \cup ({Step} \cap Transactions)
  BY TakenGrows DEF DemoInv
<1>5. Taken(pc) \subseteq Range(log)
  BY <1>3, <1>4 DEF DemoInv, OneAhead
<1>6. answer' \in [Users -> {"none", "verified", "not verified"}]
  BY <1>1 DEF DemoInv, DemoTypeOK
<1> QED BY ONLY DemoInv, <1>1, <1>5, <1>6, AdvanceGood

(* A look at the chain changes nothing there, so the client may go on.     *)
LEMMA LooksTakeNothing ==
  ASSUME DemoInv, Step \in Looks, phase \in {"ready", "fetched"}
  PROVE  Taken(pc) = Taken(pc - 1) /\ Taken(pc) \subseteq Range(log)
<1>1. Step \notin Transactions
  BY TransactionsAreSteps
<1> HIDE DEF Transactions
<1>2. Taken(pc) = Taken(pc - 1) \cup ({Step} \cap Transactions)
  BY TakenGrows DEF DemoInv
<1> QED BY <1>1, <1>2 DEF DemoInv, OneAhead

LEMMA JudgeGood ==
  ASSUME DemoInv, Judge
  PROVE  DemoInv'
<1>1. /\ phase = "fetched" /\ Advance
      /\ UNCHANGED <<flow, sent, expired, status, running, log, errors,
                     missed>>
      /\ answer' = [u \in Users |-> IF IsValid(copy[u]) THEN "verified"
                                    ELSE "not verified"]
  BY DEF Judge
<1>2. Step \in Looks
  BY <1>1 DEF DemoInv, PhaseFits
<1>3. Taken(pc) \subseteq Range(log)
  BY <1>1, <1>2, LooksTakeNothing
<1>4. answer' \in [Users -> {"none", "verified", "not verified"}]
  BY <1>1
<1> QED BY ONLY DemoInv, <1>1, <1>3, <1>4, AdvanceGood

(* The client stays at its step: it waits no more, or has fetched what it  *)
(* will judge.                                                             *)
LEMMA StayGood ==
  ASSUME DemoInv,
         flow' = flow, pc' = pc, sent' = sent, status' = status,
         running' = running, log' = log, answer' = answer,
         expired \subseteq expired', expired' \subseteq sent,
         errors' \subseteq Steps, missed' \subseteq Users,
         \/ phase' = phase
         \/ phase' \in {"failed", "panicked"}
         \/ phase' = "fetched" /\ phase = "ready" /\ Step \in Looks
  PROVE  DemoInv'
<1> HIDE DEF Transactions
<1>1. Step' = Step /\ Taken(pc)' = Taken(pc) /\ Taken(pc - 1)' = Taken(pc - 1)
  BY DEF Step, Taken
<1>2. DemoTypeOK'
  BY DEF DemoInv, DemoTypeOK, Phases, Ended
<1>3. LogKept'
  BY DEF DemoInv, LogKept
<1>4. OneAhead'
  BY <1>1 DEF DemoInv, OneAhead
<1>5. PhaseFits'
  BY <1>1 DEF DemoInv, PhaseFits
<1>6. RunningFits'
  BY DEF DemoInv, RunningFits
<1>7. Ordered'
  <2>1. Ordered
    BY DEF DemoInv
  <2> QED BY ONLY <2>1, flow' = flow, log' = log DEF Ordered, Precedes
<1> QED BY <1>2, <1>3, <1>4, <1>5, <1>6, <1>7 DEF DemoInv

LEMMA FailGood ==
  ASSUME DemoInv, Fail
  PROVE  DemoInv'
<1> HIDE DEF Transactions
<1>1. /\ phase = "waiting" /\ phase' = "failed"
      /\ flow' = flow /\ pc' = pc /\ sent' = sent /\ status' = status
      /\ running' = running /\ log' = log /\ answer' = answer
      /\ errors' = errors /\ missed' = missed
      /\ \/ expired' = expired
         \/ status[Step] = "committed" /\ expired' = expired \cup {Step}
  BY DEF Fail
<1>2. Step \in Transactions
  BY <1>1 DEF DemoInv, PhaseFits
<1>3. status[Step] = "committed" => Step \in sent
  BY <1>2 DEF DemoInv, LogKept, OneAhead
<1>4. expired \subseteq sent
  BY DEF DemoInv, DemoTypeOK
<1>5. expired \subseteq expired' /\ expired' \subseteq sent
  BY <1>1, <1>3, <1>4
<1>6. errors' \subseteq Steps /\ missed' \subseteq Users
  BY <1>1 DEF DemoInv, DemoTypeOK
<1> QED BY ONLY DemoInv, <1>1, <1>5, <1>6, StayGood

(* An RPC call of the step the client is at gives an error.                *)
LEMMA RpcErrorGood ==
  ASSUME DemoInv, RpcError
  PROVE  DemoInv'
<1>1. Step \in Steps
  BY TransactionsAreSteps DEF RpcError
<1> HIDE DEF Transactions
<1>2. /\ phase' = "failed"
      /\ flow' = flow /\ pc' = pc /\ sent' = sent /\ status' = status
      /\ running' = running /\ log' = log /\ answer' = answer
      /\ expired' = expired /\ missed' = missed
      /\ errors' = errors \cup {Step}
  BY DEF RpcError
<1>3. /\ expired \subseteq expired' /\ expired' \subseteq sent
      /\ errors' \subseteq Steps /\ missed' \subseteq Users
  BY <1>1, <1>2 DEF DemoInv, DemoTypeOK
<1> QED BY ONLY DemoInv, <1>2, <1>3, StayGood

LEMMA FetchGood ==
  ASSUME DemoInv, Fetch
  PROVE  DemoInv'
<1>1. /\ phase = "ready" /\ Step = "verify_attestation"
      /\ phase' = "fetched"
      /\ flow' = flow /\ pc' = pc /\ sent' = sent /\ expired' = expired
      /\ status' = status /\ running' = running /\ log' = log
      /\ answer' = answer /\ errors' = errors /\ missed' \subseteq Users
  BY DEF Fetch
<1>2. Step \in Looks
  BY <1>1 DEF Looks
<1>3. /\ expired \subseteq expired' /\ expired' \subseteq sent
      /\ errors' \subseteq Steps
  BY <1>1 DEF DemoInv, DemoTypeOK
<1> QED BY ONLY DemoInv, <1>1, <1>2, <1>3, StayGood

LEMMA VerifyTokenGood ==
  ASSUME DemoInv, VerifyToken
  PROVE  DemoInv'
<1>1. /\ phase = "ready" /\ Step \in Looks
      /\ flow' = flow /\ sent' = sent /\ expired' = expired
      /\ status' = status /\ running' = running /\ log' = log
      /\ answer' = answer /\ errors' = errors /\ missed' = missed
      /\ \/ Advance
         \/ phase' = "panicked" /\ pc' = pc
  BY DEF VerifyToken, Looks
<1>2. CASE Advance
  <2>1. Taken(pc) \subseteq Range(log)
    BY <1>1, LooksTakeNothing
  <2>2. answer' \in [Users -> {"none", "verified", "not verified"}]
    BY <1>1 DEF DemoInv, DemoTypeOK
  <2> QED BY ONLY DemoInv, <1>1, <1>2, <2>1, <2>2, AdvanceGood
<1>3. CASE phase' = "panicked" /\ pc' = pc
  <2>1. /\ expired \subseteq expired' /\ expired' \subseteq sent
        /\ errors' \subseteq Steps /\ missed' \subseteq Users
    BY <1>1 DEF DemoInv, DemoTypeOK
  <2> QED BY ONLY DemoInv, <1>1, <1>3, <2>1, StayGood
<1> QED BY <1>1, <1>2, <1>3

----------------------------------------------------------------------------
(* The network, the runtime and the others.                                *)

(* The client stays where it is, and so does what is sent and committed.   *)
LEMMA RunGood ==
  ASSUME DemoInv,
         UNCHANGED <<flow, pc, phase, sent, log, answer, errors, missed>>,
         status' = status,
         expired \subseteq expired', expired' \subseteq sent,
         running' \in Transactions \cup {"none", "others"},
         running' \in Transactions =>
           running' \in sent /\ status[running'] = "none"
  PROVE  DemoInv'
<1> HIDE DEF Transactions
<1>1. /\ flow' = flow /\ pc' = pc /\ phase' = phase /\ sent' = sent
      /\ log' = log /\ answer' = answer /\ errors' = errors
      /\ missed' = missed
  OBVIOUS
<1>2. Step' = Step /\ Taken(pc)' = Taken(pc) /\ Taken(pc - 1)' = Taken(pc - 1)
  BY <1>1 DEF Step, Taken
<1>3. DemoTypeOK'
  BY <1>1 DEF DemoInv, DemoTypeOK
<1>4. LogKept'
  BY <1>1 DEF DemoInv, LogKept
<1>5. OneAhead'
  BY <1>1, <1>2 DEF DemoInv, OneAhead
<1>6. PhaseFits'
  BY <1>1, <1>2 DEF DemoInv, PhaseFits
<1>7. RunningFits'
  BY <1>1 DEF RunningFits
<1>8. Ordered'
  <2>1. Ordered
    BY DEF DemoInv
  <2> QED BY ONLY <1>1, <2>1 DEF Ordered, Precedes
<1> QED BY <1>3, <1>4, <1>5, <1>6, <1>7, <1>8 DEF DemoInv

LEMMA DeliverGood ==
  ASSUME DemoInv, NEW step \in Transactions, Deliver(step)
  PROVE  DemoInv'
<1>1. /\ UNCHANGED <<flow, pc, phase, sent, log, answer, errors, missed>>
      /\ status' = status /\ expired' = expired /\ running' = step
      /\ step \in sent /\ status[step] = "none"
  BY DEF Deliver, Executable
<1>2. expired \subseteq expired' /\ expired' \subseteq sent
  BY <1>1 DEF DemoInv, DemoTypeOK
<1>3. running' \in Transactions \cup {"none", "others"}
  BY <1>1
<1> QED BY ONLY DemoInv, <1>1, <1>2, <1>3, RunGood

LEMMA ExpireGood ==
  ASSUME DemoInv, NEW step \in Transactions, Expire(step)
  PROVE  DemoInv'
<1>1. /\ UNCHANGED <<flow, pc, phase, sent, log, answer, errors, missed>>
      /\ status' = status /\ running' = running
      /\ step \in sent /\ expired' = expired \cup {step}
  BY DEF Expire
<1>2. expired \subseteq expired' /\ expired' \subseteq sent
  BY <1>1 DEF DemoInv, DemoTypeOK
<1>3. /\ running' \in Transactions \cup {"none", "others"}
      /\ running' \in Transactions =>
           running' \in sent /\ status[running'] = "none"
  BY <1>1 DEF DemoInv, DemoTypeOK, RunningFits
<1> QED BY ONLY DemoInv, <1>1, <1>2, <1>3, RunGood

(* The runtime takes up or puts down a transaction of the others.          *)
LEMMA OthersGood ==
  ASSUME DemoInv,
         \/ OthersEnd
         \/ \E wallet \in {Authority, Signer2, TestUser} : OthersBegin(wallet)
  PROVE  DemoInv'
<1>1. /\ UNCHANGED <<flow, pc, phase, sent, log, answer, errors, missed>>
      /\ status' = status /\ expired' = expired
      /\ running' \in {"none", "others"}
  BY DEF OthersEnd, OthersBegin
<1>2. expired \subseteq expired' /\ expired' \subseteq sent
  BY <1>1 DEF DemoInv, DemoTypeOK
<1>3. running' \notin Transactions
  BY <1>1, TransactionsAreSteps
<1>4. running' \in Transactions \cup {"none", "others"}
  BY <1>1
<1> QED BY ONLY DemoInv, <1>1, <1>2, <1>3, <1>4, RunGood

(* A transaction that is committed is that of the step the client is at:   *)
(* those of all earlier steps were, and none is twice.                     *)
LEMMA CommitStepGood ==
  ASSUME DemoInv, CommitStep
  PROVE  DemoInv'
<1> "none" \notin Transactions
  BY TransactionsAreSteps
<1> HIDE DEF Transactions
<1>1. /\ flow' = flow /\ pc' = pc /\ phase' = phase /\ sent' = sent
      /\ expired' = expired /\ answer' = answer /\ errors' = errors
      /\ missed' = missed
      /\ running \in Transactions /\ running' = "none"
      /\ status' = [status EXCEPT ![running] = "committed"]
      /\ log' = Append(log, running)
  BY DEF CommitStep
<1>2. running \in sent /\ status[running] = "none"
  BY <1>1 DEF DemoInv, RunningFits
<1>3. running \notin Range(log)
  BY <1>1, <1>2 DEF DemoInv, LogKept
<1>4. /\ Taken(pc - 1) \subseteq Range(log) /\ Range(log) \subseteq sent
      /\ sent \subseteq Taken(pc)
  BY DEF DemoInv, OneAhead
<1>5. Taken(pc) = Taken(pc - 1) \cup ({Step} \cap Transactions)
  BY TakenGrows DEF DemoInv
<1>6. running = Step
  BY <1>2, <1>3, <1>4, <1>5
<1>7. log \in Seq(Transactions)
  BY DEF DemoInv, LogKept
<1>8. /\ log' \in Seq(Transactions) /\ Len(log') = Len(log) + 1
      /\ \A i \in 1 .. Len(log) : log'[i] = log[i]
      /\ log'[Len(log) + 1] = running
  BY <1>1, <1>7
<1>9. Range(log') = Range(log) \cup {running}
  BY <1>7, <1>8 DEF Range
<1>10. Step' = Step /\ Taken(pc)' = Taken(pc)
       /\ Taken(pc - 1)' = Taken(pc - 1)
  BY <1>1 DEF Step, Taken
<1>11. DemoTypeOK'
  BY <1>1 DEF DemoInv, DemoTypeOK
<1>12. LogKept'
  <2>1. ASSUME NEW t \in Transactions
        PROVE  status'[t] = "committed" <=> t \in Range(log')
    <3>1. status \in [Transactions -> {"none", "committed", "failed"}]
      BY DEF DemoInv, DemoTypeOK
    <3>2. status[t] = "committed" <=> t \in Range(log)
      BY DEF DemoInv, LogKept
    <3> QED BY <1>1, <1>9, <3>1, <3>2
  <2> QED BY ONLY <1>8, <2>1 DEF LogKept
<1>13. OneAhead'
  <2>1. phase \notin {"ready", "fetched"}
    BY <1>2, <1>3, <1>4 DEF DemoInv, OneAhead
  <2> QED BY ONLY <1>1, <1>2, <1>4, <1>9, <1>10, <2>1 DEF OneAhead
<1>14. PhaseFits'
  <2>1. phase # "done"
    BY <1>2, <1>3, <1>4 DEF DemoInv, PhaseFits
  <2>2. PhaseFits
    BY DEF DemoInv
  <2> QED BY ONLY <1>1, <1>10, <2>1, <2>2 DEF PhaseFits
<1>15. RunningFits'
  BY <1>1 DEF RunningFits
<1>16. Ordered'
  <2>1. pc \in 1 .. Len(flow) /\ Len(flow) \in Nat
        /\ DOMAIN flow = 1 .. Len(flow)
    BY TakenGrows DEF DemoInv
  <2>2. ASSUME NEW i \in 1 .. Len(log)
        PROVE  Precedes(log[i], running)
    <3>1. log[i] \in Taken(pc) /\ log[i] # running
      BY <1>3, <1>4, <1>7 DEF Range
    <3>2. log[i] \in Taken(pc - 1)
      BY <1>5, <1>6, <3>1
    <3>3. PICK k \in 1 .. (pc - 1) : flow[k] = log[i]
      BY <3>2 DEF Taken
    <3>4. flow[pc] = running
      BY <1>6 DEF Step
    <3>5. k \in DOMAIN flow /\ pc \in DOMAIN flow /\ k < pc
      BY <2>1
    <3> QED BY ONLY <3>3, <3>4, <3>5 DEF Precedes
  <2>3. ASSUME NEW i \in DOMAIN log', NEW j \in DOMAIN log', i < j
        PROVE  Precedes(log'[i], log'[j])
    <3>1. i \in 1 .. Len(log) /\ j \in 1 .. Len(log) + 1
      BY <1>7, <1>8, <2>3
    <3>2. CASE j \in 1 .. Len(log)
      <4>1. Precedes(log[i], log[j])
        BY <1>7, <2>3, <3>1, <3>2 DEF DemoInv, Ordered
      <4> QED BY <1>8, <3>1, <3>2, <4>1
    <3>3. CASE j = Len(log) + 1
      BY <1>8, <2>2, <3>1, <3>3
    <3> QED BY <1>7, <3>1, <3>2, <3>3
  <2>4. ASSUME NEW s, NEW t, Precedes(s, t)
        PROVE  Precedes(s, t)'
    BY ONLY <1>1, <2>4 DEF Precedes
  <2> QED BY ONLY <2>3, <2>4 DEF Ordered
<1> QED BY <1>11, <1>12, <1>13, <1>14, <1>15, <1>16 DEF DemoInv

LEMMA AbortStepGood ==
  ASSUME DemoInv, AbortStep
  PROVE  DemoInv'
<1> "none" \notin Transactions
  BY TransactionsAreSteps
<1> HIDE DEF Transactions
<1>1. /\ flow' = flow /\ pc' = pc /\ phase' = phase /\ sent' = sent
      /\ expired' = expired /\ answer' = answer /\ log' = log
      /\ errors' = errors /\ missed' = missed
      /\ running \in Transactions /\ running' = "none"
      /\ status' = [status EXCEPT ![running] = "failed"]
  BY DEF AbortStep
<1>2. status[running] = "none"
  BY <1>1 DEF DemoInv, RunningFits
<1>3. Step' = Step /\ Taken(pc)' = Taken(pc) /\ Taken(pc - 1)' = Taken(pc - 1)
  BY <1>1 DEF Step, Taken
<1>4. DemoTypeOK'
  BY <1>1 DEF DemoInv, DemoTypeOK
<1>5. LogKept'
  <2>1. ASSUME NEW t \in Transactions
        PROVE  status'[t] = "committed" <=> t \in Range(log)
    <3>1. status \in [Transactions -> {"none", "committed", "failed"}]
      BY DEF DemoInv, DemoTypeOK
    <3>2. status[t] = "committed" <=> t \in Range(log)
      BY DEF DemoInv, LogKept
    <3> QED BY <1>1, <1>2, <3>1, <3>2
  <2> QED BY <1>1, <2>1 DEF DemoInv, LogKept
<1>6. OneAhead'
  BY <1>1, <1>3 DEF DemoInv, OneAhead
<1>7. PhaseFits'
  BY <1>1, <1>3 DEF DemoInv, PhaseFits
<1>8. RunningFits'
  BY <1>1 DEF RunningFits
<1>9. Ordered'
  <2>1. Ordered
    BY DEF DemoInv
  <2> QED BY ONLY <1>1, <2>1 DEF Ordered, Precedes
<1> QED BY <1>4, <1>5, <1>6, <1>7, <1>8, <1>9 DEF DemoInv

----------------------------------------------------------------------------
(* Theorems.                                                               *)

LEMMA DemoInvStep ==
  ASSUME DemoInv, [DemoNext]_demoAll
  PROVE  DemoInv'
<1>1. CASE Send
  BY <1>1, SendGood
<1>2. CASE Confirm
  BY <1>2, ConfirmGood
<1>3. CASE Fail
  BY <1>3, FailGood
<1>4. CASE Fetch
  BY <1>4, FetchGood
<1>5. CASE Judge
  BY <1>5, JudgeGood
<1>6. CASE VerifyToken
  BY <1>6, VerifyTokenGood
<1>7. CASE CommitStep
  BY <1>7, CommitStepGood
<1>8. CASE AbortStep
  BY <1>8, AbortStepGood
<1>9. CASE \/ OthersEnd
           \/ \E wallet \in {Authority, Signer2, TestUser} :
                OthersBegin(wallet)
  BY <1>9, OthersGood
<1>10. CASE Network
  BY <1>10, DeliverGood DEF Network
<1>11. CASE \E step \in Transactions : Expire(step)
  BY <1>11, ExpireGood
<1>12. CASE RpcError
  BY <1>12, RpcErrorGood
<1>13. CASE Execute \/ TimePasses \/ OthersAct \/ UNCHANGED demoAll
  <2>1. UNCHANGED demoVars
    BY <1>13 DEF Execute, TimePasses, OthersAct, demoAll
  <2> QED BY <2>1, DemoInvSame DEF demoVars
<1>14. CASE ClockSet
  BY <1>14, DemoInvSame DEF ClockSet
<1> QED
  BY <1>1, <1>2, <1>3, <1>4, <1>5, <1>6, <1>7, <1>8, <1>9, <1>10, <1>11,
     <1>12, <1>13, <1>14 DEF DemoNext, Demo, Runtime

(* The inductive invariant holds in every state of every run of a demo.    *)
THEOREM DemoInvariantHolds == DemoSpec => []DemoInv
<1>1. DemoInit => DemoInv
  BY DemoInvInit
<1>2. DemoInv /\ [DemoNext]_demoAll => DemoInv'
  BY DemoInvStep
<1> QED BY <1>1, <1>2, PTL DEF DemoSpec

(* The demo is at one of its steps, waits for what it has sent, and what   *)
(* the runtime remembers is of transactions.                               *)
THEOREM DemoTypesCorrect == DemoSpec => []DemoTypeOK
<1>1. DemoInv => DemoTypeOK
  BY DEF DemoInv
<1> QED BY <1>1, DemoInvariantHolds, PTL

(* However often a transaction is sent and however late it arrives, the    *)
(* steps take effect once each and in their order, and the demo, done or   *)
(* not, is at most one step behind.                                        *)
THEOREM StepsTakeEffectInOrder == DemoSpec => []EffectsInOrder
<1>1. ASSUME DemoInv
      PROVE  EffectsInOrder
  <2>1. /\ Taken(pc - 1) \subseteq Range(log)
        /\ Range(log) \subseteq Taken(pc)
        /\ Taken(pc) = Taken(pc - 1) \cup ({Step} \cap Transactions)
    BY <1>1, TakenGrows DEF DemoInv, OneAhead
  <2>2. Range(log) \in {Taken(pc - 1), Taken(pc)}
    BY ONLY <2>1
  <2>3. phase = "done" => Range(log) = Taken(Len(flow))
    BY <1>1 DEF DemoInv, PhaseFits
  <2>4. Ordered
    BY <1>1 DEF DemoInv
  <2> QED BY ONLY <2>2, <2>3, <2>4 DEF EffectsInOrder, Ordered
<1> QED BY <1>1, DemoInvariantHolds, PTL

----------------------------------------------------------------------------
(* The demos are clients of the service: what they do to the ledger, and   *)
(* what the others of their runs do, are steps of the service with         *)
(* arguments it knows, but for the airdrop, which brings lamports from     *)
(* outside.                                                                *)

EnvFits ==
  /\ env \in [drift : Drift, placeholder : PlaceholderLen,
              addresses : {j + k : j, k \in AddressLen}, expiry : Expiry]
  /\ clock \in 1 .. MaxClock

LEMMA DemoKeys ==
  /\ credential_pda \in CredentialAddress /\ credential_pda \in CredentialKey
  /\ schema_pda \in SchemaAddress
  /\ \A u \in Users : attestation_pda(u) \in AttestationAddress
  /\ attestation_pda(TestUser) # attestation_pda(RandomUser)
  /\ schema_mint_pda \in SchemaMintAddress
  /\ attestation_mint_pda \in AttestationMintAddress
  /\ recipient_token_account \in HoldingAddress
<1>1. credential_pda \in CredentialAddress /\ credential_pda \in CredentialKey
  BY DemoAssumption, ArgumentAssumption, BoundAssumption
     DEF credential_pda, CredentialPda, CredentialAddress, CredentialKey
<1> HIDE DEF credential_pda
<1>2. schema_pda \in SchemaAddress
  BY <1>1, ArgumentAssumption, LimitAssumption
     DEF schema_pda, SchemaPda, SchemaAddress
<1> HIDE DEF schema_pda
<1>3. \A u \in Users : attestation_pda(u) \in AttestationAddress
  BY <1>1, <1>2, DemoAssumption
     DEF Users, attestation_pda, AttestationPda, AttestationAddress
<1>4. attestation_pda(TestUser) # attestation_pda(RandomUser)
  BY ArgumentAssumption DEF attestation_pda, AttestationPda
<1>5. TestUser \in Users /\ TestUser \in Wallet
  BY DemoAssumption DEF Users
<1> HIDE DEF attestation_pda
<1>6. attestation_mint_pda \in AttestationMintAddress
  BY <1>3, <1>5, TokenAddresses DEF attestation_mint_pda
<1>7. schema_mint_pda \in SchemaMintAddress
  BY <1>2, TokenAddresses DEF schema_mint_pda
<1> HIDE DEF attestation_mint_pda
<1>8. recipient_token_account \in HoldingAddress
  BY <1>5, <1>6, TokenAddresses DEF recipient_token_account
<1> QED BY <1>1, <1>2, <1>3, <1>4, <1>6, <1>7, <1>8

LEMMA DemoValues ==
  ASSUME EnvFits
  PROVE  /\ SchemaMintSize \in MaxSize
         /\ MetadataWritten \in MetadataLen
         /\ AttestationMintSize \in MintSpace
         /\ env.expiry \in Expiry
<1>1. PICK j \in AddressLen, k \in AddressLen : env.addresses = j + k
  BY DEF EnvFits
<1>2. MetadataWritten \in MetadataLen
  BY <1>1, ArgumentAssumption DEF MetadataWritten
<1>3. env.placeholder \in PlaceholderLen /\ env.expiry \in Expiry
  BY DEF EnvFits
<1>4. AttestationMintSize \in MintSpace
  <2> DEFINE metadata == MetadataSize(2 * env.placeholder)
             base == MintSpaceCreated + MemberSpace
  <2>1. metadata \in Nat /\ base \in Nat
    <3>1. env.placeholder \in Nat
      BY <1>3, DemoAssumption
    <3> QED BY <3>1 DEF MetadataSize, MintSpaceCreated, MemberSpace
  <2>2. base + 12 + metadata \in MintSpace
    BY <1>3, ArgumentAssumption
  <2>3. AttestationMintSize = base + (12 + metadata)
    BY DEF AttestationMintSize, TokenMetadataSize
  <2> HIDE DEF metadata, base
  <2>4. base + (12 + metadata) = base + 12 + metadata
    BY <2>1
  <2> QED BY <2>2, <2>3, <2>4
<1> QED BY <1>2, <1>3, <1>4, ArgumentAssumption

(* The keypairs of a demo, as payers, signers and recipients.              *)
LEMMA DemoWallets ==
  /\ Payer \in Wallet /\ Authority \in Wallet /\ Signer1 \in Wallet
  /\ Signer2 \in Wallet /\ TestUser \in Wallet /\ TestUser \in Nonce
  /\ Authority \in Issuer /\ Payer \in Payee /\ Signer2 \in Payee
  /\ <<Signer1>> \in SignerList /\ <<Signer2>> \in SignerList
  /\ <<Signer1, Signer2>> \in SignerList
  /\ DemoName \in Name /\ DemoText \in Description /\ DemoLayout \in Layout
  /\ DemoFields \in FieldNames /\ DemoData \in Data /\ 0 \in Expiry
  /\ TestUser \in Recipient /\ TestUser \in Users /\ RandomUser \in Users
BY DemoAssumption, ArgumentAssumption DEF Users

(* The transactions of the demos are instructions of the service.          *)
LEMMA DemoInstructions ==
  ASSUME EnvFits
  PROVE  /\ create_credential => CredentialNext
         /\ update_authorized_signers => CredentialNext
         /\ create_schema => SchemaNext
         /\ create_attestation => AttestationNext
         /\ close_attestation => AttestationNext
         /\ tokenize_schema => TokenizationNext
         /\ create_tokenized_attestation => TokenizationNext
         /\ close_tokenized_attestation => TokenizationNext
<1>1. create_credential => CredentialNext
  BY DemoWallets DEF create_credential, CredentialNext
<1>2. update_authorized_signers => CredentialNext
  BY DemoWallets, DemoKeys DEF update_authorized_signers, CredentialNext
<1>3. create_schema => SchemaNext
  BY DemoWallets, DemoKeys DEF create_schema, SchemaNext
<1>4. create_attestation => AttestationNext
  BY DemoWallets, DemoKeys, DemoValues DEF create_attestation, AttestationNext
<1>5. close_attestation => AttestationNext
  BY DemoWallets, DemoKeys DEF close_attestation, AttestationNext
<1>6. tokenize_schema => TokenizationNext
  BY DemoWallets, DemoKeys, DemoValues DEF tokenize_schema, TokenizationNext
<1>7. create_tokenized_attestation => TokenizationNext
  BY DemoWallets, DemoKeys, DemoValues
     DEF create_tokenized_attestation, TokenizationNext
<1>8. close_tokenized_attestation => TokenizationNext
  BY DemoWallets, DemoKeys DEF close_tokenized_attestation, TokenizationNext
<1> QED BY <1>1, <1>2, <1>3, <1>4, <1>5, <1>6, <1>7, <1>8

LEMMA DemoInstructionIsStep ==
  ASSUME EnvFits, NEW step, DemoInstruction(step)
  PROVE  \/ fund_payer /\ UNCHANGED tokenVars
         \/ /\ CredentialNext \/ SchemaNext \/ AttestationNext
            /\ UNCHANGED tokenVars
         \/ TokenizationNext
BY DemoInstructions DEF DemoInstruction, PlainInstruction

LEMMA OthersInstructionIsStep ==
  ASSUME EnvFits, OthersInstruction
  PROVE  \/ /\ CredentialNext \/ SchemaNext \/ AttestationNext
            /\ UNCHANGED tokenVars
         \/ TokenizationNext
         \/ HolderNext
<1>1. ChangeSchemaStatus(credential_pda, schema_pda, TRUE) => SchemaNext
  BY DemoKeys DEF SchemaNext
<1>2. CloseAttestation(Signer2, credential_pda, attestation_pda(TestUser),
                       Signer2) => AttestationNext
  BY DemoWallets, DemoKeys DEF AttestationNext
<1>3. ASSUME NEW expiry \in {0, clock + Lifetime},
             CreateAttestation(Signer2, credential_pda, schema_pda, TestUser,
                               DemoData, expiry, Signer2)
      PROVE  AttestationNext
  <2>1. clock + 0 + Lifetime \in Expiry
    BY ArgumentAssumption DEF EnvFits
  <2>2. clock + 0 = clock
    BY BoundAssumption DEF EnvFits
  <2>3. expiry \in Expiry
    BY <2>1, <2>2, DemoWallets
  <2> QED BY <1>3, <2>3, DemoWallets, DemoKeys DEF AttestationNext
<1>4. BurnToken(recipient_token_account) => HolderNext
  BY DemoKeys DEF HolderNext
<1>5. ChangeAuthorizedSigners(credential_pda, <<Signer2>>, Authority)
        => CredentialNext
  BY DemoWallets, DemoKeys DEF CredentialNext
<1>6. CloseTokenizedAttestation(Signer2, credential_pda,
        attestation_pda(TestUser), recipient_token_account, Signer2)
        => TokenizationNext
  BY DemoWallets, DemoKeys DEF TokenizationNext
<1>7. ASSUME NEW amount \in TokenPayment,
             FundToken(Signer2, attestation_mint_pda, amount)
      PROVE  HolderNext
  <2>1. attestation_mint_pda \in TokenAddress
    BY DemoKeys, TokenAddresses
  <2> QED BY <1>7, <2>1, DemoWallets DEF HolderNext
<1> QED BY <1>1, <1>2, <1>3, <1>4, <1>5, <1>6, <1>7 DEF OthersInstruction

LEMMA StepIsServiceStep ==
  ASSUME EnvFits, [DemoNext]_demoAll
  PROVE  \/ [TokenizedNext]_allVars
         \/ Execute /\ fund_payer /\ UNCHANGED tokenVars
<1> HIDE DEF Transactions
<1>1. CASE \/ Send \/ Confirm \/ Fail \/ Fetch \/ Judge \/ VerifyToken
           \/ \E step \in Transactions : Expire(step)
           \/ RpcError \/ ClockSet \/ UNCHANGED demoAll
  <2>1. UNCHANGED Chained
    BY <1>1 DEF Send, Confirm, Fail, Fetch, Judge, VerifyToken, Expire,
                RpcError, ClockSet, demoAll
  <2> QED BY <2>1 DEF Chained, allVars
<1>2. CASE Execute
  BY <1>2, DemoInstructionIsStep DEF Execute, TokenizedNext, OtherNext
<1>3. CASE CommitStep \/ OthersEnd
  <2>1. CommitTokens \/ AbortTokens
    BY <1>3 DEF CommitStep, OthersEnd
  <2> QED BY <2>1 DEF TokenizedNext
<1>4. CASE AbortStep
  BY <1>4 DEF AbortStep, TokenizedNext
<1>5. ASSUME NEW step \in Transactions, Deliver(step)
      PROVE  TokenizedNext
  <2>1. SignersOf(step) \in {{Payer}, {Payer, Authority}, {Payer, Signer1}}
    BY DEF SignersOf
  <2>2. SignersOf(step) \in (SUBSET Wallet) \ {{}}
    BY <2>1, DemoWallets
  <2>3. Begin(SignersOf(step)) /\ UNCHANGED tokenVars
    BY <1>5 DEF Deliver, tokenVars
  <2> QED BY <2>2, <2>3 DEF TokenizedNext, OtherNext
<1>6. ASSUME NEW wallet \in {Authority, Signer2, TestUser}, OthersBegin(wallet)
      PROVE  TokenizedNext
  <2>1. {wallet} \in (SUBSET Wallet) \ {{}}
    BY DemoWallets
  <2>2. Begin({wallet}) /\ UNCHANGED tokenVars
    BY <1>6 DEF OthersBegin, tokenVars
  <2> QED BY <2>1, <2>2 DEF TokenizedNext, OtherNext
<1>7. CASE TimePasses
  <2>1. Tick /\ UNCHANGED tokenVars
    BY <1>7 DEF TimePasses, tokenVars
  <2> QED BY <2>1 DEF TokenizedNext, OtherNext
<1>8. CASE OthersAct
  BY <1>8, OthersInstructionIsStep DEF OthersAct, TokenizedNext, OtherNext
<1> QED BY <1>1, <1>2, <1>3, <1>4, <1>5, <1>6, <1>7, <1>8
     DEF DemoNext, Demo, Runtime, Network

(* The clock of the demo and the expiry it asks for.                       *)
LEMMA EnvFitsStep ==
  ASSUME EnvFits, TokenizedInv, [DemoNext]_demoAll
  PROVE  EnvFits'
<1> HIDE DEF Transactions
<1>1. clock' = clock \/ Tick
  <2>1. CASE [TokenizedNext]_allVars
    <3>1. ServiceStep
      BY <2>1, TokenizedStep
         DEF TokenizedInv, ServiceInv, TokensGood, RecordsGood, TokensTyped
    <3> QED BY <3>1
         DEF ServiceStep, GoodStep, Instruction, Begin, Commit, Abort, vars
  <2>2. CASE fund_payer
    BY <2>2 DEF fund_payer, Instruction
  <2> QED BY <2>1, <2>2, StepIsServiceStep
<1>2. clock' \in 1 .. MaxClock
  BY <1>1, BoundAssumption DEF EnvFits, Tick
<1>3. \/ env' = env
      \/ env' = [env EXCEPT !.expiry = LocalTime + Lifetime]
      \/ \E d \in Drift : env' = [env EXCEPT !.drift = d]
  BY DEF DemoNext, Demo, Runtime, Network, Send, Confirm, Fail, Fetch, Judge,
         VerifyToken, Execute, CommitStep, AbortStep, OthersEnd, Deliver,
         Expire, TimePasses, OthersBegin, OthersAct, RpcError, ClockSet,
         demoVars, demoAll
<1>4. LocalTime + Lifetime \in Expiry
  BY ArgumentAssumption DEF EnvFits, LocalTime
<1>5. env' \in [drift : Drift, placeholder : PlaceholderLen,
                addresses : {j + k : j, k \in AddressLen}, expiry : Expiry]
  BY <1>3, <1>4 DEF EnvFits
<1> QED BY <1>2, <1>5 DEF EnvFits

(* The airdrop is a payment like another to the service.                   *)
LEMMA AirdropGood ==
  ASSUME TokenizedInv, fund_payer, UNCHANGED tokenVars
  PROVE  TokenizedInv'
<1>1. InOrder /\ TokensGood(accounts, tokens)
  BY DEF TokenizedInv, ServiceInv, IInv, TypeOK, InOrder, AccountsGood
<1>2. Payer \in Address /\ Airdrop \in Nat
  BY DemoWallets, DemoAssumption, AddressKinds
<1>3. GoodStep
  BY <1>1, <1>2, ReceiptStep DEF fund_payer
<1>4. SameTokenized(accounts, accounts')
  BY <1>1, <1>3, QuietEffect DEF GoodStep, fund_payer
<1>5. tokens' = tokens /\ savedTokens' = savedTokens
  BY DEF tokenVars
<1>6. TokenStep
  BY <1>1, <1>4, <1>5, UntouchedTokens
<1> QED BY <1>3, <1>5, <1>6, InstructionTokens

LEMMA ServedInit ==
  ASSUME DemoInit
  PROVE  EnvFits /\ TokenizedInv
<1>1. TokenizedInit
  BY DEF DemoInit
<1>2. clock = 1 /\ 1 \in 1 .. MaxClock
  BY <1>1, ArgumentAssumption, BoundAssumption DEF TokenizedInit, Init
<1>3. EnvFits
  BY <1>2, ArgumentAssumption DEF DemoInit, EnvFits
<1> QED BY <1>1, <1>3, InitTokenizedInv

LEMMA ServedStep ==
  ASSUME EnvFits, TokenizedInv, [DemoNext]_demoAll
  PROVE  EnvFits' /\ TokenizedInv'
BY EnvFitsStep, StepIsServiceStep, AirdropGood, StepTokenizedInv

LEMMA ServedThroughout == DemoSpec => [](EnvFits /\ TokenizedInv)
<1>1. DemoInit => EnvFits /\ TokenizedInv
  BY ServedInit
<1>2. EnvFits /\ TokenizedInv /\ [DemoNext]_demoAll =>
        EnvFits' /\ TokenizedInv'
  BY ServedStep
<1> QED BY <1>1, <1>2, PTL DEF DemoSpec

LEMMA ServedOrder ==
  ASSUME TokenizedInv
  PROVE  /\ InOrder /\ TokensTyped /\ IInv
         /\ accounts \in [Address -> Account]
         /\ DOMAIN accounts = Address /\ DOMAIN tokens = TokenAddress
         /\ TotalLamports(accounts) \in Int /\ TotalLamports(tokens) \in Int
<1>1. InOrder /\ TokensTyped /\ IInv
  BY DEF TokenizedInv, ServiceInv, TokensGood, RecordsGood, TokensTyped, IInv,
         TypeOK, InOrder, AccountsGood
<1>2. accounts \in [Address -> Account]
  BY <1>1 DEF InOrder, AccountsGood
<1>3. DOMAIN accounts = Address /\ DOMAIN tokens = TokenAddress
  BY <1>1, <1>2 DEF TokensTyped
<1>4. TotalLamports(accounts) \in Int
  <2>1. PICK g : /\ SumsUp(g, [x \in Address |-> accounts[x].lamports], Address)
                 /\ TotalLamports(accounts) = g[Address]
    BY <1>2, BalanceType, TotalIsSum
  <2> QED BY <2>1 DEF SumsUp
<1>5. TotalLamports(tokens) \in Int
  <2>1. PICK g : /\ SumsUp(g, [x \in TokenAddress |-> tokens[x].lamports],
                           TokenAddress)
                 /\ TotalLamports(tokens) = g[TokenAddress]
    BY <1>1, TokenBalances, TotalIsSum DEF TokensTyped
  <2> QED BY <2>1 DEF SumsUp
<1> QED BY <1>1, <1>2, <1>3, <1>4, <1>5

(* While the demos run, the issuer and the holder acting beside them,      *)
(* transactions lost, late, or refused, all that was shown of the service  *)
(* holds of its accounts, in the middle of a transaction too.              *)
THEOREM InvariantsInDemos ==
  DemoSpec => []( /\ TypeOK /\ PdaBinding /\ Lineage /\ VersionsContiguous
                  /\ AttestationsConform /\ DataFitsAccount /\ RentExempt
                  /\ EventAccounting
                  /\ TokensTypeOK /\ MintsMatchAttestations
                  /\ SupplyAtTokenAccount /\ MembersDistinct
                  /\ TokenAccountsExempt )
<1>1. TokenizedInv => /\ TypeOK /\ PdaBinding /\ Lineage /\ VersionsContiguous
                      /\ AttestationsConform /\ DataFitsAccount /\ RentExempt
                      /\ EventAccounting
  BY ServiceGuarantees DEF TokenizedInv
<1> QED BY <1>1, TokenGuarantees, ServedThroughout, PTL

(* And nothing is committed in them that the signers of the transaction    *)
(* are not entitled to, nor under a paused schema, nor at the expense of   *)
(* others; what is permanent stays.                                        *)
THEOREM TransactionsInDemos ==
  DemoSpec => /\ SchemasPermanent /\ OnlyAuthorisedChanges
              /\ PausedSchemasFrozen /\ FundsSafe
<1>1. ASSUME EnvFits, TokenizedInv, [DemoNext]_demoAll
      PROVE  /\ [SchemasKept]_saved
             /\ [ChangesAuthorised]_saved
             /\ [PauseRespected]_saved
             /\ [FundsKept]_saved
  <2>1. CASE [TokenizedNext]_allVars
    BY <1>1, <2>1, TokenizedStepSafe
  <2>2. CASE fund_payer
    BY <2>2 DEF fund_payer, Instruction
  <2> QED BY <1>1, <2>1, <2>2, StepIsServiceStep
<1>2. EnvFits /\ TokenizedInv /\ [DemoNext]_demoAll => [SchemasKept]_saved
  BY <1>1
<1>3. EnvFits /\ TokenizedInv /\ [DemoNext]_demoAll => [ChangesAuthorised]_saved
  BY <1>1
<1>4. EnvFits /\ TokenizedInv /\ [DemoNext]_demoAll => [PauseRespected]_saved
  BY <1>1
<1>5. EnvFits /\ TokenizedInv /\ [DemoNext]_demoAll => [FundsKept]_saved
  BY <1>1
<1> QED BY <1>2, <1>3, <1>4, <1>5, ServedThroughout, PTL
     DEF DemoSpec, SchemasPermanent, OnlyAuthorisedChanges,
         PausedSchemasFrozen, FundsSafe

(* The holder may burn the token while the demo runs, and before the demo  *)
(* closes it: the attestation then stays, and no place in the group is     *)
(* given out twice.                                                        *)
THEOREM TokensInDemos == DemoSpec => BurnedForGood /\ PlacesUsedOnce
<1>1. ASSUME EnvFits, TokenizedInv, [DemoNext]_demoAll
      PROVE  [BurnsKept]_savedTokens /\ [PlacesCounted]_savedTokens
  <2>1. savedTokens' # savedTokens => CommitTokens
    <3>1. CASE [TokenizedNext]_allVars
      BY <3>1, OnlyCommitSavesTokens
    <3>2. CASE UNCHANGED tokenVars
      BY <3>2 DEF tokenVars
    <3> QED BY <1>1, <3>1, <3>2, StepIsServiceStep
  <2> QED BY <1>1, <2>1, CommitKeepsBurns, CommitCountsPlaces
<1>2. EnvFits /\ TokenizedInv /\ [DemoNext]_demoAll => [BurnsKept]_savedTokens
  BY <1>1
<1>3. EnvFits /\ TokenizedInv /\ [DemoNext]_demoAll =>
        [PlacesCounted]_savedTokens
  BY <1>1
<1> QED BY <1>2, <1>3, ServedThroughout, PTL
     DEF DemoSpec, BurnedForGood, PlacesUsedOnce

(* To everyone who reads the chain the demos, and the parties that act     *)
(* beside them, are one registry: the airdrop, the transactions in flight  *)
(* and those that fail do not show.                                        *)
THEOREM RegistryInDemos == DemoSpec => ImplementsRegistry
<1>1. DemoInit => R!Init
  BY InitIsRegistryInit DEF DemoInit, TokenizedInit
<1>2. ASSUME EnvFits, TokenizedInv, [DemoNext]_demoAll
      PROVE  [R!Next]_(R!vars)
  <2>1. IInv /\ TokensTyped /\ InOrder
    BY <1>2, ServedOrder
  <2>2. ServiceStep
    <3>1. CASE [TokenizedNext]_allVars
      BY <2>1, <3>1, TokenizedStep
    <3>2. CASE fund_payer
      <4>1. Payer \in Address /\ Airdrop \in Nat
        BY DemoWallets, DemoAssumption, AddressKinds
      <4>2. GoodStep
        BY <2>1, <3>2, <4>1, ReceiptStep DEF fund_payer
      <4> QED BY <4>2 DEF ServiceStep
    <3> QED BY <1>2, <3>1, <3>2, StepIsServiceStep
  <2> QED BY <2>1, <2>2, ServiceStepIsRegistryStep
<1>3. EnvFits /\ TokenizedInv /\ [DemoNext]_demoAll => [R!Next]_(R!vars)
  BY <1>2
<1> QED BY <1>1, <1>3, ServedThroughout, PTL
     DEF DemoSpec, ImplementsRegistry, R!Spec

----------------------------------------------------------------------------
(* What is on the ledger at each step of a demo that nobody interferes     *)
(* with.                                                                   *)

Closing == {"close_attestation", "close_tokenized_attestation"}

(* Of the steps of S, which created or closed the attestation, its mint.   *)
Live(S) == Issuing \cap S # {} /\ Closing \cap S = {}
Minted(S) == /\ "create_tokenized_attestation" \in S
             /\ "close_tokenized_attestation" \notin S

Used == {credential_pda, schema_pda, attestation_pda(TestUser), Payer}
UsedTokens == {schema_mint_pda, attestation_mint_pda, recipient_token_account}

(* Once the steps of S are done there is nothing at an address the demo    *)
(* does not use, the attestation is there while it is live, with the       *)
(* expiry it was asked for with, and so is its mint, and all lamports are  *)
(* of the airdrop.                                                         *)
StageIn(ledger, toks, expiry, S) ==
  /\ \A x \in Address \ Used : ledger[x] = Vacant
  /\ \A t \in TokenAddress \ UsedTokens : toks[t] = Vacant
  /\ Live(S) => /\ ledger[attestation_pda(TestUser)].data.kind = "attestation"
                /\ ledger[attestation_pda(TestUser)].data.expiry = expiry
  /\ ~Live(S) => ledger[attestation_pda(TestUser)] = Vacant
  /\ Minted(S) => toks[attestation_mint_pda].data.kind = "mint"
  /\ ~Minted(S) => toks[attestation_mint_pda] = Vacant
  /\ TotalLamports(ledger) + TotalLamports(toks)
       = IF "fund_payer" \in S THEN Airdrop ELSE 0

(* The steps whose instruction was executed, the running one included.     *)
Executed == IF running \in Transactions /\ ixs = 1
              THEN Range(log) \cup {running} ELSE Range(log)

Staged ==
  others = 0 =>
    /\ StageIn(saved.accounts, savedTokens, env.expiry, Range(log))
    /\ StageIn(accounts, tokens, env.expiry, Executed)

OneInstruction ==
  /\ others \in Nat
  /\ running = "others" => others > 0
  /\ running \in Transactions => ixs \in {0, 1}

(* What was fetched, if it was, is what there still was to judge.          *)
CopyRight ==
  phase = "fetched" /\ others = 0 /\ TestUser \notin missed =>
    /\ copy[TestUser].kind = "attestation"
    /\ copy[TestUser].expiry = env.expiry

LedgerFollows == OneInstruction /\ Staged /\ CopyRight

(* In both lists the attestation is looked at after it is issued and       *)
(* before it is closed, which is the last step.                            *)
LEMMA FlowOrder ==
  ASSUME NEW f \in {StandardFlow, TokenizedFlow}, NEW n \in DOMAIN f
  PROVE  /\ f[n] \in Issuing =>
              \A i \in 1 .. (n - 1) : f[i] \notin Issuing \cup Closing
         /\ f[n] = "verify_attestation" =>
              /\ \E i \in 1 .. (n - 1) : f[i] \in Issuing
              /\ \A i \in 1 .. (n - 1) : f[i] \notin Closing
         /\ f[n] = "verify_token_attestation" =>
              /\ \E i \in 1 .. (n - 1) : f[i] = "create_tokenized_attestation"
              /\ \A i \in 1 .. (n - 1) : f[i] \notin Closing
         /\ n = Len(f) =>
              /\ \E i \in 1 .. n : f[i] = "fund_payer"
              /\ f[n] \in Closing
              /\ f[n] # "close_tokenized_attestation" =>
                   \A i \in 1 .. n : f[i] # "create_tokenized_attestation"
<1>1. CASE f = StandardFlow
  <2>1. Len(f) = 7 /\ DOMAIN f = 1 .. 7
    BY <1>1 DEF StandardFlow
  <2>2. /\ f[1] = "fund_payer" /\ f[2] = "create_credential"
        /\ f[3] = "create_schema" /\ f[4] = "create_attestation"
        /\ f[5] = "update_authorized_signers" /\ f[6] = "verify_attestation"
        /\ f[7] = "close_attestation"
    BY <1>1 DEF StandardFlow
  <2> QED BY ONLY <2>1, <2>2, n \in DOMAIN f, SMTT(60) DEF Issuing, Closing
<1>2. CASE f = TokenizedFlow
  <2>1. Len(f) = 8 /\ DOMAIN f = 1 .. 8
    BY <1>2 DEF TokenizedFlow
  <2>2. /\ f[1] = "fund_payer" /\ f[2] = "create_credential"
        /\ f[3] = "create_schema" /\ f[4] = "tokenize_schema"
        /\ f[5] = "create_tokenized_attestation"
        /\ f[6] = "verify_attestation" /\ f[7] = "verify_token_attestation"
        /\ f[8] = "close_tokenized_attestation"
    BY <1>2 DEF TokenizedFlow
  <2> QED BY ONLY <2>1, <2>2, n \in DOMAIN f, SMTT(60) DEF Issuing, Closing
<1> QED BY <1>1, <1>2

LEMMA KindsOfSteps ==
  /\ Issuing \subseteq Transactions /\ Closing \subseteq Transactions
  /\ "fund_payer" \in Transactions
<1>1. /\ StandardFlow[1] = "fund_payer" /\ 1 \in DOMAIN StandardFlow
      /\ StandardFlow[4] = "create_attestation" /\ 4 \in DOMAIN StandardFlow
      /\ StandardFlow[7] = "close_attestation" /\ 7 \in DOMAIN StandardFlow
  BY DEF StandardFlow
<1>2. /\ TokenizedFlow[5] = "create_tokenized_attestation"
      /\ 5 \in DOMAIN TokenizedFlow
      /\ TokenizedFlow[8] = "close_tokenized_attestation"
      /\ 8 \in DOMAIN TokenizedFlow
  BY DEF TokenizedFlow
<1> QED BY <1>1, <1>2 DEF Issuing, Closing, Transactions, Steps, Looks

(* What has been done when the demo comes to a step.                       *)
LEMMA DoneBefore ==
  ASSUME DemoInv
  PROVE  /\ Step \in Issuing => Taken(pc - 1) \cap (Issuing \cup Closing) = {}
         /\ Step = "verify_attestation" => Live(Taken(pc - 1))
         /\ Step = "verify_token_attestation" => Minted(Taken(pc - 1))
         /\ pc = Len(flow) => /\ "fund_payer" \in Taken(pc)
                              /\ ~Live(Taken(pc)) /\ ~Minted(Taken(pc))
<1> HIDE DEF Transactions
<1>1. flow \in {StandardFlow, TokenizedFlow} /\ pc \in DOMAIN flow
  BY DEF DemoInv, DemoTypeOK
<1>2. pc \in 1 .. Len(flow) /\ Len(flow) \in Nat
  BY TakenGrows DEF DemoInv
<1>3. CASE Step \in Issuing
  <2>1. \A i \in 1 .. (pc - 1) : flow[i] \notin Issuing \cup Closing
    BY <1>1, <1>3, FlowOrder DEF Step
  <2>2. Taken(pc - 1) \cap (Issuing \cup Closing) = {}
    BY <2>1 DEF Taken
  <2>3. Step \notin Looks
    BY <1>3 DEF Issuing, Looks
  <2>4. pc # Len(flow)
    <3>1. pc = Len(flow) => Step \in Closing
      BY <1>1, FlowOrder DEF Step
    <3> QED BY <1>3, <3>1 DEF Issuing, Closing
  <2> QED BY <2>2, <2>3, <2>4 DEF Looks
<1>4. CASE Step = "verify_attestation"
  <2>1. /\ \E i \in 1 .. (pc - 1) : flow[i] \in Issuing
        /\ \A i \in 1 .. (pc - 1) : flow[i] \notin Closing
    BY <1>1, <1>4, FlowOrder DEF Step
  <2>2. Live(Taken(pc - 1))
    BY <2>1, KindsOfSteps DEF Taken, Live
  <2>3. pc # Len(flow)
    <3>1. pc = Len(flow) => Step \in Closing
      BY <1>1, FlowOrder DEF Step
    <3> QED BY <1>4, <3>1 DEF Closing
  <2> QED BY <1>4, <2>2, <2>3 DEF Issuing
<1>6. CASE Step = "verify_token_attestation"
  <2>1. /\ \E i \in 1 .. (pc - 1) : flow[i] = "create_tokenized_attestation"
        /\ \A i \in 1 .. (pc - 1) : flow[i] \notin Closing
    BY <1>1, <1>6, FlowOrder DEF Step
  <2>2. Minted(Taken(pc - 1))
    BY <2>1, KindsOfSteps DEF Taken, Minted, Issuing, Closing
  <2>3. pc # Len(flow)
    <3>1. pc = Len(flow) => Step \in Closing
      BY <1>1, FlowOrder DEF Step
    <3> QED BY <1>6, <3>1 DEF Closing
  <2> QED BY <1>6, <2>2, <2>3 DEF Issuing
<1>5. CASE pc = Len(flow)
  <2>1. /\ \E i \in 1 .. pc : flow[i] = "fund_payer"
        /\ flow[pc] \in Closing
        /\ flow[pc] # "close_tokenized_attestation" =>
             \A i \in 1 .. pc : flow[i] # "create_tokenized_attestation"
    BY <1>1, <1>5, FlowOrder
  <2>2. pc \in 1 .. pc
    BY <1>2
  <2>3. flow[pc] \in Taken(pc) /\ "fund_payer" \in Taken(pc)
    BY <2>1, <2>2, KindsOfSteps DEF Taken
  <2>4. ~Live(Taken(pc)) /\ ~Minted(Taken(pc))
    BY <2>1, <2>3 DEF Live, Minted, Taken
  <2>5. Step \notin Issuing /\ Step \notin Looks
    BY <2>1 DEF Step, Issuing, Closing, Looks
  <2> QED BY <2>3, <2>4, <2>5 DEF Looks
<1> QED BY <1>3, <1>4, <1>5, <1>6

(* What runs is the transaction the client waits for, or has given up.     *)
LEMMA RunningIsNext ==
  ASSUME DemoInv, running \in Transactions
  PROVE  /\ running = Step /\ running \notin Range(log)
         /\ Range(log) = Taken(pc - 1)
         /\ phase \notin {"ready", "fetched", "done"}
<1> HIDE DEF Transactions
<1>1. running \in sent /\ status[running] = "none"
  BY DEF DemoInv, RunningFits
<1>2. running \notin Range(log)
  BY <1>1 DEF DemoInv, LogKept
<1>3. /\ Taken(pc - 1) \subseteq Range(log) /\ Range(log) \subseteq sent
      /\ sent \subseteq Taken(pc)
      /\ phase \in {"ready", "fetched"} => sent \subseteq Taken(pc - 1)
  BY DEF DemoInv, OneAhead
<1>4. Taken(pc) = Taken(pc - 1) \cup ({Step} \cap Transactions)
  BY TakenGrows DEF DemoInv
<1>5. phase # "done"
  BY <1>1, <1>2, <1>3 DEF DemoInv, PhaseFits
<1> QED BY ONLY <1>1, <1>2, <1>3, <1>4, <1>5

(* What an operation on the ledger leaves alone.                           *)
OnlyWritten(l1, l2, X) == \A x \in DOMAIN l1 \ X : l2[x] = l1[x]

LEMMA WrittenAt ==
  ASSUME NEW ledger, NEW payer, NEW a
  PROVE  /\ \A n : OnlyWritten(ledger, Debit(ledger, payer, n), {payer})
         /\ \A n : OnlyWritten(ledger, Credit(ledger, payer, n), {payer})
         /\ \A space, data :
              OnlyWritten(ledger, Create(ledger, payer, a, space, data),
                          {payer, a})
         /\ \A space, data :
              OnlyWritten(ledger, Resize(ledger, payer, a, space, data),
                          {payer, a})
         /\ OnlyWritten(ledger, Close(ledger, a, payer), {payer, a})
<1>1. ASSUME NEW n
      PROVE  /\ DOMAIN Debit(ledger, payer, n) = DOMAIN ledger
             /\ DOMAIN Credit(ledger, payer, n) = DOMAIN ledger
             /\ \A x \in DOMAIN ledger \ {payer} :
                  /\ Debit(ledger, payer, n)[x] = ledger[x]
                  /\ Credit(ledger, payer, n)[x] = ledger[x]
  BY DEF Debit, Credit
<1>2. ASSUME NEW n
      PROVE  /\ DOMAIN Transfer(ledger, payer, a, n) = DOMAIN ledger
             /\ \A x \in DOMAIN ledger \ {payer, a} :
                  Transfer(ledger, payer, a, n)[x] = ledger[x]
  BY <1>1 DEF Transfer, Credit
<1>3. \A space, data : \A x \in DOMAIN ledger \ {payer, a} :
        /\ Create(ledger, payer, a, space, data)[x] = ledger[x]
        /\ Resize(ledger, payer, a, space, data)[x] = ledger[x]
  BY <1>2 DEF Create, Resize
<1>4. \A x \in DOMAIN ledger \ {payer, a} :
        Close(ledger, a, payer)[x] = ledger[x]
  BY <1>1 DEF Close
<1> QED BY <1>1, <1>3, <1>4 DEF OnlyWritten

LEMMA DemoAddressesApart ==
  /\ {credential_pda, schema_pda, Payer} \subseteq Address
  /\ \A u \in Users : /\ attestation_pda(u) \in Address
                      /\ attestation_pda(u) # credential_pda
                      /\ attestation_pda(u) # schema_pda
                      /\ attestation_pda(u) # Payer
  /\ attestation_pda(TestUser) # attestation_pda(RandomUser)
  /\ UsedTokens \subseteq TokenAddress
  /\ attestation_mint_pda # schema_mint_pda
  /\ attestation_mint_pda # recipient_token_account
  /\ schema_mint_pda # recipient_token_account
<1>1. /\ credential_pda \in CredentialAddress /\ schema_pda \in SchemaAddress
      /\ Payer \in Wallet
      /\ \A u \in Users : attestation_pda(u) \in AttestationAddress
  BY DemoKeys, DemoWallets
<1>2. \A u \in Users : /\ attestation_pda(u) # credential_pda
                       /\ attestation_pda(u) # schema_pda
                       /\ attestation_pda(u) # Payer
  BY <1>1, AddressesDisjoint
<1>3. /\ {credential_pda, schema_pda, Payer} \subseteq Address
      /\ \A u \in Users : attestation_pda(u) \in Address
  BY <1>1, AddressKinds
<1>4. /\ schema_mint_pda \in SchemaMintAddress
      /\ attestation_mint_pda \in AttestationMintAddress
      /\ recipient_token_account \in HoldingAddress
  BY DemoKeys
<1>5. UsedTokens \subseteq TokenAddress
  BY <1>4, TokenAddresses DEF UsedTokens
<1>6. /\ attestation_mint_pda # schema_mint_pda
      /\ attestation_mint_pda # recipient_token_account
      /\ schema_mint_pda # recipient_token_account
  BY <1>4, TokenKindsApart
<1> QED BY <1>2, <1>3, <1>5, <1>6, DemoKeys

(* A step that leaves the attestation and its mint alone.                  *)
LEMMA StageKept ==
  ASSUME NEW l1, NEW t1, NEW l2, NEW t2, NEW expiry, NEW S,
         StageIn(l1, t1, expiry, S),
         NEW step, step \notin Issuing \cup Closing, step \notin S,
         \A x \in Address \ {credential_pda, schema_pda, Payer} :
           l2[x] = l1[x],
         \A t \in TokenAddress \ {schema_mint_pda} : t2[t] = t1[t],
         TotalLamports(l2) + TotalLamports(t2)
           = (TotalLamports(l1) + TotalLamports(t1))
               + IF step = "fund_payer" THEN Airdrop ELSE 0
  PROVE  StageIn(l2, t2, expiry, S \cup {step})
<1>1. /\ Live(S \cup {step}) <=> Live(S)
      /\ Minted(S \cup {step}) <=> Minted(S)
  BY DEF Live, Minted, Issuing, Closing
<1>2. l2[attestation_pda(TestUser)] = l1[attestation_pda(TestUser)]
  BY DemoAddressesApart, DemoWallets
<1>3. t2[attestation_mint_pda] = t1[attestation_mint_pda]
  BY DemoAddressesApart DEF UsedTokens
<1>4. \A x \in Address \ Used : l2[x] = Vacant
  BY DEF StageIn, Used
<1>5. \A t \in TokenAddress \ UsedTokens : t2[t] = Vacant
  BY DEF StageIn, UsedTokens
<1>6. TotalLamports(l2) + TotalLamports(t2)
        = IF "fund_payer" \in S \cup {step} THEN Airdrop ELSE 0
  <2>1. TotalLamports(l1) + TotalLamports(t1)
          = IF "fund_payer" \in S THEN Airdrop ELSE 0
    BY DEF StageIn
  <2>2. Airdrop \in Nat
    BY DemoAssumption
  <2>3. CASE step = "fund_payer"
    <3>1. TotalLamports(l2) + TotalLamports(t2) = 0 + Airdrop
      BY <2>1, <2>3
    <3> QED BY <2>2, <2>3, <3>1
  <2>4. CASE step # "fund_payer"
    <3>1. "fund_payer" \in S \cup {step} <=> "fund_payer" \in S
      BY <2>4
    <3>2. (IF "fund_payer" \in S THEN Airdrop ELSE 0) \in Nat
      BY <2>2
    <3>3. TotalLamports(l2) + TotalLamports(t2)
            = (IF "fund_payer" \in S THEN Airdrop ELSE 0) + 0
      BY <2>1, <2>4
    <3> QED BY <3>1, <3>2, <3>3
  <2> QED BY <2>3, <2>4
<1> QED BY ONLY StageIn(l1, t1, expiry, S), <1>1, <1>2, <1>3, <1>4, <1>5, <1>6
       DEF StageIn

(* The steps that set up the credential and the schema.                    *)
LEMMA SetUpStages ==
  ASSUME EnvFits, TokenizedInv, TokensTyped',
         NEW S, StageIn(accounts, tokens, env.expiry, S),
         NEW step, step \notin Issuing \cup Closing, step \notin S,
         DemoInstruction(step)
  PROVE  StageIn(accounts', tokens', env.expiry, S \cup {step})
<1>1. /\ InOrder /\ TokensTyped /\ accounts \in [Address -> Account]
      /\ DOMAIN accounts = Address /\ DOMAIN tokens = TokenAddress
      /\ TotalLamports(accounts) \in Int /\ TotalLamports(tokens) \in Int
  BY ServedOrder
<1>10. DOMAIN accounts = Address
  BY <1>1
<1>11. ASSUME NEW a \in {credential_pda, schema_pda, Payer},
              OnlyWritten(accounts, accounts', {Payer, a})
       PROVE  \A x \in Address \ {credential_pda, schema_pda, Payer} :
                accounts'[x] = accounts[x]
  BY ONLY <1>10, <1>11 DEF OnlyWritten
<1>2. \/ step = "fund_payer" /\ fund_payer /\ tokens' = tokens
      \/ step = "create_credential" /\ create_credential /\ tokens' = tokens
      \/ step = "create_schema" /\ create_schema /\ tokens' = tokens
      \/ /\ step = "update_authorized_signers"
         /\ update_authorized_signers /\ tokens' = tokens
      \/ step = "tokenize_schema" /\ tokenize_schema
  BY DEF DemoInstruction, PlainInstruction, Issuing, Closing, tokenVars
<1>3. ASSUME \A x \in Address \ {credential_pda, schema_pda, Payer} :
               accounts'[x] = accounts[x],
             \A t \in TokenAddress \ {schema_mint_pda} : tokens'[t] = tokens[t],
             TotalsKept, step # "fund_payer"
      PROVE  StageIn(accounts', tokens', env.expiry, S \cup {step})
  <2>1. TotalLamports(accounts') + TotalLamports(tokens')
          = (TotalLamports(accounts) + TotalLamports(tokens))
              + IF step = "fund_payer" THEN Airdrop ELSE 0
    BY ONLY <1>1, <1>3 DEF TotalsKept
  <2> QED BY <1>3, <2>1, StageKept
<1>4. CASE step = "fund_payer" /\ fund_payer /\ tokens' = tokens
  <2>1. accounts' = Credit(accounts, Payer, Airdrop)
    BY <1>4 DEF fund_payer
  <2>2. \A x \in Address \ {credential_pda, schema_pda, Payer} :
          accounts'[x] = accounts[x]
    <3>1. OnlyWritten(accounts, accounts', {Payer, Payer})
      BY <2>1, WrittenAt
    <3> QED BY <1>11, <3>1
  <2>3. Payer \in Address /\ Airdrop \in Nat
    BY DemoAddressesApart, DemoAssumption
  <2>4. TotalLamports(accounts') = TotalLamports(accounts) + Airdrop
    BY <1>1, <2>1, <2>3, CreditTotal
  <2>5. TotalLamports(tokens') = TotalLamports(tokens)
    BY <1>4
  <2>6. TotalLamports(accounts') + TotalLamports(tokens')
          = (TotalLamports(accounts) + TotalLamports(tokens))
              + IF step = "fund_payer" THEN Airdrop ELSE 0
    BY ONLY <1>1, <1>4, <2>3, <2>4, <2>5
  <2>7. \A t \in TokenAddress \ {schema_mint_pda} : tokens'[t] = tokens[t]
    BY <1>4
  <2> QED BY <2>2, <2>6, <2>7, StageKept
<1>5. ASSUME Balanced, tokens' = tokens
      PROVE  TotalsKept
  BY ONLY <1>1, <1>5 DEF Balanced, TotalsKept
<1>6. CASE step = "create_credential" /\ create_credential /\ tokens' = tokens
  <2>1. PICK space, data :
          accounts' = Create(accounts, Payer, credential_pda, space, data)
    BY <1>6 DEF create_credential, CreateCredential, credential_pda
  <2>2. \A x \in Address \ {credential_pda, schema_pda, Payer} :
          accounts'[x] = accounts[x]
    <3>1. OnlyWritten(accounts, accounts', {Payer, credential_pda})
      BY <2>1, WrittenAt
    <3> QED BY <1>11, <3>1
  <2>3. TotalsKept
    BY <1>1, <1>5, <1>6, DemoInstructions, CredentialBalanced
  <2> QED BY <1>3, <1>6, <2>2, <2>3
<1>7. CASE step = "create_schema" /\ create_schema /\ tokens' = tokens
  <2>1. PICK space, data :
          accounts' = Create(accounts, Payer, schema_pda, space, data)
    BY <1>7 DEF create_schema, CreateSchema, NewSchema, FirstVersion, schema_pda
  <2>2. \A x \in Address \ {credential_pda, schema_pda, Payer} :
          accounts'[x] = accounts[x]
    <3>1. OnlyWritten(accounts, accounts', {Payer, schema_pda})
      BY <2>1, WrittenAt
    <3> QED BY <1>11, <3>1
  <2>3. TotalsKept
    BY <1>1, <1>5, <1>7, DemoInstructions, SchemaBalanced
  <2> QED BY <1>3, <1>7, <2>2, <2>3
<1>8. CASE /\ step = "update_authorized_signers"
           /\ update_authorized_signers /\ tokens' = tokens
  <2>1. PICK space, data :
          accounts' = Resize(accounts, Payer, credential_pda, space, data)
    BY <1>8 DEF update_authorized_signers, ChangeAuthorizedSigners
  <2>2. \A x \in Address \ {credential_pda, schema_pda, Payer} :
          accounts'[x] = accounts[x]
    <3>1. OnlyWritten(accounts, accounts', {Payer, credential_pda})
      BY <2>1, WrittenAt
    <3> QED BY <1>11, <3>1
  <2>3. TotalsKept
    BY <1>1, <1>5, <1>8, DemoInstructions, CredentialBalanced
  <2> QED BY <1>3, <1>8, <2>2, <2>3
<1>9. CASE step = "tokenize_schema" /\ tokenize_schema
  <2>1. TokenizeSchema(credential_pda, schema_pda, SchemaMintSize, Payer)
    BY <1>9 DEF tokenize_schema
  <2>2. PICK cost, group :
          /\ accounts' = Debit(accounts, Payer, cost)
          /\ tokens' = [tokens EXCEPT ![schema_mint_pda] = group]
    BY <2>1 DEF TokenizeSchema, schema_mint_pda
  <2>3. \A x \in Address \ {credential_pda, schema_pda, Payer} :
          accounts'[x] = accounts[x]
    <3>1. OnlyWritten(accounts, accounts', {Payer, Payer})
      BY <2>2, WrittenAt
    <3> QED BY <1>11, <3>1
  <2>4. \A t \in TokenAddress \ {schema_mint_pda} : tokens'[t] = tokens[t]
    BY <1>1, <2>2
  <2>5. TotalsKept
    BY <1>1, <2>1, DemoKeys, DemoValues, DemoWallets, TokenizeSchemaTotal
  <2> QED BY <1>3, <1>9, <2>3, <2>4, <2>5
<1> QED BY <1>2, <1>4, <1>6, <1>7, <1>8, <1>9

(* What is at the address of a new account, and of a closed one.           *)
LEMMA CreatedThere ==
  ASSUME NEW ledger, NEW payer, NEW a \in DOMAIN ledger, NEW space, NEW data
  PROVE  Create(ledger, payer, a, space, data)[a].data = data
<1>1. ASSUME NEW n
      PROVE  DOMAIN Transfer(ledger, payer, a, n) = DOMAIN ledger
  BY DEF Transfer, Debit, Credit
<1> QED BY <1>1 DEF Create

LEMMA ClosedThere ==
  ASSUME NEW ledger, NEW payer, NEW a \in DOMAIN ledger
  PROVE  Close(ledger, a, payer)[a] = Vacant
<1>1. DOMAIN Credit(ledger, payer, ledger[a].lamports) = DOMAIN ledger
  BY DEF Credit
<1> QED BY <1>1 DEF Close

LEMMA IssuedStage ==
  ASSUME EnvFits, TokenizedInv, TokensTyped',
         NEW S, StageIn(accounts, tokens, env.expiry, S),
         S \cap (Issuing \cup Closing) = {},
         NEW step \in Issuing, DemoInstruction(step)
  PROVE  StageIn(accounts', tokens', env.expiry, S \cup {step})
<1> DEFINE a == attestation_pda(TestUser)
           expiry == env.expiry
<1>1. /\ InOrder /\ TokensTyped
      /\ DOMAIN accounts = Address /\ DOMAIN tokens = TokenAddress
  BY ServedOrder
<1>2. DOMAIN accounts = Address /\ DOMAIN tokens = TokenAddress
  BY <1>1
<1>3. a \in Address /\ Payer \in Address /\ a # Payer
  BY DemoAddressesApart, DemoWallets
<1>4. \/ /\ step = "create_attestation" /\ create_attestation
         /\ tokens' = tokens
      \/ step = "create_tokenized_attestation" /\ create_tokenized_attestation
  BY DEF DemoInstruction, PlainInstruction, Issuing, tokenVars
<1>5. Live(S \cup {step}) /\ ~Live(S) /\ ~Minted(S)
  BY DEF Live, Minted, Issuing, Closing
<1>6. "fund_payer" \in S \cup {step} <=> "fund_payer" \in S
  BY DEF Issuing
<1> HIDE DEF a, expiry
<1>7. ASSUME OnlyWritten(accounts, accounts', {Payer, a}),
             OnlyWritten(tokens, tokens', UsedTokens),
             accounts'[a].data.kind = "attestation",
             accounts'[a].data.expiry = expiry,
             Minted(S \cup {step}) =>
               tokens'[attestation_mint_pda].data.kind = "mint",
             ~Minted(S \cup {step}) =>
               tokens'[attestation_mint_pda] = tokens[attestation_mint_pda],
             TotalsKept
      PROVE  StageIn(accounts', tokens', env.expiry, S \cup {step})
  <2>1. StageIn(accounts, tokens, expiry, S)
    BY DEF expiry
  <2>2. \A x \in Address \ Used : accounts'[x] = Vacant
    BY ONLY <1>2, <1>7, <2>1 DEF OnlyWritten, StageIn, Used, a
  <2>3. \A t \in TokenAddress \ UsedTokens : tokens'[t] = Vacant
    BY ONLY <1>2, <1>7, <2>1 DEF OnlyWritten, StageIn
  <2>4. ~Minted(S \cup {step}) => tokens'[attestation_mint_pda] = Vacant
    BY ONLY <1>5, <1>7, <2>1 DEF StageIn
  <2>5. TotalLamports(accounts') + TotalLamports(tokens')
          = IF "fund_payer" \in S \cup {step} THEN Airdrop ELSE 0
    BY ONLY <1>6, <1>7, <2>1 DEF TotalsKept, StageIn
  <2>6. StageIn(accounts', tokens', expiry, S \cup {step})
    BY ONLY <1>5, <1>7, <2>2, <2>3, <2>4, <2>5 DEF StageIn, a
  <2> QED BY <2>6 DEF expiry
<1>8. CASE step = "create_attestation" /\ create_attestation /\ tokens' = tokens
  <2>1. PICK space, nonce, c, s, signer, data, token :
          accounts' = Create(accounts, Payer, a, space,
                             Attestation(nonce, c, s, data, signer, expiry,
                                         token))
    BY <1>8 DEF create_attestation, CreateAttestation, AttestationCreated,
                attestation_pda, a, expiry
  <2> DEFINE issuedData == Attestation(nonce, c, s, data, signer, expiry, token)
  <2>2. OnlyWritten(accounts, accounts', {Payer, a})
    BY <2>1, WrittenAt
  <2>3. issuedData.kind = "attestation" /\ issuedData.expiry = expiry
    BY DEF Attestation
  <2> HIDE DEF issuedData
  <2>4. /\ accounts'[a].data.kind = "attestation"
        /\ accounts'[a].data.expiry = expiry
    <3>1. accounts' = Create(accounts, Payer, a, space, issuedData)
      BY <2>1 DEF issuedData
    <3>2. a \in DOMAIN accounts
      BY <1>2, <1>3
    <3>3. Create(accounts, Payer, a, space, issuedData)[a].data = issuedData
      BY ONLY <3>2, CreatedThere
    <3> QED BY ONLY <2>3, <3>1, <3>3
  <2>5. TotalsKept
    <3>1. Balanced
      BY <1>1, <1>8, DemoInstructions, AttestationBalanced
    <3> QED BY ONLY <1>8, <3>1 DEF Balanced, TotalsKept
  <2>6. OnlyWritten(tokens, tokens', UsedTokens)
    BY <1>8 DEF OnlyWritten
  <2>7. ~Minted(S \cup {step})
    BY <1>5, <1>8 DEF Minted, Issuing
  <2> QED BY <1>7, <1>8, <2>2, <2>4, <2>5, <2>6, <2>7
<1>9. CASE /\ step = "create_tokenized_attestation"
           /\ create_tokenized_attestation
  <2>1. CreateTokenizedAttestation(Signer1, credential_pda, schema_pda,
          TestUser, DemoData, env.expiry, Payer, TestUser, MetadataWritten,
          AttestationMintSize)
    BY <1>9 DEF create_tokenized_attestation
  <2>2. PICK space, data, m, n, r1, r2, r3 :
          /\ accounts' = Debit(Debit(Create(accounts, Payer, a, space, data),
                                     Payer, m), Payer, n)
          /\ tokens' = [tokens EXCEPT ![schema_mint_pda].data = r1,
                          ![attestation_mint_pda] = r2,
                          ![recipient_token_account] = r3]
    BY <2>1 DEF CreateTokenizedAttestation, AttestationCreated,
       attestation_pda, a, schema_mint_pda, attestation_mint_pda,
       recipient_token_account
  <2>3. OnlyWritten(accounts, accounts', {Payer, a})
    <3> DEFINE l1 == Create(accounts, Payer, a, space, data)
               l2 == Debit(l1, Payer, m)
    <3>1. DOMAIN l1 = Address /\ DOMAIN l2 = Address
      BY <1>2 DEF Create, Transfer, Credit, Debit
    <3>2. /\ OnlyWritten(accounts, l1, {Payer, a})
          /\ OnlyWritten(l1, l2, {Payer})
          /\ OnlyWritten(l2, Debit(l2, Payer, n), {Payer})
      BY WrittenAt
    <3>3. accounts' = Debit(l2, Payer, n)
      BY <2>2
    <3> QED BY ONLY <1>2, <3>1, <3>2, <3>3 DEF OnlyWritten
  <2>4. OnlyWritten(tokens, tokens', UsedTokens)
    BY <1>2, <2>2 DEF OnlyWritten, UsedTokens
  <2>5. /\ accounts'[a].data.kind = "attestation"
        /\ accounts'[a].data.expiry = expiry
    <3>1. AttestationIssued(AttestationPda(credential_pda, schema_pda, TestUser),
            Signer1, DemoData, env.expiry,
            HoldingPda(TestUser, AttestationMintPda(
              AttestationPda(credential_pda, schema_pda, TestUser))))
      BY <1>1, <2>1, DemoKeys, DemoWallets, DemoValues, CreateTokenizedStep
    <3>2. PICK nonce, c, s, signer, token :
            accounts'[a].data
              = Attestation(nonce, c, s, DemoData, signer, expiry, token)
      BY <3>1 DEF AttestationIssued, Rewritten, a, attestation_pda, expiry
    <3> QED BY ONLY <3>2 DEF Attestation
  <2>6. TotalsKept
    BY <1>1, <2>1, DemoKeys, DemoWallets, DemoValues, CreateTokenizedTotal
  <2>7. Minted(S \cup {step})
    BY <1>9 DEF Minted, Closing
  <2>8. tokens'[attestation_mint_pda].data.kind = "mint"
    <3> DEFINE minted == Mint(schema_mint_pda,
                              tokens[schema_mint_pda].data.size + 1,
                              Metadata(a, schema_pda))
               record == SetUp(attestation_mint_pda,
                               MintRentSpace(AttestationMintSize),
                               MintSpaceCreated + MetadataWritten + MemberSpace,
                               minted)
    <3>1. PICK r4, r5 :
            tokens' = [tokens EXCEPT ![schema_mint_pda].data = r4,
                                     ![attestation_mint_pda] = record,
                                     ![recipient_token_account] = r5]
      BY <2>1 DEF CreateTokenizedAttestation, attestation_pda, a,
         schema_mint_pda, attestation_mint_pda, recipient_token_account
    <3>2. record.data.kind = "mint"
      BY DEF SetUp, Mint
    <3> HIDE DEF record
    <3>3. tokens'[attestation_mint_pda] = record
      BY <1>2, <3>1, DemoAddressesApart DEF UsedTokens
    <3> QED BY <3>2, <3>3
  <2> QED BY <1>7, <2>3, <2>4, <2>5, <2>6, <2>7, <2>8
<1> QED BY <1>4, <1>8, <1>9

LEMMA ClosedStage ==
  ASSUME EnvFits, TokenizedInv, TokensTyped',
         NEW S, StageIn(accounts, tokens, env.expiry, S),
         NEW step \in Closing, DemoInstruction(step)
  PROVE  StageIn(accounts', tokens', env.expiry, S \cup {step})
<1> DEFINE a == attestation_pda(TestUser)
           expiry == env.expiry
<1>1. /\ InOrder /\ TokensTyped
      /\ DOMAIN accounts = Address /\ DOMAIN tokens = TokenAddress
  BY ServedOrder
<1>2. DOMAIN accounts = Address /\ DOMAIN tokens = TokenAddress
  BY <1>1
<1>3. a \in Address /\ Payer \in Address /\ a # Payer
  BY DemoAddressesApart, DemoWallets
<1>4. \/ step = "close_attestation" /\ close_attestation /\ tokens' = tokens
      \/ step = "close_tokenized_attestation" /\ close_tokenized_attestation
  BY DEF DemoInstruction, PlainInstruction, Closing, tokenVars
<1>5. ~Live(S \cup {step})
  BY DEF Live
<1>6. "fund_payer" \in S \cup {step} <=> "fund_payer" \in S
  BY DEF Closing
<1> HIDE DEF a, expiry
<1>7. ASSUME OnlyWritten(accounts, accounts', {Payer, a}),
             OnlyWritten(tokens, tokens', UsedTokens),
             accounts'[a] = Vacant,
             Minted(S \cup {step}) =>
               tokens'[attestation_mint_pda].data.kind = "mint",
             ~Minted(S \cup {step}) => tokens'[attestation_mint_pda] = Vacant,
             TotalsKept
      PROVE  StageIn(accounts', tokens', env.expiry, S \cup {step})
  <2>1. StageIn(accounts, tokens, expiry, S)
    BY DEF expiry
  <2>2. \A x \in Address \ Used : accounts'[x] = Vacant
    BY ONLY <1>2, <1>7, <2>1 DEF OnlyWritten, StageIn, Used, a
  <2>3. \A t \in TokenAddress \ UsedTokens : tokens'[t] = Vacant
    BY ONLY <1>2, <1>7, <2>1 DEF OnlyWritten, StageIn
  <2>5. TotalLamports(accounts') + TotalLamports(tokens')
          = IF "fund_payer" \in S \cup {step} THEN Airdrop ELSE 0
    BY ONLY <1>6, <1>7, <2>1 DEF TotalsKept, StageIn
  <2>6. StageIn(accounts', tokens', expiry, S \cup {step})
    BY ONLY <1>5, <1>7, <2>2, <2>3, <2>5 DEF StageIn, a
  <2> QED BY <2>6 DEF expiry
<1>8. CASE step = "close_attestation" /\ close_attestation /\ tokens' = tokens
  <2>1. accounts' = Close(accounts, a, Payer)
    BY <1>8 DEF close_attestation, CloseAttestation, a
  <2>2. OnlyWritten(accounts, accounts', {Payer, a})
    BY <2>1, WrittenAt
  <2>3. accounts'[a] = Vacant
    BY <1>2, <1>3, <2>1, ClosedThere
  <2>4. TotalsKept
    <3>1. Balanced
      BY <1>1, <1>8, DemoInstructions, AttestationBalanced
    <3> QED BY ONLY <1>8, <3>1 DEF Balanced, TotalsKept
  <2>5. OnlyWritten(tokens, tokens', UsedTokens)
    BY <1>8 DEF OnlyWritten
  <2>6. /\ Minted(S \cup {step}) =>
             tokens'[attestation_mint_pda].data.kind = "mint"
        /\ ~Minted(S \cup {step}) => tokens'[attestation_mint_pda] = Vacant
    <3>1. Minted(S \cup {step}) <=> Minted(S)
      BY <1>8 DEF Minted
    <3> QED BY <1>8, <3>1 DEF StageIn
  <2> QED BY <1>7, <2>2, <2>3, <2>4, <2>5, <2>6
<1>9. CASE step = "close_tokenized_attestation" /\ close_tokenized_attestation
  <2>1. CloseTokenizedAttestation(Signer1, credential_pda, a,
          recipient_token_account, Payer)
    BY <1>9 DEF close_tokenized_attestation, a
  <2>2. PICK n, r :
          /\ accounts' = Close(Credit(accounts, Payer, n), a, Payer)
          /\ tokens' = [tokens EXCEPT ![attestation_mint_pda] = Vacant,
                                      ![recipient_token_account].data = r]
    BY <2>1 DEF CloseTokenizedAttestation, attestation_mint_pda, a
  <2> DEFINE mid == Credit(accounts, Payer, n)
  <2>3. DOMAIN mid = Address /\ accounts' = Close(mid, a, Payer)
    BY <1>2, <2>2 DEF Credit
  <2>4. /\ OnlyWritten(accounts, mid, {Payer})
        /\ OnlyWritten(mid, Close(mid, a, Payer), {Payer, a})
    BY WrittenAt
  <2> HIDE DEF mid
  <2>5. OnlyWritten(accounts, accounts', {Payer, a})
    BY ONLY <1>2, <2>3, <2>4 DEF OnlyWritten
  <2>6. accounts'[a] = Vacant
    BY <1>3, <2>3, ClosedThere
  <2>7. OnlyWritten(tokens, tokens', UsedTokens)
    BY <1>2, <2>2 DEF OnlyWritten, UsedTokens
  <2>8. tokens'[attestation_mint_pda] = Vacant
    BY <1>2, <2>2, DemoAddressesApart DEF UsedTokens
  <2>9. TotalsKept
    BY <1>1, <1>3, <2>1, DemoKeys, DemoWallets, CloseTokenizedTotal DEF a
  <2>10. ~Minted(S \cup {step})
    BY <1>9 DEF Minted
  <2> QED BY <1>7, <2>5, <2>6, <2>7, <2>8, <2>9, <2>10
<1> QED BY <1>4, <1>8, <1>9

(* The transaction of a step, executed on what the steps before it left.   *)
LEMMA ExecutedStage ==
  ASSUME EnvFits, TokenizedInv, TokensTyped', DemoInv, Execute,
         StageIn(accounts, tokens, env.expiry, Range(log))
  PROVE  StageIn(accounts', tokens', env.expiry, Range(log) \cup {running})
<1> HIDE DEF Transactions
<1>1. running \in Transactions /\ DemoInstruction(running)
  BY DEF Execute
<1>2. /\ running = Step /\ running \notin Range(log)
      /\ Range(log) = Taken(pc - 1)
  BY <1>1, RunningIsNext
<1>3. CASE running \in Issuing
  <2>1. Range(log) \cap (Issuing \cup Closing) = {}
    BY <1>2, <1>3, DoneBefore
  <2> QED BY <1>1, <1>3, <2>1, IssuedStage
<1>4. CASE running \in Closing
  BY <1>1, <1>4, ClosedStage
<1>5. CASE running \notin Issuing \cup Closing
  BY <1>1, <1>2, <1>5, SetUpStages
<1> QED BY <1>3, <1>4, <1>5

LEMMA LedgerSame ==
  ASSUME LedgerFollows,
         accounts' = accounts, saved' = saved, tokens' = tokens,
         savedTokens' = savedTokens, ixs' = ixs, running' = running,
         log' = log, others' = others, env'.expiry = env.expiry,
         phase' = "fetched" =>
           phase = "fetched" /\ copy' = copy /\ missed' = missed
  PROVE  LedgerFollows'
<1> HIDE DEF Transactions
<1>1. OneInstruction'
  BY DEF LedgerFollows, OneInstruction
<1>2. Staged'
  <2>1. Executed' = Executed
    BY DEF Executed
  <2>2. Staged
    BY DEF LedgerFollows
  <2> QED BY <2>1, <2>2 DEF Staged
<1>3. CopyRight'
  BY DEF LedgerFollows, CopyRight
<1> QED BY <1>1, <1>2, <1>3 DEF LedgerFollows

(* The client asks for an expiry before there is an attestation.           *)
LEMMA SendFollows ==
  ASSUME DemoInv, LedgerFollows, Send
  PROVE  LedgerFollows'
<1> HIDE DEF Transactions
<1>1. /\ phase = "ready" /\ phase' = "waiting"
      /\ accounts' = accounts /\ saved' = saved /\ tokens' = tokens
      /\ savedTokens' = savedTokens /\ ixs' = ixs /\ running' = running
      /\ log' = log /\ others' = others
      /\ Step \notin Issuing => env' = env
  BY DEF Send, Chained, vars, tokenVars, Issuing
<1>2. CASE Step \notin Issuing
  BY <1>1, <1>2, LedgerSame
<1>3. CASE Step \in Issuing
  <2>1. running \notin Transactions
    BY <1>1, RunningIsNext
  <2>2. Range(log) \subseteq Taken(pc - 1)
    BY <1>1 DEF DemoInv, OneAhead
  <2>3. Taken(pc - 1) \cap (Issuing \cup Closing) = {}
    BY <1>3, DoneBefore
  <2>4. ~Live(Range(log))
    BY <2>2, <2>3 DEF Live
  <2>5. Executed = Range(log) /\ Executed' = Range(log)
    BY <1>1, <2>1 DEF Executed
  <2>6. ASSUME NEW l, NEW t, StageIn(l, t, env.expiry, Range(log)), NEW e
        PROVE  StageIn(l, t, e, Range(log))
    BY <2>4, <2>6 DEF StageIn
  <2>7. Staged'
    <3>1. Staged
      BY DEF LedgerFollows
    <3> QED BY ONLY <1>1, <2>5, <2>6, <3>1 DEF Staged
  <2>8. OneInstruction' /\ CopyRight'
    BY <1>1 DEF LedgerFollows, OneInstruction, CopyRight
  <2> QED BY <2>7, <2>8 DEF LedgerFollows
<1> QED BY <1>2, <1>3

(* What it fetches to verify is the attestation it had issued, unless the  *)
(* call gives an error.                                                    *)
LEMMA FetchFollows ==
  ASSUME DemoInv, LedgerFollows, Fetch
  PROVE  LedgerFollows'
<1> HIDE DEF Transactions
<1>1. /\ phase = "ready" /\ Step = "verify_attestation"
      /\ accounts' = accounts /\ saved' = saved /\ tokens' = tokens
      /\ savedTokens' = savedTokens /\ ixs' = ixs /\ running' = running
      /\ log' = log /\ others' = others /\ env' = env
  BY DEF Fetch, Chained, vars, tokenVars
<1>2. PICK lost \in SUBSET Users :
        /\ copy' = [u \in Users |->
                      IF u \in lost THEN NoData
                      ELSE saved.accounts[attestation_pda(u)].data]
        /\ missed' = {u \in lost :
                        saved.accounts[attestation_pda(u)].data # NoData}
  BY DEF Fetch
<1>3. Staged' /\ OneInstruction'
  <2>1. Executed' = Executed
    BY <1>1 DEF Executed
  <2>2. Staged /\ OneInstruction
    BY DEF LedgerFollows
  <2> QED BY <1>1, <2>1, <2>2 DEF Staged, OneInstruction
<1>4. CopyRight'
  <2> SUFFICES ASSUME others = 0, TestUser \notin missed'
               PROVE  /\ copy'[TestUser].kind = "attestation"
                      /\ copy'[TestUser].expiry = env.expiry
    BY <1>1 DEF CopyRight
  <2>1. Live(Range(log))
    <3>1. Range(log) = Taken(pc - 1)
      BY <1>1 DEF DemoInv, OneAhead
    <3> QED BY <1>1, <3>1, DoneBefore
  <2>2. StageIn(saved.accounts, savedTokens, env.expiry, Range(log))
    BY DEF LedgerFollows, Staged
  <2> DEFINE d == saved.accounts[attestation_pda(TestUser)].data
  <2>3. d.kind = "attestation" /\ d.expiry = env.expiry
    BY <2>1, <2>2 DEF StageIn
  <2>4. TestUser \notin lost
    <3>1. d # NoData
      BY <2>3 DEF NoData
    <3> QED BY <1>2, <3>1
  <2> QED BY <1>2, <2>3, <2>4, DemoWallets
<1> QED BY <1>3, <1>4 DEF LedgerFollows

(* The runtime.                                                            *)
LEMMA DeliverFollows ==
  ASSUME LedgerFollows, NEW step \in Transactions, Deliver(step)
  PROVE  LedgerFollows'
<1> "none" \notin Transactions
  BY TransactionsAreSteps
<1> step \in Transactions /\ step # "others"
  BY TransactionsAreSteps
<1> HIDE DEF Transactions
<1>1. /\ running = "none" /\ running' = step /\ ixs' = 0
      /\ accounts' = accounts /\ saved' = saved /\ tokens' = tokens
      /\ savedTokens' = savedTokens /\ log' = log /\ others' = others
      /\ env' = env /\ phase' = phase /\ copy' = copy /\ missed' = missed
  BY DEF Deliver, Begin, tokenVars
<1>2. Executed = Range(log) /\ Executed' = Range(log)
  BY <1>1 DEF Executed
<1>3. Staged'
  BY <1>1, <1>2 DEF LedgerFollows, Staged
<1>4. OneInstruction' /\ CopyRight'
  BY <1>1 DEF LedgerFollows, OneInstruction, CopyRight
<1> QED BY <1>3, <1>4 DEF LedgerFollows

LEMMA DemoInstructionRuns ==
  ASSUME EnvFits, TokenizedInv, NEW step, DemoInstruction(step)
  PROVE  Instruction /\ savedTokens' = savedTokens
<1>1. InOrder
  BY ServedOrder
<1>2. CASE fund_payer /\ UNCHANGED tokenVars
  BY <1>2 DEF fund_payer, tokenVars
<1>3. CASE /\ CredentialNext \/ SchemaNext \/ AttestationNext
           /\ UNCHANGED tokenVars
  BY <1>1, <1>3, CredentialStep, SchemaStep, AttestationStep
     DEF GoodStep, tokenVars
<1>4. CASE TokenizationNext
  BY <1>4 DEF TokenizationNext, TokenizeSchema, CreateTokenizedAttestation,
              CloseTokenizedAttestation
<1> QED BY <1>2, <1>3, <1>4, DemoInstructionIsStep

LEMMA ExecuteFollows ==
  ASSUME EnvFits, TokenizedInv, TokensTyped', DemoInv, LedgerFollows, Execute
  PROVE  LedgerFollows'
<1> HIDE DEF Transactions
<1>1. running \in Transactions /\ ixs = 0 /\ DemoInstruction(running)
  BY DEF Execute
<1>2. Instruction /\ savedTokens' = savedTokens
  BY <1>1, DemoInstructionRuns
<1>3. /\ ixs' = 1 /\ saved' = saved /\ running' = running /\ log' = log
      /\ others' = others /\ env' = env /\ phase' = phase /\ copy' = copy
      /\ missed' = missed
  BY <1>1, <1>2 DEF Instruction, Execute, demoVars
<1>4. Executed = Range(log) /\ Executed' = Range(log) \cup {running}
  BY <1>1, <1>3 DEF Executed
<1>5. Staged'
  <2> SUFFICES ASSUME others = 0
               PROVE  Staged'
    BY <1>3 DEF Staged
  <2>1. /\ StageIn(saved.accounts, savedTokens, env.expiry, Range(log))
        /\ StageIn(accounts, tokens, env.expiry, Range(log))
    BY <1>4 DEF LedgerFollows, Staged
  <2>2. StageIn(accounts', tokens', env.expiry, Range(log) \cup {running})
    BY <2>1, ExecutedStage
  <2> QED BY ONLY <1>2, <1>3, <1>4, <2>1, <2>2 DEF Staged
<1>6. OneInstruction' /\ CopyRight'
  BY <1>1, <1>3 DEF LedgerFollows, OneInstruction, CopyRight
<1> QED BY <1>5, <1>6 DEF LedgerFollows

(* A commit forgets empty accounts only.                                   *)
LEMMA CommittedStage ==
  ASSUME TokenizedInv, CommitTokens, NEW expiry, NEW S,
         StageIn(accounts, tokens, expiry, S)
  PROVE  /\ StageIn(accounts', tokens', expiry, S)
         /\ saved'.accounts = accounts' /\ savedTokens' = tokens'
<1>1. /\ IInv /\ accounts \in [Address -> Account] /\ TokensTyped
      /\ DOMAIN accounts = Address /\ DOMAIN tokens = TokenAddress
  BY ServedOrder
<1>2. /\ Commit /\ accounts' = Purge(accounts)
      /\ tokens' = Purge(tokens) /\ savedTokens' = tokens'
  BY DEF CommitTokens, Commit
<1>3. /\ saved'.accounts = accounts'
      /\ \A x \in Address : accounts'[x].data = accounts[x].data
  BY <1>1, <1>2, Committed
<1>4. ASSUME NEW x \in Address, accounts[x] = Vacant
      PROVE  accounts'[x] = Vacant
  BY <1>1, <1>2, <1>4 DEF Purge
<1>5. ASSUME NEW t \in TokenAddress, tokens[t] = Vacant
      PROVE  tokens'[t] = Vacant
  BY <1>1, <1>2, <1>5 DEF Purge
<1>6. /\ TotalLamports(accounts') = TotalLamports(accounts)
      /\ TotalLamports(tokens') = TotalLamports(tokens)
  BY <1>1, <1>2, BalanceType, TokenBalances, PurgeTotal DEF TokensTyped
<1>7. attestation_pda(TestUser) \in Address
      /\ attestation_mint_pda \in TokenAddress
  BY DemoAddressesApart, DemoWallets DEF UsedTokens
<1>8. ASSUME tokens[attestation_mint_pda].data.kind = "mint"
      PROVE  tokens'[attestation_mint_pda].data.kind = "mint"
  <2>1. tokens[attestation_mint_pda].data # NoData
    BY <1>8 DEF NoData
  <2>2. tokens[attestation_mint_pda].lamports > 0
    BY <1>7, <2>1 DEF TokenizedInv, TokensGood, RecordsGood, RecordGood
  <2> QED BY <1>1, <1>2, <1>7, <1>8, <2>2 DEF Purge
<1>9. StageIn(accounts', tokens', expiry, S)
  BY ONLY StageIn(accounts, tokens, expiry, S), <1>3, <1>4, <1>5, <1>6, <1>7,
          <1>8
     DEF StageIn
<1> QED BY <1>2, <1>3, <1>9

LEMMA RangeOfAppend ==
  ASSUME NEW S, NEW s \in Seq(S), NEW e
  PROVE  Range(Append(s, e)) = Range(s) \cup {e}
<1> DEFINE t == Append(s, e)
<1>1. /\ Len(t) = Len(s) + 1 /\ Len(s) \in Nat
      /\ DOMAIN s = 1 .. Len(s) /\ DOMAIN t = 1 .. Len(t)
      /\ \A i \in 1 .. Len(s) : t[i] = s[i]
      /\ t[Len(s) + 1] = e
  OBVIOUS
<1> HIDE DEF t
<1>2. Range(t) = Range(s) \cup {e}
  BY ONLY <1>1 DEF Range
<1> QED BY <1>2 DEF t

LEMMA CommitFollows ==
  ASSUME TokenizedInv, DemoInv, LedgerFollows, CommitStep
  PROVE  LedgerFollows'
<1> "none" \notin Transactions
  BY TransactionsAreSteps
<1> HIDE DEF Transactions
<1>1. /\ running \in Transactions /\ ixs = 1 /\ CommitTokens
      /\ log' = Append(log, running) /\ running' = "none"
      /\ others' = others /\ env' = env /\ phase' = phase /\ copy' = copy
      /\ missed' = missed
  BY DEF CommitStep
<1>2. Range(log') = Range(log) \cup {running}
  BY <1>1, RangeOfAppend DEF DemoInv, LogKept
<1>3. Executed = Range(log) \cup {running} /\ Executed' = Range(log')
  BY <1>1 DEF Executed
<1>4. Staged'
  <2> SUFFICES ASSUME others = 0
               PROVE  Staged'
    BY <1>1 DEF Staged
  <2>1. StageIn(accounts, tokens, env.expiry, Executed)
    BY DEF LedgerFollows, Staged
  <2>2. /\ StageIn(accounts', tokens', env.expiry, Executed)
        /\ saved'.accounts = accounts' /\ savedTokens' = tokens'
    BY <1>1, <2>1, CommittedStage
  <2> QED BY ONLY <1>1, <1>2, <1>3, <2>2 DEF Staged
<1>5. OneInstruction' /\ CopyRight'
  BY <1>1 DEF LedgerFollows, OneInstruction, CopyRight
<1> QED BY <1>4, <1>5 DEF LedgerFollows

LEMMA AbortFollows ==
  ASSUME LedgerFollows, AbortStep
  PROVE  LedgerFollows'
<1> "none" \notin Transactions
  BY TransactionsAreSteps
<1> HIDE DEF Transactions
<1>1. /\ accounts' = saved.accounts /\ tokens' = savedTokens
      /\ saved' = saved /\ savedTokens' = savedTokens
      /\ running' = "none" /\ log' = log /\ others' = others /\ env' = env
      /\ phase' = phase /\ copy' = copy /\ missed' = missed
  BY DEF AbortStep, AbortTokens, Abort
<1>2. Executed' = Range(log)
  BY <1>1 DEF Executed
<1>3. Staged'
  BY <1>1, <1>2 DEF LedgerFollows, Staged
<1>4. OneInstruction' /\ CopyRight'
  BY <1>1 DEF LedgerFollows, OneInstruction, CopyRight
<1> QED BY <1>3, <1>4 DEF LedgerFollows

(* Nothing is said once others have acted.                                 *)
LEMMA OthersFollow ==
  ASSUME LedgerFollows,
         \/ \E wallet \in {Authority, Signer2, TestUser} : OthersBegin(wallet)
         \/ OthersAct
         \/ OthersEnd
  PROVE  LedgerFollows'
<1> "none" \notin Transactions /\ "others" \notin Transactions
  BY TransactionsAreSteps
<1> HIDE DEF Transactions
<1>1. /\ others' \in Nat /\ others' > 0
      /\ running' \in {"none", "others"}
  BY DEF LedgerFollows, OneInstruction, OthersBegin, OthersAct, OthersEnd,
         demoVars
<1> QED BY <1>1 DEF LedgerFollows, OneInstruction, Staged, CopyRight

LEMMA FollowsStep ==
  ASSUME EnvFits, TokenizedInv, DemoInv, LedgerFollows, [DemoNext]_demoAll
  PROVE  LedgerFollows'
<1> HIDE DEF Transactions
<1>1. CASE Send
  BY <1>1, SendFollows
<1>2. CASE Fetch
  BY <1>2, FetchFollows
<1>3. CASE \/ Confirm \/ Fail \/ Judge \/ VerifyToken
           \/ \E step \in Transactions : Expire(step)
           \/ RpcError \/ ClockSet \/ UNCHANGED demoAll
  <2>1. UNCHANGED Chained
    BY <1>3 DEF Confirm, Fail, Judge, VerifyToken, Expire, RpcError, ClockSet,
                demoAll
  <2>2. /\ running' = running /\ log' = log /\ others' = others
        /\ env' = env \/ ClockSet
        /\ phase' = "fetched" =>
             phase = "fetched" /\ copy' = copy /\ missed' = missed
    BY <1>3 DEF Confirm, Fail, Judge, VerifyToken, Expire, RpcError, ClockSet,
                Advance, demoAll, demoVars
  <2>3. env'.expiry = env.expiry
    BY <2>2 DEF EnvFits, ClockSet
  <2> QED BY <2>1, <2>2, <2>3, LedgerSame DEF Chained, vars, tokenVars
<1>4. CASE TimePasses
  <2>1. /\ accounts' = accounts /\ saved' = saved /\ ixs' = ixs
        /\ tokens' = tokens /\ savedTokens' = savedTokens
        /\ UNCHANGED demoVars
    BY <1>4 DEF TimePasses, Tick, tokenVars
  <2> QED BY <2>1, LedgerSame DEF demoVars
<1>5. CASE Execute
  <2>1. TokensTyped'
    BY ServedStep DEF TokenizedInv, TokensGood, RecordsGood, TokensTyped
  <2> QED BY <1>5, <2>1, ExecuteFollows
<1>6. CASE CommitStep
  BY <1>6, CommitFollows
<1>7. CASE AbortStep
  BY <1>7, AbortFollows
<1>8. CASE \E step \in Transactions : Deliver(step)
  BY <1>8, DeliverFollows
<1>9. CASE \/ \E wallet \in {Authority, Signer2, TestUser} : OthersBegin(wallet)
           \/ OthersAct
           \/ OthersEnd
  BY <1>9, OthersFollow
<1> QED BY <1>1, <1>2, <1>3, <1>4, <1>5, <1>6, <1>7, <1>8, <1>9
     DEF DemoNext, Demo, Runtime, Network

(* A keypair is made for a run: there is nothing on the ledger yet.        *)
LEMMA FollowsInit ==
  ASSUME DemoInit
  PROVE  LedgerFollows
<1> "none" \notin Transactions
  BY TransactionsAreSteps
<1> HIDE DEF Transactions
<1>1. /\ TokenizedInit /\ phase = "ready" /\ running = "none" /\ log = <<>>
      /\ others = 0
  BY DEF DemoInit
<1>2. Range(log) = {} /\ Executed = {}
  BY <1>1 DEF Range, Executed
<1>3. /\ accounts = [a \in Address |->
           IF a \in Wallet THEN [Vacant EXCEPT !.lamports = InitialLamports]
           ELSE Vacant]
      /\ tokens = [t \in TokenAddress |-> Vacant]
      /\ saved.accounts = accounts /\ savedTokens = tokens
  BY <1>1 DEF TokenizedInit, Init, Chain
<1>4. \A x \in Address : accounts[x] = Vacant
  <2>1. [Vacant EXCEPT !.lamports = 0] = Vacant
    BY DEF Vacant
  <2> QED BY <1>3, <2>1, ArgumentAssumption
<1>5. TotalLamports(accounts) + TotalLamports(tokens) = 0
  <2>1. TotalLamports(accounts) + TotalLamports(tokens)
          = InitialLamports * Cardinality(Wallet)
    BY <1>1, InitTokensConserved DEF TokensConservedInv, TokensConserved
  <2>2. Cardinality(Wallet) \in Nat
    BY FinitenessAssumption, FS_Subset, AddressKinds, FS_CardinalityType
  <2> QED BY <2>1, <2>2, ArgumentAssumption
<1>6. ~Live({}) /\ ~Minted({})
  BY DEF Live, Minted
<1>7. attestation_pda(TestUser) \in Address
      /\ attestation_mint_pda \in TokenAddress
  BY DemoAddressesApart, DemoWallets DEF UsedTokens
<1>8. StageIn(accounts, tokens, env.expiry, {})
  BY ONLY <1>3, <1>4, <1>5, <1>6, <1>7 DEF StageIn
<1> QED BY <1>1, <1>2, <1>3, <1>8
     DEF LedgerFollows, OneInstruction, Staged, CopyRight

LEMMA LedgerFollowsThroughout == DemoSpec => []LedgerFollows
<1>1. DemoInit => LedgerFollows
  BY FollowsInit
<1>2. /\ EnvFits /\ TokenizedInv /\ DemoInv /\ LedgerFollows
      /\ [DemoNext]_demoAll
      => LedgerFollows'
  BY FollowsStep
<1> QED BY <1>1, <1>2, ServedThroughout, DemoInvariantHolds, PTL DEF DemoSpec

----------------------------------------------------------------------------
(* Who vouches for the attestations there are, whoever acts beside.        *)

(* An attestation of one of the users of the demo is of TestUser, and its  *)
(* attester's, who asked for the expiry of this run, or the second one's.  *)
VouchedFor(d, u) ==
  d.kind = "attestation" =>
    /\ u = TestUser
    /\ \/ /\ d.signer = Signer1 /\ d.expiry = env.expiry
          /\ Issuing \cap sent # {}
       \/ d.signer = Signer2 /\ others > 0

Vouched ==
  \A u \in Users : /\ VouchedFor(accounts[attestation_pda(u)].data, u)
                   /\ VouchedFor(saved.accounts[attestation_pda(u)].data, u)
                   /\ VouchedFor(copy[u], u)

(* What an instruction with an attester's signature may write there.       *)
IssuedBy(signer, expiry) ==
  \A u \in Users :
    LET d == accounts'[attestation_pda(u)].data
    IN  \/ d = accounts[attestation_pda(u)].data
        \/ d.kind # "attestation"
        \/ u = TestUser /\ d.signer = signer /\ d.expiry = expiry

LEMMA QuietVouched ==
  ASSUME InOrder, GoodStep, UNCHANGED <<events, issued>>, NEW signer, NEW expiry
  PROVE  IssuedBy(signer, expiry)
BY QuietAttestations, DemoKeys DEF GoodStep, IssuedBy

LEMMA RewrittenVouched ==
  ASSUME NEW owner, NEW d, NEW signer, NEW expiry,
         Rewritten(attestation_pda(TestUser), owner, d),
         \/ d.kind # "attestation"
         \/ d.signer = signer /\ d.expiry = expiry
  PROVE  IssuedBy(signer, expiry)
<1> SUFFICES ASSUME NEW u \in Users
             PROVE  LET e == accounts'[attestation_pda(u)].data
                    IN  \/ e = accounts[attestation_pda(u)].data
                        \/ e.kind # "attestation"
                        \/ /\ u = TestUser /\ e.signer = signer
                           /\ e.expiry = expiry
  BY DEF IssuedBy
<1>1. attestation_pda(u) \in Address
  BY DemoAddressesApart
<1>2. CASE attestation_pda(u) = attestation_pda(TestUser)
  <2>1. u = TestUser
    BY <1>2, DemoKeys DEF Users
  <2> QED BY <1>2, <2>1 DEF Rewritten
<1>3. CASE attestation_pda(u) # attestation_pda(TestUser)
  BY <1>1, <1>3 DEF Rewritten
<1> QED BY <1>2, <1>3

LEMMA CreateVouched ==
  ASSUME DOMAIN accounts = Address, NEW signer, NEW expiry,
         NEW payer \in Wallet,
         CreateAttestation(signer, credential_pda, schema_pda, TestUser,
                           DemoData, expiry, payer)
  PROVE  IssuedBy(signer, expiry)
<1> DEFINE a == attestation_pda(TestUser)
           b == attestation_pda(RandomUser)
<1>1. PICK space, nonce, c, s, data, token :
        accounts' = Create(accounts, payer, a, space,
                           Attestation(nonce, c, s, data, signer, expiry,
                                       token))
  BY DEF CreateAttestation, AttestationCreated, attestation_pda
<1> DEFINE d == Attestation(nonce, c, s, data, signer, expiry, token)
<1>2. d.signer = signer /\ d.expiry = expiry
  BY DEF Attestation
<1>3. /\ a \in Address /\ b \in Address /\ a # b
      /\ b # payer
  <2>1. /\ a \in AttestationAddress /\ b \in AttestationAddress /\ a # b
    BY DemoKeys, DemoWallets
  <2> HIDE DEF a, b
  <2> QED BY <2>1, AddressKinds, AddressesDisjoint
<1> HIDE DEF a, b, d
<1>4. accounts' = Create(accounts, payer, a, space, d)
  BY <1>1 DEF d
<1>5. accounts'[a].data = d
  BY <1>3, <1>4, CreatedThere
<1>6. accounts'[b] = accounts[b]
  <2>1. OnlyWritten(accounts, accounts', {payer, a})
    BY <1>4, WrittenAt
  <2> QED BY <1>3, <2>1 DEF OnlyWritten
<1> QED BY <1>2, <1>5, <1>6 DEF IssuedBy, Users, a, b

(* The instructions of the demo, and those of the others.                  *)
LEMMA DemoVouched ==
  ASSUME EnvFits, TokenizedInv, NEW step, DemoInstruction(step)
  PROVE  \/ IssuedBy(Signer1, env.expiry) /\ step \in Issuing
         \/ \A signer, expiry : IssuedBy(signer, expiry)
<1>1. InOrder /\ TokensTyped /\ DOMAIN accounts = Address
  BY ServedOrder
<1>2. AccountsGood(accounts) /\ events \in [Event -> Nat]
  BY <1>1 DEF InOrder
<1>3. CASE fund_payer /\ UNCHANGED tokenVars
  <2>1. Payer \in Address /\ Airdrop \in Nat
    BY DemoWallets, DemoAssumption, AddressKinds
  <2>2. GoodStep /\ UNCHANGED <<events, issued>>
    BY <1>1, <1>3, <2>1, ReceiptStep DEF fund_payer
  <2> QED BY <1>1, <2>2, QuietVouched
<1>4. CASE create_credential \/ update_authorized_signers
  <2>1. UNCHANGED <<events, issued>>
    BY <1>4 DEF create_credential, CreateCredential,
       update_authorized_signers, ChangeAuthorizedSigners
  <2> QED BY <1>1, <1>4, <2>1, DemoInstructions, CredentialStep, QuietVouched
<1>5. CASE create_schema
  <2>1. UNCHANGED <<events, issued>>
    BY <1>5 DEF create_schema, CreateSchema, NewSchema
  <2> QED BY <1>1, <1>5, <2>1, DemoInstructions, SchemaStep, QuietVouched
<1>6. CASE create_attestation /\ step = "create_attestation"
  BY <1>1, <1>6, CreateVouched, DemoWallets DEF create_attestation, Issuing
<1>7. CASE close_attestation
  <2>1. AttestationClosed(attestation_pda(TestUser), Signer1)
    BY <1>2, <1>7, CloseAttestationEffect, DemoKeys, DemoWallets,
       BoundAssumption DEF close_attestation
  <2> QED BY <2>1, RewrittenVouched DEF AttestationClosed, NoData
<1>8. CASE tokenize_schema
  <2>1. TokenCost(SchemaMintPda(schema_pda), GroupRentSpace) \in Nat
    BY <1>1, DemoKeys, TokenAddresses, SpaceTypes, TokenCostEnough
  <2>2. GoodStep /\ UNCHANGED <<events, issued>>
    BY <1>1, <1>8, <2>1, DemoWallets, PaymentStep
       DEF tokenize_schema, TokenizeSchema
  <2> QED BY <1>1, <2>2, QuietVouched
<1>9. CASE /\ create_tokenized_attestation
           /\ step = "create_tokenized_attestation"
  <2>1. CreateTokenizedAttestation(Signer1, credential_pda, schema_pda,
          TestUser, DemoData, env.expiry, Payer, TestUser, MetadataWritten,
          AttestationMintSize)
    BY <1>9 DEF create_tokenized_attestation
  <2>2. AttestationIssued(AttestationPda(credential_pda, schema_pda, TestUser),
          Signer1, DemoData, env.expiry,
          HoldingPda(TestUser, AttestationMintPda(
            AttestationPda(credential_pda, schema_pda, TestUser))))
    BY <1>1, <2>1, DemoKeys, DemoWallets, DemoValues, CreateTokenizedStep
  <2>3. PICK nonce, c, s, token :
          Rewritten(attestation_pda(TestUser), "sas",
            Attestation(nonce, c, s, DemoData, Signer1, env.expiry, token))
    BY <2>2 DEF AttestationIssued, attestation_pda
  <2> DEFINE d == Attestation(nonce, c, s, DemoData, Signer1, env.expiry, token)
  <2>4. d.signer = Signer1 /\ d.expiry = env.expiry
    BY DEF Attestation
  <2> HIDE DEF d
  <2>5. Rewritten(attestation_pda(TestUser), "sas", d)
    BY <2>3 DEF d
  <2>6. IssuedBy(Signer1, env.expiry)
    BY <2>4, <2>5, RewrittenVouched
  <2> QED BY <1>9, <2>6 DEF Issuing
<1>10. CASE close_tokenized_attestation
  <2>1. AttestationClosed(attestation_pda(TestUser), Signer1)
    <3>1. Payer \in Address
      BY DemoWallets, AddressKinds
    <3> QED BY <1>1, <1>10, <3>1, CloseTokenizedStep, DemoKeys, DemoWallets
            DEF close_tokenized_attestation
  <2> QED BY <2>1, RewrittenVouched DEF AttestationClosed, NoData
<1> QED BY <1>3, <1>4, <1>5, <1>6, <1>7, <1>8, <1>9, <1>10
        DEF DemoInstruction, PlainInstruction

LEMMA OthersVouched ==
  ASSUME EnvFits, TokenizedInv, OthersInstruction
  PROVE  \E expiry : IssuedBy(Signer2, expiry)
<1>1. InOrder /\ TokensTyped /\ DOMAIN accounts = Address
  BY ServedOrder
<1>2. /\ AccountsGood(accounts) /\ events \in [Event -> Nat]
      /\ Signer2 \in Address
  BY <1>1, DemoWallets, AddressKinds DEF InOrder
<1>3. CASE ChangeSchemaStatus(credential_pda, schema_pda, TRUE)
  <2>1. SchemaNext /\ UNCHANGED <<events, issued>>
    BY <1>3, DemoKeys DEF SchemaNext, ChangeSchemaStatus
  <2> QED BY <1>1, <2>1, SchemaStep, QuietVouched
<1>4. CASE ChangeAuthorizedSigners(credential_pda, <<Signer2>>, Authority)
  <2>1. CredentialNext /\ UNCHANGED <<events, issued>>
    BY <1>4, DemoKeys, DemoWallets DEF CredentialNext, ChangeAuthorizedSigners
  <2> QED BY <1>1, <2>1, CredentialStep, QuietVouched
<1>5. CASE CloseAttestation(Signer2, credential_pda, attestation_pda(TestUser),
                            Signer2)
  <2>1. AttestationClosed(attestation_pda(TestUser), Signer2)
    BY <1>2, <1>5, CloseAttestationEffect, DemoKeys, DemoWallets
  <2> QED BY <2>1, RewrittenVouched DEF AttestationClosed, NoData
<1>6. ASSUME NEW expiry,
             CreateAttestation(Signer2, credential_pda, schema_pda, TestUser,
                               DemoData, expiry, Signer2)
      PROVE  IssuedBy(Signer2, expiry)
  BY <1>1, <1>6, CreateVouched, DemoWallets
<1>7. CASE CloseTokenizedAttestation(Signer2, credential_pda,
             attestation_pda(TestUser), recipient_token_account, Signer2)
  <2>1. AttestationClosed(attestation_pda(TestUser), Signer2)
    BY <1>1, <1>2, <1>7, CloseTokenizedStep, DemoKeys, DemoWallets
  <2> QED BY <2>1, RewrittenVouched DEF AttestationClosed, NoData
<1>8. CASE \/ \E amount \in TokenPayment :
                FundToken(Signer2, attestation_mint_pda, amount)
           \/ BurnToken(recipient_token_account)
  <2>1. \A x \in Address : accounts'[x].data = accounts[x].data
    <3>1. \A n : \A x \in Address :
            Debit(accounts, Signer2, n)[x].data = accounts[x].data
      BY <1>1 DEF Debit
    <3> QED BY <1>8, <3>1 DEF FundToken, BurnToken
  <2> QED BY <2>1, DemoAddressesApart DEF IssuedBy
<1> QED BY <1>3, <1>4, <1>5, <1>6, <1>7, <1>8 DEF OthersInstruction

(* The client asks for the expiry before anything is issued.               *)
LEMMA SendVouched ==
  ASSUME DemoInv, Vouched, Send
  PROVE  Vouched'
<1> HIDE DEF Transactions
<1>1. /\ phase = "ready" /\ sent' = sent \cup {Step} /\ others' = others
      /\ accounts' = accounts /\ saved' = saved /\ copy' = copy
      /\ Step \notin Issuing => env' = env
  BY DEF Send, Chained, vars
<1>2. Step \in Issuing => Issuing \cap sent = {}
  BY <1>1, DoneBefore DEF DemoInv, OneAhead
<1>3. ASSUME NEW d, NEW u, VouchedFor(d, u)
      PROVE  /\ d.kind = "attestation" =>
                  /\ u = TestUser
                  /\ \/ /\ d.signer = Signer1 /\ d.expiry = env'.expiry
                        /\ Issuing \cap sent' # {}
                     \/ d.signer = Signer2 /\ others' > 0
  <2>1. CASE Step \in Issuing
    BY <1>1, <1>2, <1>3, <2>1 DEF VouchedFor
  <2>2. CASE Step \notin Issuing
    BY <1>1, <1>3, <2>2 DEF VouchedFor
  <2> QED BY <2>1, <2>2
<1> QED BY ONLY <1>1, <1>3, Vouched
        DEF Vouched, VouchedFor, attestation_pda, credential_pda, schema_pda

LEMMA VouchedStep ==
  ASSUME EnvFits, TokenizedInv, DemoInv, LedgerFollows, Vouched,
         [DemoNext]_demoAll, ~Send
  PROVE  Vouched'
<1> HIDE DEF Transactions
<1> DEFINE good(d, u) ==
             d.kind = "attestation" =>
               /\ u = TestUser
               /\ \/ /\ d.signer = Signer1 /\ d.expiry = env'.expiry
                     /\ Issuing \cap sent' # {}
                  \/ d.signer = Signer2 /\ others' > 0
<1>1. /\ env'.expiry = env.expiry /\ sent' = sent
      /\ others \in Nat /\ others' \in {others, others + 1}
  <2>1. env' = env \/ ClockSet
    BY DEF DemoNext, Demo, Runtime, Network, Confirm, Fail, Fetch, Judge,
       VerifyToken, Execute, CommitStep, AbortStep, OthersEnd, Deliver,
       Expire, TimePasses, OthersBegin, OthersAct, RpcError, demoAll, demoVars
  <2>2. env'.expiry = env.expiry
    BY <2>1 DEF EnvFits, ClockSet
  <2>3. sent' = sent /\ others' \in {others, others + 1}
    BY DEF DemoNext, Demo, Runtime, Network, Confirm, Fail, Fetch, Judge,
       VerifyToken, Execute, CommitStep, AbortStep, OthersEnd, Deliver,
       Expire, TimePasses, OthersBegin, OthersAct, RpcError, ClockSet, demoAll,
       demoVars
  <2> QED BY <2>2, <2>3 DEF LedgerFollows, OneInstruction
<1>2. \A d, u : VouchedFor(d, u) => good(d, u)
  BY ONLY <1>1 DEF VouchedFor
<1>3. /\ \A d, u : d.kind # "attestation" => good(d, u)
      /\ \A u : good(NoData, u)
  BY DEF NoData
<1>4. SUFFICES
        \A u \in Users : /\ good(accounts'[attestation_pda(u)].data, u)
                         /\ good(saved'.accounts[attestation_pda(u)].data, u)
                         /\ good(copy'[u], u)
  BY DEF Vouched, VouchedFor, attestation_pda, credential_pda, schema_pda
<1> HIDE DEF good
<1>5. ASSUME \A u \in Users : accounts'[attestation_pda(u)].data
                                = accounts[attestation_pda(u)].data,
             \/ saved' = saved
             \/ saved'.accounts = accounts',
             copy' = copy
      PROVE  \A u \in Users :
               /\ good(accounts'[attestation_pda(u)].data, u)
               /\ good(saved'.accounts[attestation_pda(u)].data, u)
               /\ good(copy'[u], u)
  BY ONLY <1>2, <1>5, Vouched DEF Vouched
<1>6. CASE \/ Confirm \/ Fail \/ Judge \/ VerifyToken \/ TimePasses
           \/ \E step \in Transactions : Expire(step)
           \/ \E step \in Transactions : Deliver(step)
           \/ \E wallet \in {Authority, Signer2, TestUser} :
                OthersBegin(wallet)
           \/ RpcError \/ ClockSet \/ UNCHANGED demoAll
  <2>1. accounts' = accounts /\ saved' = saved /\ copy' = copy
    BY <1>6 DEF Confirm, Fail, Judge, VerifyToken, TimePasses, Tick, Expire,
       Deliver, OthersBegin, Begin, RpcError, ClockSet, demoAll, demoVars,
       Chained, vars
  <2> QED BY <1>5, <2>1
<1>7. CASE Fetch
  <2>1. accounts' = accounts /\ saved' = saved
    BY <1>7 DEF Fetch, Chained, vars
  <2>2. PICK lost \in SUBSET Users :
          copy' = [u \in Users |->
                     IF u \in lost THEN NoData
                     ELSE saved.accounts[attestation_pda(u)].data]
    BY <1>7 DEF Fetch
  <2> QED BY ONLY <1>2, <1>3, <2>1, <2>2, Vouched DEF Vouched
<1>8. CASE CommitTokens /\ copy' = copy
  <2>1. Commit
    BY <1>8 DEF CommitTokens
  <2>2. /\ \A x \in Address : accounts'[x].data = accounts[x].data
        /\ saved'.accounts = accounts'
    BY <2>1, ServedOrder, Committed
  <2>3. \A u \in Users : attestation_pda(u) \in Address
    BY DemoAddressesApart
  <2> QED BY <1>5, <1>8, <2>2, <2>3
<1>9. CASE AbortTokens /\ copy' = copy
  <2>1. accounts' = saved.accounts /\ saved' = saved
    BY <1>9 DEF AbortTokens, Abort
  <2> QED BY ONLY <1>2, <1>9, <2>1, Vouched DEF Vouched
<1>10. CASE CommitStep \/ AbortStep \/ OthersEnd
  BY <1>8, <1>9, <1>10 DEF CommitStep, AbortStep, OthersEnd
<1>11. ASSUME NEW signer, NEW expiry, IssuedBy(signer, expiry),
              saved' = saved, copy' = copy,
              \/ /\ signer = Signer1 /\ expiry = env.expiry
                 /\ Issuing \cap sent # {}
              \/ signer = Signer2 /\ others > 0
       PROVE  \A u \in Users :
                /\ good(accounts'[attestation_pda(u)].data, u)
                /\ good(saved'.accounts[attestation_pda(u)].data, u)
                /\ good(copy'[u], u)
  <2>1. \A d : d.signer = signer /\ d.expiry = expiry => good(d, TestUser)
    BY ONLY <1>1, <1>11 DEF good
  <2> QED BY ONLY <1>2, <1>3, <1>11, <2>1, Vouched DEF Vouched, IssuedBy
<1>12. CASE Execute
  <2>1. running \in Transactions /\ DemoInstruction(running) /\ copy' = copy
    BY <1>12 DEF Execute, demoVars
  <2>2. saved' = saved
    BY <2>1, DemoInstructionRuns DEF Instruction
  <2>3. running \in sent
    BY <2>1 DEF DemoInv, RunningFits
  <2>4. CASE IssuedBy(Signer1, env.expiry) /\ running \in Issuing
    BY <1>11, <2>1, <2>2, <2>3, <2>4
  <2>5. CASE \A signer, expiry : IssuedBy(signer, expiry)
    <3>1. \A u \in Users :
            \/ accounts'[attestation_pda(u)].data
                 = accounts[attestation_pda(u)].data
            \/ accounts'[attestation_pda(u)].data.kind # "attestation"
      <4>1. IssuedBy("none", 0) /\ IssuedBy("others", 0)
        BY <2>5
      <4> QED BY <4>1 DEF IssuedBy
    <3> QED BY ONLY <1>2, <1>3, <2>1, <2>2, <3>1, Vouched DEF Vouched
  <2> QED BY <2>1, <2>4, <2>5, DemoVouched
<1>13. CASE OthersAct
  <2>1. running = "others" /\ OthersInstruction /\ copy' = copy
    BY <1>13 DEF OthersAct, demoVars
  <2>2. others > 0
    BY <2>1 DEF LedgerFollows, OneInstruction
  <2>3. saved' = saved
    BY <2>1 DEF OthersInstruction, ChangeSchemaStatus, ChangeAuthorizedSigners,
       CloseAttestation, CreateAttestation, CloseTokenizedAttestation,
       FundToken, BurnToken, Instruction
  <2>4. PICK expiry : IssuedBy(Signer2, expiry)
    BY <2>1, OthersVouched
  <2> QED BY <1>11, <2>1, <2>2, <2>3, <2>4
<1> QED BY <1>6, <1>7, <1>10, <1>12, <1>13 DEF DemoNext, Demo, Runtime, Network

LEMMA VouchedInit ==
  ASSUME DemoInit
  PROVE  Vouched
<1>1. /\ TokenizedInit /\ copy = [u \in Users |-> NoData]
  BY DEF DemoInit
<1>2. \A a \in Address : accounts[a].data = NoData
  BY <1>1 DEF TokenizedInit, Init, Vacant
<1>3. saved.accounts = accounts
  BY <1>1 DEF TokenizedInit, Init, Chain
<1>4. \A u \in Users : attestation_pda(u) \in Address
  BY DemoAddressesApart
<1>5. NoData.kind # "attestation"
  BY DEF NoData
<1> QED BY ONLY <1>1, <1>2, <1>3, <1>4, <1>5 DEF Vouched, VouchedFor

LEMMA VouchedThroughout == DemoSpec => []Vouched
<1>1. DemoInit => Vouched
  BY VouchedInit
<1>2. /\ EnvFits /\ TokenizedInv /\ DemoInv /\ LedgerFollows /\ Vouched
      /\ [DemoNext]_demoAll
      => Vouched'
  BY SendVouched, VouchedStep
<1> QED BY <1>1, <1>2, ServedThroughout, DemoInvariantHolds,
           LedgerFollowsThroughout, PTL DEF DemoSpec

(* Whatever changes between the fetch and the verdict, whoever acts and    *)
(* however the local clock is set: a stranger is not verified, the word of *)
(* the attester is good until the expiry that it asked for, and the user   *)
(* is refused before only if the account could not be fetched or others    *)
(* had acted.                                                              *)
THEOREM VerdictsAreRight == DemoSpec => VerdictsRight
<1> DEFINE right ==
             /\ answer'[RandomUser] = "not verified"
             /\ answer'[TestUser] = "verified" =>
                  \/ LocalTime < env.expiry
                  \/ others > 0 /\ SignedBy(copy[TestUser], Signer2)
             /\ answer'[TestUser] = "not verified" =>
                  \/ LocalTime >= env.expiry
                  \/ TestUser \in missed
                  \/ others > 0 /\ ~SignedBy(copy[TestUser], Signer1)
<1>1. ASSUME EnvFits, LedgerFollows, Vouched, [DemoNext]_demoAll,
             answer' # answer
      PROVE  right
  <2> HIDE DEF Transactions
  <2>1. Judge
    BY <1>1 DEF DemoNext, Demo, Runtime, Network, Send, Confirm, Fail,
       Fetch, VerifyToken, Execute, CommitStep, AbortStep, OthersEnd, Deliver,
       Expire, TimePasses, OthersBegin, OthersAct, RpcError, ClockSet, demoAll,
       demoVars
  <2>2. /\ answer'[RandomUser] = IF IsValid(copy[RandomUser]) THEN "verified"
                                 ELSE "not verified"
        /\ answer'[TestUser] = IF IsValid(copy[TestUser]) THEN "verified"
                               ELSE "not verified"
    BY <2>1, DemoWallets DEF Judge
  <2>3. ~IsValid(copy[RandomUser])
    BY <1>1, DemoWallets, ArgumentAssumption DEF Vouched, VouchedFor, IsValid
  <2>4. LocalTime \in Int /\ env.expiry \in Int
    <3>1. /\ env.drift \in Drift /\ env.expiry \in Expiry
          /\ clock \in 1 .. MaxClock
      BY <1>1 DEF EnvFits
    <3>2. Drift \subseteq Int /\ Expiry \subseteq Int
      BY DomainAssumption, DemoAssumption
    <3>3. clock \in Int
      BY ONLY <3>1
    <3>4. env.drift \in Int /\ env.expiry \in Int
      BY ONLY <3>1, <3>2
    <3> QED BY ONLY <3>3, <3>4 DEF LocalTime
  <2>5. others \in Nat
    BY <1>1 DEF LedgerFollows, OneInstruction
  <2>6. copy[TestUser].kind = "attestation" =>
          \/ /\ copy[TestUser].signer = Signer1
             /\ copy[TestUser].expiry = env.expiry
          \/ copy[TestUser].signer = Signer2 /\ others > 0
    BY <1>1, DemoWallets DEF Vouched, VouchedFor
  <2>7. CASE IsValid(copy[TestUser])
    BY <2>2, <2>3, <2>6, <2>7 DEF IsValid, SignedBy
  <2>8. CASE ~IsValid(copy[TestUser])
    <3> SUFFICES ASSUME LocalTime < env.expiry, TestUser \notin missed
                 PROVE  others > 0 /\ ~SignedBy(copy[TestUser], Signer1)
      <4>1. /\ answer'[RandomUser] = "not verified"
            /\ answer'[TestUser] # "verified"
        BY <2>2, <2>3, <2>8
      <4>2. LocalTime < env.expiry \/ LocalTime >= env.expiry
        BY ONLY <2>4
      <4> QED BY <4>1, <4>2
    <3>1. copy[TestUser].kind = "attestation" =>
            copy[TestUser].expiry # env.expiry
      BY <2>8 DEF IsValid
    <3>2. others # 0
      BY <1>1, <2>1, <3>1 DEF LedgerFollows, CopyRight, Judge
    <3>3. ~SignedBy(copy[TestUser], Signer1)
      BY <2>6, <3>1, ArgumentAssumption DEF SignedBy
    <3> QED BY <2>5, <3>2, <3>3
  <2> QED BY <2>7, <2>8
<1>2. EnvFits /\ LedgerFollows /\ Vouched /\ [DemoNext]_demoAll =>
        [answer' # answer => right]_answer
  BY <1>1
<1> QED BY <1>2, ServedThroughout, LedgerFollowsThroughout, VouchedThroughout,
           PTL DEF DemoSpec, VerdictsRight

(* The look at the token panics only where there is no mint any more and   *)
(* others have acted: the mint of the attestation is in the group of the   *)
(* schema, and its metadata names the attestation and then the schema.     *)
THEOREM PanicsAreExplained == DemoSpec => PanicExplained
<1> DEFINE mint == savedTokens[attestation_mint_pda].data
<1>1. ASSUME TokenizedInv, mint.kind = "mint"
      PROVE  AsExpected(mint)
  <2> DEFINE a == attestation_pda(TestUser)
             d == saved.accounts[a].data
  <2>1. /\ a \in AttestationAddress /\ a \in Address
        /\ attestation_mint_pda = AttestationMintPda(a)
    BY DemoKeys, DemoWallets, AddressKinds DEF attestation_mint_pda
  <2>2. /\ HeldIn(saved.accounts, a, "attestation")
        /\ mint.group = SchemaMintPda(d.schema)
        /\ mint.additional_metadata = Metadata(a, d.schema)
    BY <1>1, <2>1 DEF TokenizedInv, TokensGood, MintsMatchIn, TokenizedIn
  <2>3. BoundIn(saved.accounts)
    BY <1>1 DEF TokenizedInv, ServiceInv, IInv, LedgerInv
  <2>4. a = AttestationPda(d.credential, d.schema, d.nonce)
    BY ONLY <2>1, <2>2, <2>3
       DEF BoundIn, HeldIn, OwnPda, BlankCredential, Credential
  <2>5. a = AttestationPda(credential_pda, schema_pda, TestUser)
    BY DEF attestation_pda
  <2> HIDE DEF d
  <2>6. d.schema = schema_pda
    <3> HIDE DEF a
    <3> QED BY ONLY <2>4, <2>5 DEF AttestationPda
  <2>7. mint.group = schema_mint_pda
    BY <2>2, <2>6 DEF schema_mint_pda
  <2>8. mint.additional_metadata = Metadata(a, schema_pda)
    BY <2>2, <2>6
  <2> HIDE DEF mint
  <2> QED BY <1>1, <2>7, <2>8 DEF AsExpected, Metadata
<1>2. ASSUME TokenizedInv, DemoInv, LedgerFollows, [DemoNext]_demoAll,
             phase' = "panicked", phase' # phase
      PROVE  others > 0 /\ mint.kind # "mint"
  <2> HIDE DEF Transactions
  <2>1. VerifyToken
    BY <1>2 DEF DemoNext, Demo, Runtime, Network, Send, Confirm, Fail,
       Fetch, Judge, Execute, CommitStep, AbortStep, OthersEnd, Deliver,
       Expire, TimePasses, OthersBegin, OthersAct, RpcError, ClockSet, demoAll,
       demoVars, Advance
  <2>2. /\ phase = "ready" /\ Step = "verify_token_attestation"
        /\ ~AsExpected(mint)
    BY <1>2, <2>1 DEF VerifyToken, Advance
  <2>3. mint.kind # "mint"
    BY <1>1, <1>2, <2>2
  <2>4. others # 0
    <3> SUFFICES ASSUME others = 0
                 PROVE  FALSE
      OBVIOUS
    <3>1. Range(log) = Taken(pc - 1)
      BY <1>2, <2>2 DEF DemoInv, OneAhead
    <3>2. Minted(Range(log))
      BY <1>2, <2>2, <3>1, DoneBefore
    <3>3. StageIn(saved.accounts, savedTokens, env.expiry, Range(log))
      BY <1>2 DEF LedgerFollows, Staged
    <3> QED BY <2>3, <3>2, <3>3 DEF StageIn
  <2> QED BY <1>2, <2>3, <2>4 DEF LedgerFollows, OneInstruction
<1>3. TokenizedInv /\ DemoInv /\ LedgerFollows /\ [DemoNext]_demoAll =>
        [phase' = "panicked" => others > 0 /\ mint.kind # "mint"]_phase
  BY <1>2
<1> QED BY <1>3, ServedThroughout, DemoInvariantHolds, LedgerFollowsThroughout,
           PTL DEF DemoSpec, PanicExplained

(* When a demo is done all the lamports of the airdrop are in the wallet   *)
(* of the payer or the rent of what it leaves behind, and the attestation  *)
(* and its mint are gone.                                                  *)
THEOREM RentComesBack == DemoSpec => []RentReturned
<1>1. ASSUME TokenizedInv, DemoInv, LedgerFollows
      PROVE  RentReturned
  <2> HIDE DEF Transactions
  <2> SUFFICES ASSUME phase = "done", others = 0
               PROVE  /\ accounts[attestation_pda(TestUser)] = Vacant
                      /\ tokens[attestation_mint_pda] = Vacant
                      /\ Airdrop = SumOver(accounts, Remaining)
                                     + SumOver(tokens, RemainingTokens)
    BY DEF RentReturned, SumOver
  <2>1. Executed = Range(log)
    BY <1>1, RunningIsNext DEF Executed
  <2>2. pc = Len(flow) /\ Range(log) = Taken(pc)
    BY <1>1 DEF DemoInv, PhaseFits
  <2>3. /\ "fund_payer" \in Taken(pc)
        /\ ~Live(Taken(pc)) /\ ~Minted(Taken(pc))
    BY <1>1, <2>2, DoneBefore
  <2>4. StageIn(accounts, tokens, env.expiry, Taken(pc))
    BY <1>1, <2>1, <2>2 DEF LedgerFollows, Staged
  <2>5. /\ accounts[attestation_pda(TestUser)] = Vacant
        /\ tokens[attestation_mint_pda] = Vacant
        /\ TotalLamports(accounts) + TotalLamports(tokens) = Airdrop
    BY <2>3, <2>4 DEF StageIn
  <2>6. TotalLamports(accounts) = SumOver(accounts, Remaining)
    <3>1. Remaining \in SUBSET Address
      BY DemoAddressesApart DEF Remaining
    <3>2. \A x \in Address \ Remaining : accounts[x].lamports = 0
      BY <2>4, <2>5 DEF StageIn, Used, Remaining, Vacant
    <3>3. /\ DOMAIN accounts = Address
          /\ \A x \in Address : accounts[x].lamports \in Int
      BY <1>1, ServedOrder, BalanceType
    <3> QED BY ONLY <3>1, <3>2, <3>3, FinitenessAssumption, TotalOfPart
  <2>7. TotalLamports(tokens) = SumOver(tokens, RemainingTokens)
    <3>1. RemainingTokens \in SUBSET TokenAddress
      BY DemoAddressesApart DEF RemainingTokens, UsedTokens
    <3>2. \A t \in TokenAddress \ RemainingTokens : tokens[t].lamports = 0
      BY <2>4, <2>5 DEF StageIn, UsedTokens, RemainingTokens, Vacant
    <3>3. /\ DOMAIN tokens = TokenAddress
          /\ \A t \in TokenAddress : tokens[t].lamports \in Int
      BY <1>1, ServedOrder, TokenBalances DEF TokensTyped
    <3> QED BY ONLY <3>1, <3>2, <3>3, TokenFinitenessAssumption, TotalOfPart
  <2> QED BY <2>5, <2>6, <2>7
<1> QED BY <1>1, ServedThroughout, DemoInvariantHolds,
           LedgerFollowsThroughout, PTL

----------------------------------------------------------------------------
(* All lamports are of the airdrop, whoever acts.                          *)

AirdropOf(S) == IF "fund_payer" \in S THEN Airdrop ELSE 0

NothingLostInDemo ==
  /\ TotalLamports(accounts) + TotalLamports(tokens) = AirdropOf(Executed)
  /\ TotalLamports(saved.accounts) + TotalLamports(savedTokens)
       = AirdropOf(Range(log))

LEMMA NothingLostInit ==
  ASSUME DemoInit
  PROVE  NothingLostInDemo
<1>1. Staged /\ others = 0
  BY FollowsInit DEF LedgerFollows, DemoInit
<1> QED BY <1>1 DEF Staged, StageIn, NothingLostInDemo, AirdropOf

LEMMA NothingLostStep ==
  ASSUME EnvFits, TokenizedInv, DemoInv, LedgerFollows, NothingLostInDemo,
         [DemoNext]_demoAll
  PROVE  NothingLostInDemo'
<1> "none" \notin Transactions /\ "others" \notin Transactions
  BY TransactionsAreSteps
<1> HIDE DEF Transactions
<1>1. ASSUME [TokenizedNext]_allVars,
             AirdropOf(Executed) = AirdropOf(Range(log)),
             AirdropOf(Executed') = AirdropOf(Range(log)),
             AirdropOf(Range(log')) = AirdropOf(Range(log))
      PROVE  NothingLostInDemo'
  <2>1. StepTotals
    BY <1>1, TokenizedStepTotals
  <2>2. NothingLostInDemo' <=>
          /\ TotalLamports(accounts') + TotalLamports(tokens')
               = AirdropOf(Executed')
          /\ TotalLamports(saved'.accounts) + TotalLamports(savedTokens')
               = AirdropOf(Range(log'))
    BY DEF NothingLostInDemo, AirdropOf
  <2>3. CASE AbortTokens
    BY ONLY <1>1, <2>2, <2>3, NothingLostInDemo
       DEF AbortTokens, Abort, NothingLostInDemo
  <2> QED BY ONLY <1>1, <2>1, <2>2, <2>3, NothingLostInDemo
             DEF StepTotals, TotalsKept, TotalsSaved, NothingLostInDemo
<1>2. CASE \/ Send \/ Confirm \/ Fail \/ Fetch \/ Judge \/ VerifyToken
           \/ \E step \in Transactions : Expire(step)
           \/ RpcError \/ ClockSet \/ TimePasses \/ UNCHANGED demoAll
  <2>1. /\ accounts' = accounts /\ saved' = saved /\ ixs' = ixs
        /\ tokens' = tokens /\ savedTokens' = savedTokens
        /\ running' = running /\ log' = log
    BY <1>2 DEF Send, Confirm, Fail, Fetch, Judge, VerifyToken, Expire,
                RpcError, ClockSet, TimePasses, Tick, Chained, vars, tokenVars,
                demoVars, demoAll
  <2>2. Executed' = Executed
    BY <2>1 DEF Executed
  <2> QED BY <2>1, <2>2 DEF NothingLostInDemo, AirdropOf
<1>3. CASE \/ \E step \in Transactions : Deliver(step)
           \/ \E wallet \in {Authority, Signer2, TestUser} : OthersBegin(wallet)
           \/ OthersAct \/ OthersEnd
  <2>1. running \notin Transactions
    BY <1>3 DEF Deliver, OthersBegin, OthersAct, OthersEnd
  <2>2. /\ log' = log
        /\ running' \in Transactions => ixs' = 0
    BY <1>3 DEF Deliver, OthersBegin, OthersAct, OthersEnd, Begin, demoVars
  <2>3. Executed = Range(log) /\ Executed' = Range(log)
    BY <2>1, <2>2 DEF Executed
  <2>4. [TokenizedNext]_allVars
    <3>1. ~Execute
      BY <2>1 DEF Execute
    <3> QED BY <3>1, StepIsServiceStep
  <2> QED BY <1>1, <2>2, <2>3, <2>4
<1>4. CASE Execute
  <2>1. /\ running \in Transactions /\ ixs = 0 /\ DemoInstruction(running)
        /\ running' = running /\ log' = log
    BY <1>4 DEF Execute, demoVars
  <2>2. Instruction /\ savedTokens' = savedTokens
    BY <2>1, DemoInstructionRuns
  <2>3. ixs' = 1 /\ saved' = saved
    BY <2>1, <2>2 DEF Instruction
  <2>4. Executed = Range(log) /\ Executed' = Range(log) \cup {running}
    BY <2>1, <2>3 DEF Executed
  <2>5. CASE running = "fund_payer"
    <3>1. fund_payer /\ tokens' = tokens
      BY <2>1, <2>5 DEF DemoInstruction, PlainInstruction, tokenVars
    <3>2. "fund_payer" \notin Range(log)
      BY <2>1, <2>5, RunningIsNext
    <3>3. AirdropOf(Executed) = 0 /\ AirdropOf(Executed') = Airdrop
      BY <2>4, <2>5, <3>2 DEF AirdropOf
    <3>4. /\ TotalLamports(accounts') = TotalLamports(accounts) + Airdrop
          /\ TotalLamports(accounts) \in Int /\ TotalLamports(tokens) \in Int
          /\ Airdrop \in Nat
      <4>1. /\ accounts \in [Address -> Account]
            /\ Payer \in Address /\ Airdrop \in Nat
        BY ServedOrder, DemoWallets, DemoAssumption, AddressKinds
      <4> QED BY <3>1, <4>1, ServedOrder, CreditTotal DEF fund_payer
    <3>5. TotalLamports(accounts') + TotalLamports(tokens')
            = AirdropOf(Executed')
      BY ONLY <3>1, <3>3, <3>4, NothingLostInDemo DEF NothingLostInDemo
    <3> QED BY <2>1, <2>2, <2>3, <3>5 DEF NothingLostInDemo, AirdropOf
  <2>6. CASE running # "fund_payer"
    <3>1. [TokenizedNext]_allVars
      <4>1. \/ /\ CredentialNext \/ SchemaNext \/ AttestationNext
               /\ UNCHANGED tokenVars
            \/ TokenizationNext
        BY <2>1, <2>6, DemoInstructions DEF DemoInstruction, PlainInstruction
      <4> QED BY <4>1 DEF TokenizedNext, OtherNext
    <3>2. AirdropOf(Executed') = AirdropOf(Range(log))
      BY <2>4, <2>6 DEF AirdropOf
    <3> QED BY <1>1, <2>1, <2>4, <3>1, <3>2
  <2> QED BY <2>5, <2>6
<1>5. CASE CommitStep
  <2>1. /\ CommitTokens /\ running' = "none"
        /\ Executed = Range(log) \cup {running}
        /\ log \in Seq(Transactions) /\ log' = Append(log, running)
    BY <1>5 DEF CommitStep, Executed, DemoInv, LogKept
  <2>2. Executed = Range(log') /\ Executed' = Range(log')
    BY <2>1, RangeOfAppend DEF Executed
  <2>3. TotalsKept /\ TotalsSaved
    BY <2>1, CommitTotals
  <2> QED BY <2>2, <2>3
             DEF NothingLostInDemo, TotalsKept, TotalsSaved, AirdropOf
<1>6. CASE AbortStep
  <2>1. /\ accounts' = saved.accounts /\ tokens' = savedTokens
        /\ saved' = saved /\ savedTokens' = savedTokens
        /\ running' = "none" /\ log' = log
    BY <1>6 DEF AbortStep, AbortTokens, Abort
  <2>2. Executed' = Range(log)
    BY <2>1 DEF Executed
  <2> QED BY <2>1, <2>2 DEF NothingLostInDemo, AirdropOf
<1> QED BY <1>2, <1>3, <1>4, <1>5, <1>6
     DEF DemoNext, Demo, Runtime, Network

(* The issuer pauses, the holder burns, the second attester replaces the   *)
(* attestation at its own expense, transactions fail half way: at every    *)
(* step all the lamports there are are those of the airdrop.               *)
THEOREM NothingLostInDemos == DemoSpec => []NothingLostInDemo
<1>1. DemoInit => NothingLostInDemo
  BY NothingLostInit
<1>2. /\ EnvFits /\ TokenizedInv /\ DemoInv /\ LedgerFollows
      /\ NothingLostInDemo /\ [DemoNext]_demoAll
      => NothingLostInDemo'
  BY NothingLostStep
<1> QED BY <1>1, <1>2, ServedThroughout, DemoInvariantHolds,
           LedgerFollowsThroughout, PTL DEF DemoSpec

=============================================================================
