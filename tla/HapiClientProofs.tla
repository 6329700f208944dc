--------------------------- MODULE HapiClientProofs ---------------------------
(***************************************************************************)
(* The clients implement the ledger's specification: whatever they do, the *)
(* chain only makes steps of HapiLedger, so that every theorem about the   *)
(* ledger holds of the clients and the chain together, for any scripts,    *)
(* either commitment and any number of failures.                           *)
(*                                                                         *)
(* And what the clients send, and what becomes of it on the chain.  The    *)
(* addresses in a message are those the program derives, so that the       *)
(* program refuses no message for its seeds; an edit of an address is      *)
(* always refused.  What a client has seen while it prepared a message     *)
(* still holds when the message lands, however late.                       *)
(***************************************************************************)
EXTENDS HapiClientProperties, HapiActionProofs

\* What a client reads is a ledger in order, be it confirmed or finalized.
ClientInv == /\ Inv
             /\ ClientTypeOK
             /\ LedgerOK(finalAccounts)

-----------------------------------------------------------------------------
(* What a client reads.                                                    *)

LEMMA SeenInOrder ==
  ASSUME ClientInv, NEW k \in Client
  PROVE  LedgerOK(Seen(k)) /\ IsLedger(Seen(k))
BY DEF ClientInv, Inv, Seen, LedgerOK

\* The account at the address of a community is a community, with a counter.
LEMMA CommunityData ==
  ASSUME NEW s, LedgerOK(s), NEW name, CommunityAddress(name) \in DOMAIN s
  PROVE  s[CommunityAddress(name)].next_case_id \in CaseId
<1>. DEFINE a == CommunityAddress(name)
<1>1. s[a] \in AccountData
  BY DEF LedgerOK, IsLedger
<1>2. OnItsOwnAddress(s, a)
  BY DEF LedgerOK
<1>3. s[a].account_type = "Community"
  BY <1>2, AddressesDiffer DEF OnItsOwnAddress
<1>4. s[a] \in Community
  BY <1>1, <1>3, DataFields
<1>. QED
  BY <1>4 DEF Community

\* The calls that open a case look up the community first.
LEMMA CounterLookUp ==
  ASSUME NEW key, NEW c, NEW id, OpensCase(c)
  PROVE  PlanOf(key, c, id).lookups[1]
             = Exists(CommunityAddress(c.community))
<1>1. CASE c.method = "createCase"
  <2>1. PlanOf(key, c, id) = createCase(key, c, id)
    BY <1>1 DEF PlanOf
  <2>. QED
    BY <2>1 DEF createCase, Plan, Exists
<1>2. CASE c.method = "cmd_create_case"
  <2>1. PlanOf(key, c, id) = cmd_create_case(key, c, id)
    BY <1>2 DEF PlanOf
  <2>. QED
    BY <2>1 DEF cmd_create_case, Plan, Exists, Missing
<1>. QED
  BY <1>1, <1>2 DEF OpensCase

\* The id a call goes on with is always one that a case may have.
LEMMA RememberedId ==
  ASSUME ClientInv, NEW k \in Client, LookingUp(k), Confirms(k, LookUp(k))
  PROVE  Remember(k, LookUp(k).account) \in CaseId
<1>1. CASE ReadsCounter(k)
  <2>0. LookUp(k) = Exists(CommunityAddress(CallOf(k).community))
    BY <1>1, CounterLookUp DEF LookUp, ReadsCounter, PlanNow
  <2>1. LookUp(k).account = CommunityAddress(CallOf(k).community)
    BY <2>0 DEF Exists
  <2>2. LookUp(k).account \in DOMAIN Seen(k)
    BY <1>1 DEF Confirms
  <2>. QED
    BY <1>1, <2>1, <2>2, SeenInOrder, CommunityData DEF Remember
<1>2. CASE ~ReadsCounter(k)
  BY <1>2 DEF Remember, LookingUp, InPhase, ClientInv, ClientTypeOK, Session,
              Idle
<1>. QED
  BY <1>1, <1>2

\* A message that is sent is one of the ledger's transactions.
LEMMA MessagesAreTransactions ==
  ASSUME ClientInv, NEW k \in Client, InPhase(k, "checking")
  PROVE  MessageOf(k).by = k /\ MessageOf(k).tx \in Transactions
<1>1. session[k].id \in CaseId /\ Todo(k)
  BY DEF ClientInv, ClientTypeOK, Session, Idle, InPhase
<1>2. Len(answers[k]) + 1 \in 1 .. Len(Script[k])
  <2>1. Len(answers[k]) \in Nat
    BY DEF ClientInv, ClientTypeOK
  <2>. QED
    BY <1>1, <2>1, ClientsAssumption DEF Todo
<1>3. Sent(k, PlanOf(k, Script[k][Len(answers[k]) + 1],
                     session[k].id).built) \in Transactions
  BY <1>1, <1>2, ClientsAssumption
<1>. QED
  BY <1>3 DEF MessageOf, PlanNow, CallOf

-----------------------------------------------------------------------------
(* Every step keeps the invariant, and is a step of the ledger or none.    *)

LEMMA ClientInitInv == ClientInit => ClientInv
<1>. SUFFICES ASSUME ClientInit PROVE ClientInv
  OBVIOUS
<1>1. Inv
  BY InitInv DEF ClientInit
<1>2. ClientTypeOK
  BY <1>1, ClientsAssumption
     DEF ClientInit, ClientTypeOK, Session, Inv, TypeOK
<1>. QED
  BY <1>1, <1>2 DEF ClientInv, Inv, ClientInit

\* A step of the clients leaves the chain as it is.
LEMMA Untouched ==
  ASSUME ClientInv, UNCHANGED vars
  PROVE  Inv'
BY NextInv DEF ClientInv

LEMMA BusySessions ==
  ASSUME ClientTypeOK, NEW k \in Client, session[k] # Idle
  PROVE  Todo(k) /\ session[k].read \in Nat /\ session[k].id \in CaseId
BY DEF ClientTypeOK, Session

\* A step of client k concerns no other client's call.
LEMMA OnlyItsCall ==
  ASSUME ClientTypeOK, NEW k \in Client,
         \A j \in Client \ {k} : session'[j] = session[j]
                                 /\ answers'[j] = answers[j],
         \/ session'[k] = Idle
         \/ Todo(k) /\ answers'[k] = answers[k]
  PROVE  \A j \in Client : session'[j] # Idle => Todo(j)'
<1>. SUFFICES ASSUME NEW j \in Client, session'[j] # Idle
              PROVE  Todo(j)'
  OBVIOUS
<1>1. CASE j = k
  BY <1>1 DEF Todo
<1>2. CASE j # k
  <2>1. answers'[j] = answers[j] /\ session[j] # Idle
    BY <1>2
  <2>2. Todo(j)
    BY <2>1 DEF ClientTypeOK
  <2>. QED
    BY <2>1, <2>2 DEF Todo
<1>. QED
  BY <1>1, <1>2

LEMMA AnswerTyped ==
  ASSUME ClientTypeOK, NEW k \in Client, session[k] # Idle,
         NEW data \in AccountData \cup {NoData}, Answer(k, data)
  PROVE  /\ answers' \in [Client -> Seq(AnswerType)]
         /\ session' \in [Client -> Session]
         /\ session'[k] = Idle
         /\ \A j \in Client \ {k} : session'[j] = session[j]
                                    /\ answers'[j] = answers[j]
<1>. DEFINE new == [id |-> session[k].id, data |-> data]
<1>1. new \in AnswerType
  BY BusySessions DEF AnswerType
<1>2. Append(answers[k], new) \in Seq(AnswerType)
  BY <1>1 DEF ClientTypeOK
<1>3. answers' = [answers EXCEPT ![k] = Append(answers[k], new)]
  BY DEF Answer
<1>4. answers' \in [Client -> Seq(AnswerType)]
  BY <1>2, <1>3 DEF ClientTypeOK
<1>5. \A j \in Client \ {k} : answers'[j] = answers[j]
  BY <1>3 DEF ClientTypeOK
<1>6. /\ session' \in [Client -> Session]
      /\ session'[k] = Idle
      /\ \A j \in Client \ {k} : session'[j] = session[j]
  BY DEF Answer, Throw, ClientTypeOK, Session
<1>. QED
  BY <1>4, <1>5, <1>6

\* Throwing an error, in doubt or not.
LEMMA ThrowTyped ==
  ASSUME ClientTypeOK, NEW k \in Client, Throw(k)
  PROVE  /\ session' \in [Client -> Session]
         /\ session'[k] = Idle
         /\ \A j \in Client \ {k} : session'[j] = session[j]
         /\ Doubt(k) => doubts' \in [Client -> Nat]
<1>1. Doubt(k) => doubts' \in [Client -> Nat]
  BY DEF ClientTypeOK, Doubt
<1>2. Idle \in Session
  BY DEF Session
<1>. QED
  BY <1>1, <1>2 DEF ClientTypeOK, Throw

\* Going on with the call.
LEMMA GoesOnTyped ==
  ASSUME ClientTypeOK, NEW k \in Client,
         NEW b \in Session, session' = [session EXCEPT ![k] = b]
  PROVE  /\ session' \in [Client -> Session]
         /\ \A j \in Client \ {k} : session'[j] = session[j]
BY DEF ClientTypeOK

LEMMA FaultTyped ==
  ASSUME ClientTypeOK, Fault
  PROVE  faults' \in 0 .. MaxFaults
BY ClientsAssumption DEF ClientTypeOK, Fault

LEMMA ClientStepInv ==
  ASSUME ClientInv, NEW k \in Client, ClientStep(k)
  PROVE  ClientInv' /\ UNCHANGED vars
<1>. USE DEF ClientInv
<1>0. UNCHANGED vars /\ UNCHANGED finalAccounts
  BY DEF ClientStep, Call, Check, CheckFails, Refuse, Send, Confirm, TimeOut,
         GiveUp, ReadBack, ReadBackFails, final
<1>. SUFFICES ClientTypeOK'
  BY <1>0, Untouched
<1>a. \A phase \in {"checking", "confirming", "returning"} :
          InPhase(k, phase) => session[k] # Idle
  BY DEF InPhase, Idle
<1>1. CASE Call(k)
  <2>1. Busy("checking", 0, 0) \in Session
    BY CaseIdAssumption DEF Busy, Session, CaseId
  <2>. QED
    BY <1>0, <1>1, <2>1, GoesOnTyped, OnlyItsCall
       DEF Call, ClientTypeOK, vars, final
<1>2. CASE Check(k)
  <2>. DEFINE id == Remember(k, LookUp(k).account)
  <2>1. CASE Confirms(k, LookUp(k))
    <3>1. session[k] # Idle /\ Pass(k, id)
      BY <1>2, <1>a, <2>1 DEF Check, LookingUp
    <3>2. id \in CaseId
      BY <1>2, <2>1, RememberedId DEF Check
    <3>3. Busy("checking", session[k].read + 1, id) \in Session
      BY <3>1, <3>2, BusySessions DEF Busy, Session
    <3>. QED
      BY <1>0, <1>2, <3>1, <3>3, GoesOnTyped, OnlyItsCall, BusySessions
         DEF Check, Pass, ClientTypeOK, vars, final
  <2>2. CASE ~Confirms(k, LookUp(k))
    BY <1>0, <1>2, <2>2, ThrowTyped, OnlyItsCall
       DEF Check, ClientTypeOK, vars, final
  <2>. QED
    BY <2>1, <2>2
<1>3. CASE CheckFails(k)
  <2>1. CASE Throw(k)
    BY <1>0, <1>3, <2>1, ThrowTyped, OnlyItsCall, FaultTyped
       DEF CheckFails, ClientTypeOK, vars, final
  <2>2. CASE Pass(k, session[k].id)
    <3>1. session[k] # Idle
      BY <1>3, <1>a DEF CheckFails, LookingUp, Checked
    <3>2. Busy("checking", session[k].read + 1, session[k].id) \in Session
      BY <3>1, BusySessions DEF Busy, Session
    <3>. QED
      BY <1>0, <1>3, <2>2, <3>1, <3>2, GoesOnTyped, OnlyItsCall, BusySessions,
         FaultTyped
         DEF CheckFails, Pass, ClientTypeOK, vars, final
  <2>. QED
    BY <1>3, <2>1, <2>2 DEF CheckFails
<1>4. CASE Refuse(k)
  BY <1>0, <1>4, ThrowTyped, OnlyItsCall DEF Refuse, ClientTypeOK, vars, final
<1>5. CASE Send(k)
  <2>1. session[k] # Idle /\ GoTo(k, "confirming")
    BY <1>5, <1>a DEF Send, Checked
  <2>2. Busy("confirming", session[k].read, session[k].id) \in Session
    BY <2>1, BusySessions DEF Busy, Session
  <2>3. MessageOf(k).by = k /\ MessageOf(k).tx \in Transactions
    BY <1>5, MessagesAreTransactions DEF Send, Checked
  <2>4. \A m \in flying' : m.by \in Client /\ m.tx \in Transactions
    BY <1>5, <2>3 DEF Send, ClientTypeOK
  <2>5. /\ outcome' \in [Client -> VerdictType \cup {Pending}]
        /\ finalOutcome' \in [Client -> VerdictType \cup {Pending}]
    BY <1>5 DEF Send, ClientTypeOK
  <2>6. /\ session' \in [Client -> Session]
        /\ \A j \in Client : session'[j] # Idle => Todo(j)'
    BY <1>5, <2>1, <2>2, GoesOnTyped, OnlyItsCall, BusySessions
       DEF Send, GoTo
  <2>. QED
    BY <1>0, <1>5, <2>4, <2>5, <2>6 DEF Send, ClientTypeOK, vars, final
<1>6. CASE Confirm(k)
  <2>1. session[k] # Idle
    BY <1>6, <1>a DEF Confirm
  <2>2. CASE Throw(k) /\ UNCHANGED answers
    BY <1>0, <1>6, <2>2, ThrowTyped, OnlyItsCall
       DEF Confirm, ClientTypeOK, vars, final
  <2>3. CASE Answer(k, NoData)
    BY <1>0, <1>6, <2>1, <2>3, AnswerTyped, OnlyItsCall
       DEF Confirm, ClientTypeOK, vars, final
  <2>4. CASE GoTo(k, "returning") /\ UNCHANGED answers
    <3>1. Busy("returning", session[k].read, session[k].id) \in Session
      BY <2>1, BusySessions DEF Busy, Session
    <3>. QED
      BY <1>0, <1>6, <2>1, <2>4, <3>1, GoesOnTyped, OnlyItsCall, BusySessions
         DEF Confirm, GoTo, ClientTypeOK, vars, final
  <2>. QED
    BY <1>6, <2>2, <2>3, <2>4 DEF Confirm
<1>7. CASE TimeOut(k)
  BY <1>0, <1>7, ThrowTyped, OnlyItsCall, FaultTyped
     DEF TimeOut, ClientTypeOK, vars, final
<1>8. CASE GiveUp(k)
  BY <1>0, <1>8, ThrowTyped, OnlyItsCall DEF GiveUp, ClientTypeOK, vars, final
<1>9. CASE ReadBack(k)
  <2>. DEFINE a == PlanNow(k).account
  <2>1. session[k] # Idle
    BY <1>9, <1>a DEF ReadBack
  <2>2. CASE a \in DOMAIN Seen(k) /\ Answer(k, Seen(k)[a]) /\ UNCHANGED doubts
    <3>1. Seen(k)[a] \in AccountData \cup {NoData}
      BY <2>2, SeenInOrder DEF IsLedger
    <3>. QED
      BY <1>0, <1>9, <2>1, <2>2, <3>1, AnswerTyped, OnlyItsCall
         DEF ReadBack, ClientTypeOK, vars, final
  <2>3. CASE Throw(k) /\ Doubt(k) /\ UNCHANGED answers
    BY <1>0, <1>9, <2>3, ThrowTyped, OnlyItsCall
       DEF ReadBack, ClientTypeOK, vars, final
  <2>. QED
    BY <1>9, <2>2, <2>3 DEF ReadBack
<1>10. CASE ReadBackFails(k)
  BY <1>0, <1>10, ThrowTyped, OnlyItsCall, FaultTyped
     DEF ReadBackFails, ClientTypeOK, vars, final
<1>. QED
  BY <1>1, <1>2, <1>3, <1>4, <1>5, <1>6, <1>7, <1>8, <1>9, <1>10
     DEF ClientStep

LEMMA ChainStepInv ==
  ASSUME ClientInv, ChainStep
  PROVE  ClientInv' /\ [Next]_vars
<1>. USE DEF ClientInv
<1>1. CASE \E m \in flying : Land(m)
  <2>1. PICK m \in flying : Land(m)
    BY <1>1
  <2>2. m.by \in Client /\ m.tx \in Transactions
    BY DEF ClientTypeOK
  <2>3. Next
    BY <2>1, <2>2 DEF Land, Next
  <2>4. Inv'
    BY <2>3, NextInv
  <2>5. tx' # NoTx
    BY <2>1, <2>2, TransactionsAssumption DEF Land, Begin
  <2>6. ClientTypeOK' /\ LedgerOK(finalAccounts)'
    BY <2>1, <2>2, <2>5 DEF Land, Begin, ClientTypeOK, Todo, final
  <2>. QED
    BY <2>3, <2>4, <2>6
<1>2. CASE \E m \in flying : Expire(m)
  <2>1. PICK m \in flying : Expire(m)
    BY <1>2
  <2>2. Inv'
    BY <2>1, Untouched DEF Expire
  <2>3. ClientTypeOK' /\ LedgerOK(finalAccounts)'
    BY <2>1, FaultTyped DEF Expire, ClientTypeOK, Todo, vars, final
  <2>. QED
    BY <2>1, <2>2, <2>3 DEF Expire
<1>3. CASE Run
  <2>1. Next
    BY <1>3 DEF Run, Next
  <2>2. Inv'
    BY <2>1, NextInv
  <2>3. UNCHANGED <<tx, clientVars>>
    BY <1>3 DEF Run, Process, Reject, CreateCommunity, UpdateCommunity,
                CreateNetwork, UpdateNetwork, CreateReporter, UpdateReporter,
                CreateCase, UpdateCase, CreateAddress, UpdateAddress, Execute,
                Succeed, Fail
  <2>4. ClientTypeOK' /\ LedgerOK(finalAccounts)'
    BY <2>3 DEF ClientTypeOK, Todo, clientVars, final
  <2>. QED
    BY <2>1, <2>2, <2>4
<1>4. CASE Settle
  <2>1. Next
    BY <1>4 DEF Settle, Next
  <2>2. Inv'
    BY <2>1, NextInv
  <2>3. outcome' \in [Client -> VerdictType \cup {Pending}]
    <3>1. verdict \in VerdictType
      BY DEF Inv, TypeOK
    <3>. QED
      BY <1>4, <3>1 DEF Settle, ClientTypeOK
  <2>4. ClientTypeOK' /\ LedgerOK(finalAccounts)'
    BY <1>4, <2>3 DEF Settle, ClientTypeOK, Todo, final
  <2>. QED
    BY <2>1, <2>2, <2>4
<1>5. CASE Finalize
  <2>1. Inv'
    BY <1>5, Untouched DEF Finalize
  <2>2. LedgerOK(accounts) /\ IsLedger(accounts)
    BY DEF Inv, LedgerOK
  <2>3. ClientTypeOK' /\ LedgerOK(finalAccounts)'
    BY <1>5, <2>2 DEF Finalize, ClientTypeOK, Todo, vars
  <2>. QED
    BY <1>5, <2>1, <2>3 DEF Finalize
<1>. QED
  BY <1>1, <1>2, <1>3, <1>4, <1>5 DEF ChainStep

LEMMA ClientsNextInv ==
  ASSUME ClientInv, [ClientsNext]_allVars
  PROVE  ClientInv' /\ [Next]_vars
<1>1. CASE \E k \in Client : ClientStep(k)
  BY <1>1, ClientStepInv
<1>2. CASE ChainStep
  BY <1>2, ChainStepInv
<1>3. CASE UNCHANGED allVars
  <2>1. Inv'
    BY <1>3, Untouched DEF allVars
  <2>2. ClientTypeOK' /\ LedgerOK(finalAccounts)'
    BY <1>3 DEF allVars, vars, clientVars, final, ClientInv, ClientTypeOK, Todo
  <2>. QED
    BY <1>3, <2>1, <2>2 DEF allVars, ClientInv
<1>. QED
  BY <1>1, <1>2, <1>3 DEF ClientsNext

LEMMA ClientInvariance == ClientsSpec => []ClientInv
<1>1. ClientInit => ClientInv
  BY ClientInitInv
<1>2. ClientInv /\ [ClientsNext]_allVars => ClientInv'
  BY ClientsNextInv
<1>. QED
  BY <1>1, <1>2, PTL DEF ClientsSpec

-----------------------------------------------------------------------------

\* Sessions, answers and replicas keep their types; what is in flight is a
\* transaction of the ledger and what is finalized a ledger.
THEOREM ClientsTypeCorrect == ClientsSpec => []ClientTypeOK
<1>1. ClientInv => ClientTypeOK
  BY DEF ClientInv
<1>. QED
  BY <1>1, ClientInvariance, PTL

\* The clients and the chain together implement the ledger alone: they start
\* as it does, and each of their steps is one of its steps or leaves it as it
\* is.
THEOREM ClientsImplementLedger == ClientsSpec => Spec
<1>1. ClientInit => Init
  BY DEF ClientInit
<1>2. ClientInv /\ [ClientsNext]_allVars => [Next]_vars
  BY ClientsNextInv
<1>. QED
  BY <1>1, <1>2, ClientInvariance, PTL DEF ClientsSpec, Spec

\* So the counter of a community stays exact whatever the clients, their
\* races, time-outs and repetitions make of it.
THEOREM CounterIsExactUnderClients == ClientsSpec => []CaseIdsFollowCounter
<1>. QED
  BY ClientsImplementLedger, CounterIsExact, PTL

-----------------------------------------------------------------------------
(* The messages.                                                           *)

\* The accounts of an instruction are where the program expects them.
WellAddressed(ix) ==
    /\ ix.op = "CreateCommunity" => ix.accounts[2] = CommunityAddress(ix.name)
    /\ ix.op = "CreateNetwork" =>
           ix.accounts[2] = NetworkAddress(ix.accounts[3], ix.name)
    /\ ix.op = "CreateReporter" =>
           ix.accounts[4] = ReporterAddress(ix.accounts[2], ix.accounts[3])
    /\ ix.op = "CreateCase" =>
           ix.accounts[4] = CaseAddress(ix.accounts[2], ix.case_id)
    /\ ix.op = "CreateAddress" =>
           ix.accounts[6] = AddressAddress(ix.accounts[3], ix.address)

\* An edit of an address that names no address or no case of the community.
Misaddressed(ix) ==
    \/ \E x, id : ix.accounts[5] = CaseAddress(x, id)
    \/ \E c, x, n, id :
           /\ ix.accounts[2] = CommunityAddress(c)
           /\ ix.accounts[4] = CaseAddress(NetworkAddress(x, n), id)

\* The instruction that client k sends in call c, with a case numbered id.
SentFor(k, c, id, ix) ==
    LET community == CommunityAddress(c.community)
    IN  /\ ix.op \in {"CreateCommunity", "CreateNetwork", "CreateReporter",
                      "UpdateReporter", "CreateCase", "UpdateCase",
                      "CreateAddress", "UpdateAddress"}
        /\ WellAddressed(ix)
        /\ OpensCase(c) <=> ix.op = "CreateCase"
        /\ OpensCase(c) => /\ ix.accounts[1] = k
                           /\ ix.accounts[2] = community
                           /\ ix.case_id = id
                           /\ ix.name = c.name
        /\ AddsAddress(c) <=> ix.op = "CreateAddress"
        /\ AddsAddress(c) =>
               /\ ix.accounts[2] = community
               /\ ix.accounts[3] = NetworkAddress(community, c.network)
               /\ ix.address = c.value
        /\ ix.op = "UpdateCase" =>
               /\ ix.accounts[2] = community
               /\ ix.accounts[4] = CaseAddress(community, c.id)
        /\ ix.op = "UpdateAddress" => Misaddressed(ix)

\* A message is one instruction.
LEMMA OneInstruction ==
  ASSUME NEW k, NEW ix, NEW signers, NEW writable
  PROVE  Sent(k, Built(ix, signers, writable)).instructions = <<ix>>
BY DEF Sent, Message, Built

\* What a call builds is the instruction it is to send.
Calls(k, c, id, built) ==
    /\ built = Built(built.ix, built.signers, built.writable)
    /\ SentFor(k, c, id, built.ix)

LEMMA LibraryCalls ==
  ASSUME NEW k, NEW c, NEW id,
         c.method \in AuthorityMethods \cup ReporterMethods
  PROVE  Calls(k, c, id, PlanOf(k, c, id).built)
<1>. DEFINE community == CommunityAddress(c.community)
            network   == NetworkAddress(community, c.network)
            reporter  == ReporterAddress(community, c.key)
            mine      == ReporterAddress(community, k)
            address   == AddressAddress(network, c.value)
<1>. USE DEF Calls, Plan, Built, SentFor, WellAddressed, Misaddressed,
             OpensCase, AddsAddress
<1>1. CASE c.method = "createCommunity"
  <2>. DEFINE listed == <<k, community>> \o SYSTEM_RENT_KEYS
  <2>1. listed[2] = community
    BY DEF SYSTEM_RENT_KEYS
  <2>. QED
    BY <1>1, <2>1 DEF PlanOf, createCommunity, createCommunityInstruction
<1>2. CASE c.method = "createNetwork"
  <2>. DEFINE listed == <<k, network, community>> \o SYSTEM_RENT_KEYS
  <2>1. listed[2] = network /\ listed[3] = community
    BY DEF SYSTEM_RENT_KEYS
  <2>. QED
    BY <1>2, <2>1 DEF PlanOf, createNetwork, createNetworkInstructions
<1>3. CASE c.method = "createReporter"
  <2>. DEFINE listed == <<k, community, c.key, reporter>> \o SYSTEM_RENT_KEYS
  <2>1. /\ listed[2] = community /\ listed[3] = c.key
        /\ listed[4] = reporter
    BY DEF SYSTEM_RENT_KEYS
  <2>. QED
    BY <1>3, <2>1 DEF PlanOf, createReporter, createReporterInstructions
<1>4. CASE c.method = "updateReporter"
  BY <1>4 DEF PlanOf, updateReporter, updateReporterInstructions
<1>5. CASE c.method = "createCase"
  <2>. DEFINE listed == <<k, community, mine, CaseAddress(community, id)>>
                        \o SYSTEM_RENT_KEYS
  <2>1. /\ listed[1] = k /\ listed[2] = community
        /\ listed[4] = CaseAddress(community, id)
    BY DEF SYSTEM_RENT_KEYS
  <2>. QED
    BY <1>5, <2>1 DEF PlanOf, createCase, createCaseInstruction
<1>6. CASE c.method = "updateCase"
  BY <1>6 DEF PlanOf, updateCase, updateCaseInstruction
<1>7. CASE c.method = "createAddress"
  <2>. DEFINE listed == <<k, community, network, mine,
                     CaseAddress(community, c.id), address>> \o SYSTEM_RENT_KEYS
  <2>1. /\ listed[2] = community /\ listed[3] = network
        /\ listed[6] = address
    BY DEF SYSTEM_RENT_KEYS
  <2>. QED
    BY <1>7, <2>1 DEF PlanOf, createAddress, createAddressInstruction
<1>8. CASE c.method = "updateAddress"
  BY <1>8 DEF PlanOf, updateAddress, updateAddressInstruction
<1>. QED
  BY <1>1, <1>2, <1>3, <1>4, <1>5, <1>6, <1>7, <1>8
     DEF AuthorityMethods, ReporterMethods

LEMMA CommandCalls ==
  ASSUME NEW k, NEW c, NEW id, c.method \in CommandMethods
  PROVE  Calls(k, c, id, PlanOf(k, c, id).built)
<1>. USE DEF Calls, Plan, Built, SentFor, WellAddressed, Misaddressed,
             OpensCase, AddsAddress
<1>1. CASE c.method = "cmd_create_community"
  BY <1>1 DEF PlanOf, cmd_create_community, create_community
<1>2. CASE c.method = "cmd_create_network"
  BY <1>2 DEF PlanOf, cmd_create_network, create_network
<1>3. CASE c.method = "cmd_create_reporter"
  BY <1>3 DEF PlanOf, cmd_create_reporter, create_reporter
<1>4. CASE c.method = "cmd_update_reporter"
  BY <1>4 DEF PlanOf, cmd_update_reporter, update_reporter
<1>5. CASE c.method = "cmd_create_case"
  BY <1>5 DEF PlanOf, cmd_create_case, create_case
<1>6. CASE c.method = "cmd_update_case"
  BY <1>6 DEF PlanOf, cmd_update_case, update_case
<1>7. CASE c.method = "cmd_create_address"
  BY <1>7 DEF PlanOf, cmd_create_address, create_address
<1>8. CASE c.method = "cmd_update_address"
  BY <1>8 DEF PlanOf, cmd_update_address, update_address
<1>. QED
  BY <1>1, <1>2, <1>3, <1>4, <1>5, <1>6, <1>7, <1>8
     DEF CommandMethods

\* What a client sends is one instruction, addressed as the program expects.
LEMMA SentInstruction ==
  ASSUME NEW k \in Client, NEW i \in 1 .. Len(Script[k]), NEW id
  PROVE  LET built == PlanOf(k, Script[k][i], id).built
         IN  /\ Sent(k, built).instructions = <<built.ix>>
             /\ SentFor(k, Script[k][i], id, built.ix)
<1>. DEFINE c == Script[k][i]
            built == PlanOf(k, c, id).built
<1>1. Calls(k, c, id, built)
  BY MethodsAssumption, LibraryCalls, CommandCalls
<1>. QED
  BY <1>1, OneInstruction DEF Calls

-----------------------------------------------------------------------------
(* What an instruction does to the accounts that the clients rely on.      *)

\* One account is allocated or rewritten, or two; no case is opened or given
\* to somebody else, and no address reported.
Ordinary(s, u) ==
    /\ \E x \in DOMAIN u : DOMAIN u = DOMAIN s \cup {x}
    /\ \A a \in DOMAIN u : Holds(u, a, "Case") =>
                  Holds(s, a, "Case") /\ u[a].reporter_key = s[a].reporter_key
    /\ \A a \in DOMAIN u : Holds(u, a, "Address") => Holds(s, a, "Address")

\* Instruction ix, executed, has made the ledger u of s.
Executed(s, ix, u) ==
    /\ \E x \in DOMAIN u : DOMAIN u = DOMAIN s \cup {x}
    /\ \A a \in DOMAIN u : Holds(u, a, "Case") =>
           \/ Holds(s, a, "Case") /\ u[a].reporter_key = s[a].reporter_key
           \/ ix.op = "CreateCase" /\ a = ix.accounts[4]
    /\ \A a \in DOMAIN u : Holds(u, a, "Address") =>
           \/ Holds(s, a, "Address")
           \/ ix.op = "CreateAddress" /\ a = ix.accounts[6]
    /\ ix.op = "CreateCase" =>
           LET a == ix.accounts[4]
           IN  /\ a \notin DOMAIN s
               /\ Holds(u, a, "Case")
               /\ u[a].reporter_key = ix.accounts[1]
               /\ u[a].name = ix.name
    /\ ix.op = "CreateAddress" => ix.accounts[6] \in DOMAIN u
    /\ ix.op = "UpdateCase" => ix.accounts[4] \in DOMAIN u
    /\ ix.op # "UpdateAddress"

LEMMA OrdinaryEffects ==
  ASSUME NEW s, NEW t, NEW u,
         \/ Founds(s, t, u) \/ HandsOver(s, t, u) \/ AddsNetwork(s, t, u)
         \/ Staffs(s, t, u) \/ RevisesCase(s, t, u)
  PROVE  Ordinary(s, u)
<1>1. CASE Founds(s, t, u)
  BY <1>1 DEF Founds, Ordinary, Holds, Put
<1>2. CASE HandsOver(s, t, u)
  BY <1>2 DEF HandsOver, Authorized, Communities, Ordinary, Holds, Put
<1>3. CASE AddsNetwork(s, t, u)
  BY <1>3 DEF AddsNetwork, Ordinary, Holds, Put
<1>4. CASE Staffs(s, t, u)
  BY <1>4 DEF Staffs, Ordinary, Holds, Put
<1>5. CASE RevisesCase(s, t, u)
  BY <1>5 DEF RevisesCase, RevisesCaseFor, Ordinary, Holds, Put
<1>. QED
  BY <1>1, <1>2, <1>3, <1>4, <1>5

LEMMA CreateCaseExecuted ==
  ASSUME NEW s, LedgerOK(s), NEW t, NEW ix \in Instruction,
         ix.op = "CreateCase", CreateCaseVerdict(s, t, ix) = Ok
  PROVE  Executed(s, ix, CreateCaseEffect(s, ix))
<1>. DEFINE c == ix.accounts[2]
            a == ix.accounts[4]
            b == [s[c] EXCEPT !.next_case_id = (@ + 1) % CaseIdCount]
            d == [account_type |-> "Case", reporter_key |-> ix.accounts[1],
                  categories |-> ix.categories, status |-> ix.status,
                  name |-> ix.name]
<1>1. ValidAccount(s, c, "Community") = Ok /\ EmptyAccount(s, a) = Ok
  BY ThenOk DEF CreateCaseVerdict
<1>2. Holds(s, c, "Community") /\ a \notin DOMAIN s
  BY <1>1, ChecksPass
<1>3. s[c] \in Community
  BY <1>2, DataFields DEF Holds, LedgerOK, IsLedger
<1>4. b.account_type = "Community"
  BY <1>3 DEF Community
<1>5. /\ d.account_type = "Case" /\ d.reporter_key = ix.accounts[1]
      /\ d.name = ix.name
  OBVIOUS
<1>6. CreateCaseEffect(s, ix) = Put(Put(s, c, b), a, d)
  BY DEF CreateCaseEffect
<1>. HIDE DEF b, d
<1>. DEFINE u == CreateCaseEffect(s, ix)
<1>7. /\ DOMAIN u = DOMAIN s \cup {a}
      /\ u[a] = d /\ u[c] = b
      /\ \A x \in DOMAIN s : x # a /\ x # c => u[x] = s[x]
  BY <1>2, <1>6 DEF Put, Holds
<1>. HIDE DEF u
<1>8. \A x : Holds(u, x, "Case") \/ Holds(u, x, "Address") =>
             x = a \/ (x \in DOMAIN s /\ u[x] = s[x])
  BY <1>4, <1>7 DEF Holds
<1>. QED
  BY <1>2, <1>5, <1>7, <1>8 DEF Executed, Holds, u

LEMMA CreateAddressExecuted ==
  ASSUME NEW s, NEW ix, ix.op = "CreateAddress"
  PROVE  Executed(s, ix, CreateAddressEffect(s, ix))
BY DEF Executed, CreateAddressEffect, Holds, Put

LEMMA UpdateCaseExecuted ==
  ASSUME NEW s, LedgerOK(s), NEW t, NEW ix \in Instruction,
         ix.op = "UpdateCase", UpdateCaseVerdict(s, t, ix) = Ok
  PROVE  Executed(s, ix, UpdateCaseEffect(s, ix))
<1>1. RevisesCase(s, t, UpdateCaseEffect(s, ix))
  BY RevisesCaseEffect DEF RevisesCase
<1>a. Ordinary(s, UpdateCaseEffect(s, ix))
  BY <1>1, OrdinaryEffects
<1>2. ix.accounts[4] \in DOMAIN UpdateCaseEffect(s, ix)
  BY DEF UpdateCaseEffect, Put
<1>. QED
  BY <1>a, <1>2 DEF Ordinary, Executed

\* An edit of an address at the wrong addresses is refused.
LEMMA MisaddressedFails ==
  ASSUME NEW s, LedgerOK(s), NEW t, NEW ix, Misaddressed(ix)
  PROVE  UpdateAddressVerdict(s, t, ix) # Ok
<1>. SUFFICES ASSUME UpdateAddressVerdict(s, t, ix) = Ok PROVE FALSE
  OBVIOUS
<1>1. /\ ValidAccount(s, ix.accounts[5], "Address") = Ok
      /\ ValidAccount(s, ix.accounts[4], "Case") = Ok
      /\ Require(ix.accounts[4] = CaseAddress(ix.accounts[2], ix.case_id),
                 "CaseIDMismatch") = Ok
  BY ThenOk DEF UpdateAddressVerdict
<1>2. /\ Holds(s, ix.accounts[5], "Address")
      /\ ix.accounts[4] = CaseAddress(ix.accounts[2], ix.case_id)
  BY <1>1, ChecksPass DEF Require, Ok
<1>3. CASE \E x, id : ix.accounts[5] = CaseAddress(x, id)
  BY <1>2, <1>3, CaseAccounts DEF Holds
<1>4. CASE \E c, x, n, id :
              /\ ix.accounts[2] = CommunityAddress(c)
              /\ ix.accounts[4] = CaseAddress(NetworkAddress(x, n), id)
  BY <1>2, <1>4, AddressesDiffer
<1>. QED
  BY <1>3, <1>4 DEF Misaddressed

\* What a client sends, if the handler accepts it, does this and no more.
LEMMA SuccessExecutes ==
  ASSUME Inv, [Next]_vars, InstructionDone,
         NEW k, NEW c, NEW id, SentFor(k, c, id, Instr)
  PROVE  Executed(work, Instr, work')
<1>1. LedgerOK(work) /\ Instr \in Instruction
  BY SuccessIsHandled DEF Inv
<1>2. CASE Handled("CreateCase", CreateCaseVerdict(work, tx, Instr),
                   CreateCaseEffect(work, Instr))
  BY <1>1, <1>2, CreateCaseExecuted DEF Handled
<1>3. CASE Handled("CreateAddress", CreateAddressVerdict(work, tx, Instr),
                   CreateAddressEffect(work, Instr))
  BY <1>3, CreateAddressExecuted DEF Handled
<1>4. CASE Handled("UpdateCase", UpdateCaseVerdict(work, tx, Instr),
                   UpdateCaseEffect(work, Instr))
  BY <1>1, <1>4, UpdateCaseExecuted DEF Handled
<1>5. ~Handled("UpdateAddress", UpdateAddressVerdict(work, tx, Instr),
               UpdateAddressEffect(work, Instr))
  BY <1>1, MisaddressedFails DEF Handled, SentFor
<1>6. CASE Instr.op \notin {"CreateCase", "CreateAddress", "UpdateCase",
                            "UpdateAddress"}
  <2>1. \/ Founds(work, tx, work') \/ HandsOver(work, tx, work')
        \/ AddsNetwork(work, tx, work') \/ Staffs(work, tx, work')
    BY <1>1, <1>6, SuccessIsHandled, FoundsEffect, HandsOverEffect,
       AddsNetworkEffect, StaffsEffect
       DEF Handled
  <2>2. Ordinary(work, work')
    BY <2>1, OrdinaryEffects
  <2>. QED
    BY <1>6, <2>2 DEF Ordinary, Executed
<1>. QED
  BY <1>2, <1>3, <1>4, <1>5, <1>6, SuccessIsHandled DEF Handled

-----------------------------------------------------------------------------
(* What a client has seen holds from then on.                              *)

\* The number id is not ahead of the counter of community c.
NotAhead(s, c, id) == c \in Communities(s) /\ id <= Opened(s, c)

\* The network is there.
NetworkIn(s, c) ==
    Holds(s, NetworkAddress(CommunityAddress(c.community), c.network),
          "Network")

\* What client k needs to know before it sends call c with number id.
Prepared(s, c, id) ==
    /\ OpensCase(c) => NotAhead(s, CommunityAddress(c.community), id)
    /\ AddsAddress(c) => NetworkIn(s, c)

LEMMA StaysNotAhead ==
  ASSUME NEW s, LedgerOK(s), NEW u, LedgerOK(u), Later(s, u),
         NEW c, NEW id \in CaseId, NotAhead(s, c, id)
  PROVE  NotAhead(u, c, id)
<1>1. c \in Communities(u) /\ Opened(s, c) <= Opened(u, c)
  BY RegistersGrow DEF NotAhead
<1>2. Opened(s, c) \in Nat /\ Opened(u, c) \in Nat /\ id \in Nat
  BY <1>1, OpenedCases, CaseIdAssumption DEF NotAhead, CaseId
<1>. QED
  BY <1>1, <1>2 DEF NotAhead

LEMMA StaysPrepared ==
  ASSUME NEW s, LedgerOK(s), NEW u, LedgerOK(u), Later(s, u),
         NEW c, NEW id \in CaseId, Prepared(s, c, id)
  PROVE  Prepared(u, c, id)
<1>1. NetworkIn(s, c) => NetworkIn(u, c)
  BY DEF NetworkIn, Holds, Later, Kept
<1>. QED
  BY <1>1, StaysNotAhead DEF Prepared

\* The counter is not ahead of itself.
LEMMA CounterNotAhead ==
  ASSUME NEW s, LedgerOK(s), NEW name, CommunityAddress(name) \in DOMAIN s
  PROVE  NotAhead(s, CommunityAddress(name),
                  s[CommunityAddress(name)].next_case_id)
<1>. DEFINE c == CommunityAddress(name)
<1>1. s[c].next_case_id \in CaseId
  BY CommunityData
<1>2. OnItsOwnAddress(s, c)
  BY DEF LedgerOK
<1>3. c \in Communities(s)
  BY <1>2, AddressesDiffer DEF OnItsOwnAddress, Communities
<1>. QED
  BY <1>1, <1>3, CaseIdAssumption DEF NotAhead, Opened, CaseId

\* A number that is not ahead is free only if it is the next one.
LEMMA NotAheadIsNext ==
  ASSUME NEW s, LedgerOK(s), NEW c, NEW id \in CaseId, NotAhead(s, c, id),
         CaseAddress(c, id) \notin DOMAIN s
  PROVE  id = s[c].next_case_id
<1>1. id \notin CaseIds(s, c)
  BY DEF CaseIds
<1>2. id = Opened(s, c)
  BY <1>1, OpenedCases, CaseIdAssumption DEF NotAhead, CaseId
<1>. QED
  BY <1>2, CaseIdAssumption DEF Opened, CaseId

-----------------------------------------------------------------------------
(* The invariant: from the look-ups to the transaction.                    *)

\* While it prepares a call, a client has seen what it needs.
Saw(k) ==
    /\ OpensCase(CallOf(k)) /\ session[k].read # 0 =>
           NotAhead(accounts, CommunityAddress(CallOf(k).community),
                    session[k].id)
    /\ AddsAddress(CallOf(k)) =>
           \A j \in 1 .. session[k].read :
               LET l == PlanNow(k).lookups[j]
               IN  l.present => Found(k, accounts, l.account)

\* Message m was sent for a call of its client that was prepared.
SentRightly(m) ==
    /\ m \in [by : Client, turn : Nat, tx : Transactions]
    /\ \E i \in 1 .. Len(Script[m.by]), id \in CaseId :
           LET c == Script[m.by][i]
           IN  /\ m.tx = Sent(m.by, PlanOf(m.by, c, id).built)
               /\ Prepared(accounts, c, id)

\* The transaction that runs is a message, of one instruction, which has been
\* executed or not.
OneStep ==
    /\ running # NoMessage => tx = running.tx
    /\ tx # NoTx => /\ running # NoMessage
                    /\ SentRightly(running)
                    /\ pc \in {1, 2}
    /\ pc = 1 => work = accounts
    /\ pc = 2 => Executed(accounts, tx.instructions[1], work)

MessageInv == /\ Later(finalAccounts, accounts)
              /\ Later(accounts, work)
              /\ \A k \in Client : InPhase(k, "checking") => Saw(k)
              /\ \A m \in flying : SentRightly(m)
              /\ OneStep

LEMMA MessageInitInv ==
  ASSUME ClientInit
  PROVE  MessageInv
BY LaterReflexive, ClientsAssumption
   DEF ClientInit, Init, MessageInv, InPhase, Idle, OneStep

\* The plan of a call that adds an address needs no number, and looks up the
\* network.
LEMMA NetworkLookUp ==
  ASSUME NEW k, NEW c, AddsAddress(c), NEW id
  PROVE  /\ \A x : PlanOf(k, c, x) = PlanOf(k, c, id)
         /\ \E j \in 1 .. Len(PlanOf(k, c, id).lookups) :
                PlanOf(k, c, id).lookups[j] =
                    Exists(NetworkAddress(CommunityAddress(c.community),
                                          c.network))
<1>. DEFINE network == NetworkAddress(CommunityAddress(c.community), c.network)
<1>1. CASE c.method = "createAddress"
  <2>. DEFINE looked == createAddress(k, c).lookups
  <2>1. \A x : PlanOf(k, c, x) = createAddress(k, c)
    BY <1>1 DEF PlanOf
  <2>2. Len(looked) = 3 /\ looked[2] = Exists(network)
    BY DEF createAddress, Plan
  <2>. HIDE DEF network
  <2>3. \E j \in 1 .. Len(looked) : looked[j] = Exists(network)
    BY <2>2
  <2>. QED
    BY <2>1, <2>3 DEF network
<1>2. CASE c.method = "cmd_create_address"
  <2>. DEFINE looked == cmd_create_address(k, c).lookups
  <2>1. \A x : PlanOf(k, c, x) = cmd_create_address(k, c)
    BY <1>2 DEF PlanOf
  <2>2. Len(looked) = 3 /\ looked[1] = Exists(network)
    BY DEF cmd_create_address, Plan
  <2>. HIDE DEF network
  <2>3. \E j \in 1 .. Len(looked) : looked[j] = Exists(network)
    BY <2>2
  <2>. QED
    BY <2>1, <2>3 DEF network
<1>. QED
  BY <1>1, <1>2 DEF AddsAddress

\* The calls that open a case look up something.
LEMMA OpeningLooksUp ==
  ASSUME NEW k, NEW c, OpensCase(c), NEW id
  PROVE  Len(PlanOf(k, c, id).lookups) # 0
<1>1. CASE c.method = "createCase"
  <2>1. PlanOf(k, c, id) = createCase(k, c, id)
    BY <1>1 DEF PlanOf
  <2>. QED
    BY <2>1 DEF createCase, Plan
<1>2. CASE c.method = "cmd_create_case"
  <2>1. PlanOf(k, c, id) = cmd_create_case(k, c, id)
    BY <1>2 DEF PlanOf
  <2>. QED
    BY <2>1 DEF cmd_create_case, Plan
<1>. QED
  BY <1>1, <1>2 DEF OpensCase

LEMMA CurrentCall ==
  ASSUME ClientTypeOK, NEW k \in Client, session[k] # Idle
  PROVE  /\ Len(answers[k]) + 1 \in 1 .. Len(Script[k])
         /\ CallOf(k) = Script[k][Len(answers[k]) + 1]
<1>1. Len(answers[k]) \in Nat
  BY DEF ClientTypeOK
<1>. QED
  BY <1>1, BusySessions, ClientsAssumption DEF Todo, CallOf

\* A message is sent for a call that is prepared.
LEMMA SendsRightly ==
  ASSUME ClientInv, NEW k \in Client, Checked(k), Saw(k)
  PROVE  SentRightly(MessageOf(k))
<1>. DEFINE c == CallOf(k)
            id == session[k].id
            network == NetworkAddress(CommunityAddress(c.community), c.network)
<1>1. /\ session[k] # Idle
      /\ session[k].read = Len(PlanOf(k, c, id).lookups)
      /\ ClientTypeOK
  BY DEF Checked, InPhase, Idle, ClientInv, PlanNow
<1>2. /\ Len(answers[k]) + 1 \in 1 .. Len(Script[k])
      /\ c = Script[k][Len(answers[k]) + 1]
      /\ id \in CaseId
  BY <1>1, CurrentCall, BusySessions
<1>3. MessageOf(k) \in [by : Client, turn : Nat, tx : Transactions]
  BY <1>1, MessagesAreTransactions DEF MessageOf, Checked, ClientTypeOK
<1>4. MessageOf(k).by = k /\ MessageOf(k).tx = Sent(k, PlanOf(k, c, id).built)
  BY DEF MessageOf, PlanNow
<1>5. OpensCase(c) => NotAhead(accounts, CommunityAddress(c.community), id)
  BY <1>1, OpeningLooksUp DEF Saw
<1>6. ASSUME AddsAddress(c) PROVE NetworkIn(accounts, c)
  <2>1. Found(k, accounts, network)
    <3>1. PICK j \in 1 .. Len(PlanOf(k, c, id).lookups) :
                   PlanOf(k, c, id).lookups[j] = Exists(network)
      BY <1>6, NetworkLookUp
    <3>2. Exists(network).present /\ Exists(network).account = network
      BY DEF Exists
    <3>. QED
      BY <1>1, <1>6, <3>1, <3>2 DEF Saw, PlanNow
  <2>2. network \in DOMAIN accounts
    BY <1>2, <1>6, <2>1, NetworksAssumption DEF Found
  <2>3. OnItsOwnAddress(accounts, network)
    BY <2>2 DEF ClientInv, Inv, LedgerOK
  <2>. QED
    BY <2>2, <2>3, AddressesDiffer DEF OnItsOwnAddress, NetworkIn, Holds
<1>. QED
  BY <1>2, <1>3, <1>4, <1>5, <1>6 DEF SentRightly, Prepared

\* A look-up that passes tells what it should of the ledger itself, be it
\* made of the finalized one.
LEMMA PassingSaw ==
  ASSUME ClientInv, MessageInv, NEW k \in Client, LookingUp(k), NEW id,
         Pass(k, id), UNCHANGED <<accounts, answers>>,
         LookUp(k).present => Found(k, accounts, LookUp(k).account),
         OpensCase(CallOf(k)) =>
             NotAhead(accounts, CommunityAddress(CallOf(k).community), id)
  PROVE  Saw(k)'
<1>. DEFINE c == CallOf(k)
            read == session[k].read
<1>1. /\ session'[k] = Busy("checking", read + 1, id)
      /\ CallOf(k)' = c
      /\ Saw(k) /\ read \in Nat
  BY BusySessions
     DEF Pass, CallOf, ClientInv, ClientTypeOK, MessageInv, LookingUp, InPhase,
         Idle
<1>2. ASSUME AddsAddress(c), NEW j \in 1 .. read + 1
      PROVE  LET l == PlanNow(k)'.lookups[j]
             IN  l.present => Found(k, accounts, l.account)
  <2>1. PlanNow(k)' = PlanNow(k)
    BY <1>1, <1>2, NetworkLookUp DEF PlanNow
  <2>2. CASE j \in 1 .. read
    BY <1>1, <1>2, <2>1, <2>2 DEF Saw
  <2>3. CASE j = read + 1
    BY <2>1, <2>3 DEF LookUp
  <2>. QED
    BY <1>1, <2>2, <2>3
<1>3. session'[k].read = read + 1 /\ session'[k].id = id
  BY <1>1 DEF Busy
<1>. QED
  <2>1. \A a : Found(k, accounts, a) => Found(k, accounts, a)'
    BY <1>1 DEF Found
  <2>. QED
    BY <1>1, <1>2, <1>3, <2>1 DEF Saw

LEMMA CheckSaw ==
  ASSUME ClientInv, MessageInv, NEW k \in Client, Check(k),
         InPhase(k, "checking")'
  PROVE  Saw(k)'
<1>. DEFINE c == CallOf(k)
            a == LookUp(k).account
            community == CommunityAddress(c.community)
<1>1. /\ LookingUp(k) /\ Confirms(k, LookUp(k)) /\ Pass(k, Remember(k, a))
      /\ UNCHANGED <<accounts, answers>>
  BY DEF Check, Throw, InPhase, Idle, vars, ClientInv, ClientTypeOK
<1>2. session[k].id \in CaseId /\ Saw(k)
  BY <1>1, BusySessions
     DEF LookingUp, InPhase, Idle, ClientInv, MessageInv
<1>3. Later(Seen(k), accounts) /\ LedgerOK(Seen(k)) /\ LedgerOK(accounts)
  BY LaterReflexive, SeenInOrder DEF Seen, MessageInv, ClientInv, Inv
<1>4. LookUp(k).present => Found(k, accounts, a)
  BY <1>1, <1>3 DEF Confirms, Found, Later, Kept
<1>5. ASSUME OpensCase(c), session[k].read = 0
      PROVE  NotAhead(accounts, community, Remember(k, a))
  <2>1. LookUp(k) = Exists(community)
    BY <1>5, CounterLookUp DEF LookUp, PlanNow
  <2>2. a = community
    BY <2>1 DEF Exists
  <2>3. community \in DOMAIN Seen(k)
    BY <1>1, <1>5, <2>2 DEF Confirms, ReadsCounter
  <2>4. Remember(k, a) = Seen(k)[community].next_case_id
    BY <1>5, <2>2 DEF Remember, ReadsCounter
  <2>5. Remember(k, a) \in CaseId
    BY <1>3, <2>3, <2>4, CommunityData
  <2>6. NotAhead(Seen(k), community, Remember(k, a))
    BY <1>3, <2>3, <2>4, CounterNotAhead
  <2>. QED
    BY <1>3, <2>5, <2>6, StaysNotAhead
<1>6. OpensCase(c) => NotAhead(accounts, community, Remember(k, a))
  BY <1>2, <1>5 DEF Saw, Remember, ReadsCounter
<1>. QED
  BY <1>1, <1>4, <1>6, PassingSaw

LEMMA CheckFailsSaw ==
  ASSUME ClientInv, MessageInv, NEW k \in Client, CheckFails(k),
         InPhase(k, "checking")'
  PROVE  Saw(k)'
<1>1. /\ LookingUp(k) /\ ~LookUp(k).present /\ Pass(k, session[k].id)
      /\ UNCHANGED <<accounts, answers>>
  BY DEF CheckFails, Throw, InPhase, Idle, vars, ClientInv, ClientTypeOK
<1>2. OpensCase(CallOf(k)) => session[k].read # 0
  <2>. SUFFICES ASSUME OpensCase(CallOf(k)), session[k].read = 0 PROVE FALSE
    OBVIOUS
  <2>1. LookUp(k) = Exists(CommunityAddress(CallOf(k).community))
    BY CounterLookUp DEF LookUp, PlanNow
  <2>. QED
    BY <1>1, <2>1 DEF Exists
<1>3. Saw(k)
  BY <1>1 DEF MessageInv, LookingUp
<1>. QED
  BY <1>1, <1>2, <1>3, PassingSaw DEF Saw

LEMMA ClientStepKeepsMessages ==
  ASSUME ClientInv, MessageInv, NEW k \in Client, ClientStep(k)
  PROVE  MessageInv'
<1>1. /\ UNCHANGED <<vars, running, finalAccounts>>
      /\ \A j \in Client \ {k} : session'[j] = session[j]
                                 /\ answers'[j] = answers[j]
  BY DEF ClientStep, Call, Check, CheckFails, Refuse, Send, Confirm, TimeOut,
         GiveUp, ReadBack, ReadBackFails, Pass, Throw, GoTo, Answer, final,
         ClientInv, ClientTypeOK
<1>2. ASSUME NEW m, SentRightly(m) PROVE SentRightly(m)'
  BY <1>1, <1>2 DEF SentRightly, Prepared, NetworkIn, vars
<1>3. ASSUME NEW m \in flying' PROVE SentRightly(m)'
  <2>1. CASE m \in flying
    BY <1>2, <2>1 DEF MessageInv
  <2>2. CASE m \notin flying
    <3>1. Send(k) /\ m = MessageOf(k)
      BY <2>2 DEF ClientStep, Call, Check, CheckFails, Refuse, Send, Confirm,
                  TimeOut, GiveUp, ReadBack, ReadBackFails
    <3>. QED
      BY <1>2, <3>1, SendsRightly DEF Send, Checked, MessageInv
  <2>. QED
    BY <2>1, <2>2
<1>4. ASSUME InPhase(k, "checking")' PROVE Saw(k)'
  <2>1. CASE Call(k)
    <3>1. session'[k].read = 0
      BY <2>1 DEF Call, Busy, ClientInv, ClientTypeOK
    <3>. QED
      BY <3>1 DEF Saw
  <2>2. CASE Check(k)
    BY <1>4, <2>2, CheckSaw
  <2>3. CASE CheckFails(k)
    BY <1>4, <2>3, CheckFailsSaw
  <2>4. CASE Send(k) \/ Confirm(k)
    BY <1>4, <2>4 DEF Send, Confirm, GoTo, Busy, Answer, Throw, Idle, InPhase,
                      ClientInv, ClientTypeOK
  <2>5. CASE \/ Refuse(k) \/ TimeOut(k) \/ GiveUp(k) \/ ReadBack(k)
             \/ ReadBackFails(k)
    BY <1>4, <2>5 DEF Refuse, TimeOut, GiveUp, ReadBack, ReadBackFails, Answer,
                      Throw, Idle, InPhase, ClientInv, ClientTypeOK
  <2>. QED
    BY <2>1, <2>2, <2>3, <2>4, <2>5 DEF ClientStep
<1>5. ASSUME NEW j \in Client \ {k}, InPhase(j, "checking")' PROVE Saw(j)'
  <2>1. Saw(j)
    BY <1>1, <1>5 DEF MessageInv, InPhase
  <2>. QED
    BY <1>1, <2>1 DEF Saw, CallOf, PlanNow, Found, NotAhead, vars
<1>6. OneStep'
  <2>1. ASSUME tx' # NoTx PROVE SentRightly(running)'
    BY <1>1, <1>2, <2>1 DEF MessageInv, OneStep, vars
  <2>. QED
    BY <1>1, <2>1 DEF MessageInv, OneStep, vars
<1>7. Later(finalAccounts, accounts)' /\ Later(accounts, work)'
  BY <1>1 DEF MessageInv, vars
<1>. QED
  BY <1>3, <1>4, <1>5, <1>6, <1>7 DEF MessageInv

\* What was seen, and what was prepared, stays so as the ledger grows.
LEMMA SeenStays ==
  ASSUME ClientInv, ClientInv', Later(accounts, accounts')
  PROVE  /\ \A k \in Client : /\ InPhase(k, "checking") /\ Saw(k)
                              /\ UNCHANGED <<session, answers>>
                              => Saw(k)'
         /\ \A m : SentRightly(m) => SentRightly(m)'
<1>1. LedgerOK(accounts) /\ LedgerOK(accounts')
  BY DEF ClientInv, Inv
<1>2. ASSUME NEW k \in Client, InPhase(k, "checking"), Saw(k),
             UNCHANGED <<session, answers>>
      PROVE  Saw(k)'
  <2>1. session[k].id \in CaseId
    BY <1>2, BusySessions DEF InPhase, Idle, ClientInv
  <2>2. \A c : NotAhead(accounts, c, session[k].id) =>
                   NotAhead(accounts', c, session[k].id)
    BY <1>1, <2>1, StaysNotAhead
  <2>3. \A a : Found(k, accounts, a) => Found(k, accounts, a)'
    BY <1>2 DEF Found, CallOf, Later, Kept
  <2>. QED
    BY <1>2, <2>2, <2>3 DEF Saw, CallOf, PlanNow
<1>3. ASSUME NEW m, SentRightly(m) PROVE SentRightly(m)'
  BY <1>1, <1>3, StaysPrepared DEF SentRightly
<1>. QED
  BY <1>2, <1>3

\* The transaction that runs is the one instruction of a call.
LEMMA RunningCall ==
  ASSUME MessageInv, tx # NoTx
  PROVE  /\ Len(tx.instructions) = 1
         /\ running \in [by : Client, turn : Nat, tx : Transactions]
         /\ \E i \in 1 .. Len(Script[running.by]), id \in CaseId :
                LET c == Script[running.by][i]
                IN  /\ SentFor(running.by, c, id, tx.instructions[1])
                    /\ Prepared(accounts, c, id)
<1>1. SentRightly(running) /\ tx = running.tx
  BY DEF MessageInv, OneStep
<1>2. PICK i \in 1 .. Len(Script[running.by]), id \in CaseId :
               LET c == Script[running.by][i]
               IN  /\ tx = Sent(running.by, PlanOf(running.by, c, id).built)
                   /\ Prepared(accounts, c, id)
  BY <1>1 DEF SentRightly
<1>3. running.by \in Client
  BY <1>1 DEF SentRightly
<1>. DEFINE c == Script[running.by][i]
            built == PlanOf(running.by, c, id).built
<1>4. /\ Sent(running.by, built).instructions = <<built.ix>>
      /\ SentFor(running.by, c, id, built.ix)
  BY <1>3, SentInstruction
<1>5. tx.instructions = <<built.ix>>
  BY <1>2, <1>4
<1>. HIDE DEF built
<1>. QED
  BY <1>1, <1>2, <1>4, <1>5 DEF SentRightly

\* When a transaction is committed, its instruction has been executed.
LEMMA CommitExecutes ==
  ASSUME MessageInv, Commit
  PROVE  Executed(accounts, tx.instructions[1], work)
<1>1. Len(tx.instructions) = 1
  BY RunningCall DEF Commit
<1>2. /\ pc \in {1, 2}
      /\ pc = 2 => Executed(accounts, tx.instructions[1], work)
      /\ pc > Len(tx.instructions)
  BY DEF MessageInv, OneStep, Commit
<1>. QED
  BY <1>1, <1>2

LEMMA RunKeepsOneStep ==
  ASSUME ClientInv, MessageInv, Run
  PROVE  OneStep'
<1>. DEFINE ix == tx.instructions[1]
<1>1. /\ UNCHANGED <<accounts, tx, running>>
      /\ tx # NoTx /\ pc <= Len(tx.instructions)
      /\ \/ UNCHANGED <<work, pc>>
         \/ pc' = pc + 1
  BY DEF Run, Process, Reject, CreateCommunity, UpdateCommunity,
         CreateNetwork, UpdateNetwork, CreateReporter, UpdateReporter,
         CreateCase, UpdateCase, CreateAddress, UpdateAddress, Execute,
         Succeed, Fail, Running, clientVars
<1>2. Len(tx.instructions) = 1 /\ pc = 1 /\ work = accounts
  <2>1. Len(tx.instructions) = 1
    BY <1>1, RunningCall
  <2>2. pc \in {1, 2} /\ (pc = 1 => work = accounts)
    BY <1>1 DEF MessageInv, OneStep
  <2>. QED
    BY <1>1, <2>1, <2>2
<1>3. SentRightly(running)'
  BY <1>1 DEF MessageInv, OneStep, SentRightly, Prepared, NetworkIn
<1>4. CASE UNCHANGED <<work, pc>>
  BY <1>1, <1>3, <1>4 DEF MessageInv, OneStep
<1>5. CASE pc' = pc + 1
  <2>1. Inv /\ [Next]_vars /\ InstructionDone /\ Instr = ix
    BY <1>1, <1>2, <1>5 DEF Run, Next, InstructionDone, ClientInv, Instr
  <2>2. PICK k, c, id : SentFor(k, c, id, ix)
    BY <1>1, RunningCall
  <2>3. Executed(accounts, ix, work')
    BY <1>2, <2>1, <2>2, SuccessExecutes
  <2>. QED
    BY <1>1, <1>2, <1>3, <1>5, <2>3 DEF MessageInv, OneStep
<1>. QED
  BY <1>1, <1>4, <1>5

LEMMA ChainStepKeepsMessages ==
  ASSUME ClientInv, MessageInv, ChainStep
  PROVE  MessageInv'
<1>1. ClientInv' /\ Inv /\ [Next]_vars
  BY ChainStepInv DEF ClientInv
<1>2. Later(accounts, work)' /\ Later(accounts, accounts')
  BY <1>1, NextIsLater DEF MessageInv
<1>3. /\ finalAccounts' \in {finalAccounts, accounts}
      /\ UNCHANGED <<session, answers>>
      /\ flying' \subseteq flying
  BY DEF ChainStep, Land, Expire, Run, Settle, Finalize, clientVars, final
<1>4. Later(finalAccounts, accounts)'
  BY <1>2, <1>3, LaterTransitive DEF MessageInv
<1>5. \A k \in Client : InPhase(k, "checking")' => Saw(k)'
  BY <1>1, <1>2, <1>3, SeenStays DEF MessageInv, InPhase
<1>6. \A m \in flying' : SentRightly(m)'
  BY <1>1, <1>2, <1>3, SeenStays DEF MessageInv
<1>7. OneStep'
  <2>1. CASE \E m \in flying : Land(m)
    <3>1. PICK m \in flying : Land(m)
      BY <2>1
    <3>2. SentRightly(m) /\ SentRightly(m)'
      BY <1>1, <1>2, SeenStays DEF MessageInv
    <3>3. m # NoMessage /\ pc = 1 /\ work = accounts
      BY <3>1, <3>2, MessageAssumption
         DEF SentRightly, Land, Begin, ClientInv, Inv, TypeOK
    <3>. QED
      BY <3>1, <3>2, <3>3 DEF Land, Begin, OneStep
  <2>2. CASE (\E m \in flying : Expire(m)) \/ Finalize
    BY <2>2 DEF Expire, Finalize, MessageInv, OneStep, SentRightly, Prepared,
                NetworkIn, vars
  <2>3. CASE Run
    BY <2>3, RunKeepsOneStep
  <2>4. CASE Settle
    BY <2>4 DEF Settle, Commit, Abort, Finish, OneStep
  <2>. QED
    BY <2>1, <2>2, <2>3, <2>4 DEF ChainStep
<1>. QED
  BY <1>2, <1>4, <1>5, <1>6, <1>7 DEF MessageInv

LEMMA MessagesNextInv ==
  ASSUME ClientInv, MessageInv, [ClientsNext]_allVars
  PROVE  MessageInv'
<1>1. CASE UNCHANGED allVars
  BY <1>1 DEF allVars, vars, clientVars, final, MessageInv, InPhase, Saw, Found,
              CallOf, PlanNow, SentRightly, Prepared, NetworkIn, OneStep
<1>. QED
  BY <1>1, ClientStepKeepsMessages, ChainStepKeepsMessages DEF ClientsNext

LEMMA MessageInvariance == ClientsSpec => [](ClientInv /\ MessageInv)
<1>1. ClientInit => ClientInv /\ MessageInv
  BY ClientInitInv, MessageInitInv
<1>2. ClientInv /\ MessageInv /\ [ClientsNext]_allVars
          => (ClientInv /\ MessageInv)'
  BY ClientsNextInv, MessagesNextInv
<1>. QED
  BY <1>1, <1>2, PTL DEF ClientsSpec

-----------------------------------------------------------------------------
(* What the clients enter stays in its community.                          *)

\* The data of an address go in with the signature of an active reporter of
\* the community the instruction names, for a case of that community.
LEMMA AddressesHome ==
  ASSUME NEW s, LedgerOK(s), NEW t, NEW ix \in Instruction,
         CreateAddressVerdict(s, t, ix) = Ok,
         NEW a \in Changed(s, CreateAddressEffect(s, ix))
  PROVE  LET u == CreateAddressEffect(s, ix)
             c == ix.accounts[2]
         IN  /\ a = AddressAddress(ix.accounts[3], ix.address)
             /\ u[a].account_type = "Address"
             /\ Holds(s, CaseAddress(c, u[a].case_id), "Case")
             /\ \E k \in t.signers :
                    ReporterIn(s, c, k, ReporterType \ {"Inactive"})
<1>. DEFINE key == ix.accounts[1]
            c   == ix.accounts[2]
            r   == ix.accounts[4]
            d   == [account_type |-> "Address", risk |-> ix.risk,
                    case_id |-> ix.case_id, category |-> ix.category]
<1>1. /\ Signed(t, key) = Ok
      /\ ReporterBelongs(s, r, c, key) = Ok
      /\ CanCreateAddress(s, r) = Ok
      /\ ValidAccount(s, ix.accounts[5], "Case") = Ok
      /\ Require(ix.accounts[5] = CaseAddress(c, ix.case_id),
                 "CaseIDMismatch") = Ok
      /\ CreateAccount(t, key, ix.accounts[6],
                       AddressAddress(ix.accounts[3], ix.address),
                       ix.accounts[7]) = Ok
  BY ThenOk DEF CreateAddressVerdict
<1>2. ReporterIn(s, c, key, ReporterType \ {"Inactive"}) /\ key \in t.signers
  BY <1>1, ActiveReporter DEF ReporterSigned
<1>3. Holds(s, CaseAddress(c, ix.case_id), "Case")
  BY <1>1, ChecksPass DEF Require, Ok
<1>4. ix.accounts[6] = AddressAddress(ix.accounts[3], ix.address)
  BY <1>1, CallPasses
<1>5. CreateAddressEffect(s, ix) = Put(s, ix.accounts[6], d)
  BY DEF CreateAddressEffect
<1>6. d.account_type = "Address" /\ d.case_id = ix.case_id
  OBVIOUS
<1>. HIDE DEF d
<1>7. a = ix.accounts[6] /\ CreateAddressEffect(s, ix)[a] = d
  BY <1>5 DEF Put, Changed
<1>. QED
  BY <1>2, <1>3, <1>4, <1>6, <1>7

\* A case that is opened goes to the community of the reporter who signs.
LEMMA CasesHome ==
  ASSUME NEW s, LedgerOK(s), NEW t, NEW u, OpensCaseIn(s, t, u),
         NEW a \in Changed(s, u), NEW c, EnteredIn(c, a)
  PROVE  /\ u[a].account_type = "Case"
         /\ u[a].reporter_key \in t.signers
         /\ ReporterIn(s, c, u[a].reporter_key, {"Full", "Authority"})
<1>1. PICK x, k, b, d :
          /\ ReporterSigned(s, t, x, k, {"Full", "Authority"})
          /\ d.account_type = "Case"
          /\ d.reporter_key = k
          /\ u = Put(Put(s, x, b), CaseAddress(x, s[x].next_case_id), d)
  BY DEF OpensCaseIn
<1>. DEFINE n == CaseAddress(x, s[x].next_case_id)
<1>2. x \in Communities(s) /\ k \in t.signers
  BY <1>1 DEF ReporterSigned
<1>3. a \in {x, n}
  BY <1>1 DEF Put, Changed
<1>4. a # x
  <2>1. PICK name : x = CommunityAddress(name)
    BY <1>2 DEF LedgerOK, OnItsOwnAddress, Communities
  <2>. QED
    BY <2>1 DEF EnteredIn, CommunityAddress
<1>5. a = n /\ x = c /\ u[a] = d
  BY <1>1, <1>3, <1>4 DEF EnteredIn, CaseAddress, Put
<1>. QED
  BY <1>1, <1>2, <1>5 DEF ReporterSigned

\* What else an instruction writes is no entry.
LEMMA NothingElseEntered ==
  ASSUME NEW s, LedgerOK(s), NEW t, NEW u,
         \/ Founds(s, t, u) \/ HandsOver(s, t, u) \/ AddsNetwork(s, t, u)
         \/ Staffs(s, t, u),
         NEW a \in Changed(s, u), NEW c
  PROVE  ~EnteredIn(c, a)
<1>1. \/ \E name : a = CommunityAddress(name)
      \/ \E x, name : a = NetworkAddress(x, name)
      \/ \E x, k : a = ReporterAddress(x, k)
  <2>1. CASE Founds(s, t, u)
    BY <2>1 DEF Founds, Put, Changed
  <2>2. CASE HandsOver(s, t, u)
    <3>1. PICK x, d : Authorized(s, t, x) /\ u = Put(s, x, d)
      BY <2>2 DEF HandsOver
    <3>2. a = x /\ x \in Communities(s)
      BY <3>1 DEF Authorized, Put, Changed
    <3>. QED
      BY <3>2 DEF LedgerOK, OnItsOwnAddress, Communities
  <2>3. CASE AddsNetwork(s, t, u)
    BY <2>3 DEF AddsNetwork, Put, Changed
  <2>4. CASE Staffs(s, t, u)
    BY <2>4 DEF Staffs, Put, Changed
  <2>. QED
    BY <2>1, <2>2, <2>3, <2>4
<1>. QED
  BY <1>1 DEF EnteredIn, CommunityAddress, NetworkAddress, ReporterAddress

\* The instruction of a call, if it succeeds, enters only what it should.
LEMMA SuccessEntersRightly ==
  ASSUME Inv, [Next]_vars, InstructionDone,
         NEW k, NEW call, NEW id, SentFor(k, call, id, Instr),
         NEW c \in Communities(work), NEW a \in Written, EnteredIn(c, a)
  PROVE  EnteredRightly(c, a)
<1>1. LedgerOK(work) /\ Instr \in Instruction /\ a \in Changed(work, work')
  BY SuccessIsHandled DEF Inv, Written
<1>2. CASE Handled("CreateCase", CreateCaseVerdict(work, tx, Instr),
                   CreateCaseEffect(work, Instr))
  <2>1. OpensCaseIn(work, tx, work')
    BY <1>1, <1>2, OpensCaseEffect DEF Handled
  <2>2. /\ work'[a].account_type = "Case"
        /\ work'[a].reporter_key \in tx.signers
        /\ ReporterIn(work, c, work'[a].reporter_key, {"Full", "Authority"})
    BY <1>1, <2>1, CasesHome
  <2>. QED
    BY <2>2 DEF EnteredRightly, ReporterIn
<1>3. CASE Handled("UpdateCase", UpdateCaseVerdict(work, tx, Instr),
                   UpdateCaseEffect(work, Instr))
  <2>1. RevisesCaseFor(work, tx, work', Instr.accounts[2], Instr.accounts[1])
    BY <1>1, <1>3, RevisesCaseEffect DEF Handled
  <2>2. a = Instr.accounts[4]
    BY <1>1, <1>3 DEF Handled, UpdateCaseEffect, Put, Changed
  <2>3. PICK x : a = CaseAddress(Instr.accounts[2], x)
    BY <1>3, <2>2 DEF SentFor, Handled
  <2>4. Instr.accounts[2] = c
    BY <2>3 DEF EnteredIn, CaseAddress
  <2>. QED
    BY <1>1, <2>1, <2>4, RevisingRightly DEF EnteredRightly
<1>4. CASE Handled("CreateAddress", CreateAddressVerdict(work, tx, Instr),
                   CreateAddressEffect(work, Instr))
  <2>1. /\ a = AddressAddress(Instr.accounts[3], Instr.address)
        /\ work'[a].account_type = "Address"
        /\ Holds(work, CaseAddress(Instr.accounts[2], work'[a].case_id),
                 "Case")
        /\ \E j \in tx.signers :
               ReporterIn(work, Instr.accounts[2], j,
                          ReporterType \ {"Inactive"})
    BY <1>1, <1>4, AddressesHome DEF Handled
  <2>2. PICK name : Instr.accounts[3] = NetworkAddress(Instr.accounts[2], name)
    BY <1>4 DEF SentFor, Handled
  <2>3. Instr.accounts[2] = c
    BY <2>1, <2>2, AddressesDiffer DEF EnteredIn, AddressAddress
  <2>. QED
    BY <2>1, <2>3 DEF EnteredRightly
<1>5. ~Handled("UpdateAddress", UpdateAddressVerdict(work, tx, Instr),
               UpdateAddressEffect(work, Instr))
  BY <1>1, MisaddressedFails DEF Handled, SentFor
<1>6. CASE \/ Founds(work, tx, work') \/ HandsOver(work, tx, work')
           \/ AddsNetwork(work, tx, work') \/ Staffs(work, tx, work')
  BY <1>1, <1>6, NothingElseEntered
<1>. QED
  BY <1>1, <1>2, <1>3, <1>4, <1>5, <1>6, SuccessIsHandled, FoundsEffect,
     HandsOverEffect, AddsNetworkEffect, StaffsEffect
     DEF Handled

\* Whatever the clients do, and however their steps interleave, nobody but a
\* community's own reporters enters a case or an address there or revises a
\* case, and no address cites another community's case: both clients derive
\* every account of a call from one community (js/src/instructions,
\* cli/src/command), which the program does not check.
THEOREM OwnReportersEnter == ClientsSpec => EnteredByOwnReporters
<1>1. ASSUME ClientInv, MessageInv, [ClientsNext]_allVars
      PROVE  [InstructionDone =>
                \A c \in Communities(work), a \in Written :
                    EnteredIn(c, a) => EnteredRightly(c, a)]_vars
  <2>. SUFFICES ASSUME InstructionDone,
                       NEW c \in Communities(work), NEW a \in Written,
                       EnteredIn(c, a)
                PROVE  EnteredRightly(c, a)
    OBVIOUS
  <2>1. Inv /\ [Next]_vars
    BY <1>1, ClientsNextInv DEF ClientInv
  <2>2. PICK k, call, id : SentFor(k, call, id, tx.instructions[1])
    BY <1>1, RunningCall DEF InstructionDone
  <2>3. pc = 1
    <3>1. pc' # pc /\ pc \in Nat
      BY <2>1 DEF InstructionDone, Inv, TypeOK
    <3>2. Run
      BY <1>1, <3>1, ClientStepInv
         DEF ClientsNext, ChainStep, Land, Expire, Settle, Finalize, Begin,
             Commit, Abort, Finish, InstructionDone, allVars, vars
    <3>3. pc <= Len(tx.instructions)
      BY <3>1, <3>2
         DEF Run, Process, Reject, CreateCommunity, UpdateCommunity,
             CreateNetwork, UpdateNetwork, CreateReporter, UpdateReporter,
             CreateCase, UpdateCase, CreateAddress, UpdateAddress, Running,
             Fail
    <3>4. Len(tx.instructions) = 1
      BY <1>1, RunningCall DEF InstructionDone
    <3>5. pc \in {1, 2}
      BY <1>1 DEF MessageInv, OneStep, InstructionDone
    <3>. QED
      BY <3>3, <3>4, <3>5
  <2>4. SentFor(k, call, id, Instr)
    BY <2>2, <2>3 DEF Instr
  <2>. QED
    BY <2>1, <2>4, SuccessEntersRightly
<1>. QED
  BY <1>1, MessageInvariance, PTL DEF ClientsSpec, EnteredByOwnReporters

-----------------------------------------------------------------------------
(* The errors that no call of a client ends with.                          *)

Misfits == {"InvalidInstruction", "InvalidSeeds"}
Fitting == VerdictType \ Misfits

LEMMA ThenIn ==
  ASSUME NEW S, NEW v \in S, NEW w \in S
  PROVE  v ?? w \in S
BY DEF ??

LEMMA ChecksFit ==
  ASSUME NEW s, NEW t
  PROVE  /\ \A ix, n : TakesAccounts(ix, n) \in Fitting
         /\ \A k : Rent(k) \in Fitting
         /\ \A k : Signed(t, k) \in Fitting
         /\ \A name : NameWithin32(name) \in Fitting
         /\ \A name : SeedFits(name) \in Fitting
         /\ \A type, name : Serializes(type, name) \in Fitting
         /\ \A c : Require(c, "InvalidReporter") \in Fitting
         /\ \A c : Require(c, "CaseIDMismatch") \in Fitting
         /\ \A a : EmptyAccount(s, a) \in Fitting
         /\ \A a, type : ValidAccount(s, a, type) \in Fitting
         /\ \A c, k : HasAuthority(s, c, k) \in Fitting
         /\ \A a, c, k : ReporterBelongs(s, a, c, k) \in Fitting
         /\ \A a : CanCreateCase(s, a) \in Fitting
         /\ \A a : CanCreateAddress(s, a) \in Fitting
         /\ \A k, a, r : CanUpdateCase(s, k, a, r) \in Fitting
         /\ \A k, a, p : CreateAccount(t, k, a, a, p) \in Fitting
<1>1. ASSUME NEW error \in Error \ Misfits, NEW c
      PROVE  Require(c, error) \in Fitting
  BY DEF Require, Fitting, VerdictType, Misfits, Ok
<1>. USE DEF Misfits, Error
<1>2. \A a, type : ValidAccount(s, a, type) \in Fitting
  BY <1>1, ThenIn DEF ValidAccount
<1>3. \A a, type : AccountDataIs(s, a, type) \in Fitting
  BY <1>1, ThenIn DEF AccountDataIs
<1>4. /\ \A ix, n : TakesAccounts(ix, n) \in Fitting
      /\ \A k : Rent(k) \in Fitting
      /\ \A k : Signed(t, k) \in Fitting
      /\ \A name : NameWithin32(name) \in Fitting
      /\ \A name : SeedFits(name) \in Fitting
      /\ \A type, name : Serializes(type, name) \in Fitting
      /\ \A a : EmptyAccount(s, a) \in Fitting
  BY <1>1 DEF TakesAccounts, Rent, Signed, NameWithin32, SeedFits, Serializes,
              EmptyAccount
<1>5. \A c, k : HasAuthority(s, c, k) \in Fitting
  BY <1>1, <1>2, ThenIn DEF HasAuthority
<1>6. \A a, c, k : ReporterBelongs(s, a, c, k) \in Fitting
  BY <1>1, <1>2, ThenIn DEF ReporterBelongs
<1>7. \A a : CanCreateCase(s, a) \in Fitting
  BY <1>1, <1>3, ThenIn DEF CanCreateCase
<1>8. \A a : CanCreateAddress(s, a) \in Fitting
  BY <1>1, <1>3, ThenIn DEF CanCreateAddress
<1>9. \A k, a, r : CanUpdateCase(s, k, a, r) \in Fitting
  BY <1>1, <1>3, ThenIn DEF CanUpdateCase
<1>10. ASSUME NEW k, NEW a, NEW p
       PROVE  CreateAccount(t, k, a, a, p) \in Fitting
  <2>1. Require(a = a, "InvalidSeeds") \in Fitting
    BY DEF Require, Fitting, VerdictType, Ok
  <2>. QED
    BY <1>1, <2>1, ThenIn DEF CreateAccount
<1>11. \A c : /\ Require(c, "InvalidReporter") \in Fitting
              /\ Require(c, "CaseIDMismatch") \in Fitting
  BY <1>1
<1>. QED
  BY <1>2, <1>4, <1>5, <1>6, <1>7, <1>8, <1>9, <1>10, <1>11

\* An instruction at the right addresses is not refused for its seeds, and
\* only CreateCase compares a number.
LEMMA VerdictsFit ==
  ASSUME NEW s, NEW t, NEW ix, WellAddressed(ix)
  PROVE  /\ ix.op = "CreateCommunity" =>
                CreateCommunityVerdict(s, t, ix) \in Fitting
         /\ UpdateCommunityVerdict(s, t, ix) \in Fitting
         /\ ix.op = "CreateNetwork" =>
                CreateNetworkVerdict(s, t, ix) \in Fitting
         /\ ix.op = "CreateReporter" =>
                CreateReporterVerdict(s, t, ix) \in Fitting
         /\ UpdateReporterVerdict(s, t, ix) \in Fitting
         /\ ix.op = "CreateCase" =>
                CreateCaseVerdict(s, t, ix)
                    \in Fitting \cup {"InvalidInstruction"}
         /\ UpdateCaseVerdict(s, t, ix) \in Fitting
         /\ ix.op = "CreateAddress" =>
                CreateAddressVerdict(s, t, ix) \in Fitting
         /\ UpdateAddressVerdict(s, t, ix) \in Fitting
<1>1. ix.op = "CreateCommunity" => CreateCommunityVerdict(s, t, ix) \in Fitting
  BY ChecksFit, ThenIn DEF CreateCommunityVerdict, WellAddressed
<1>2. UpdateCommunityVerdict(s, t, ix) \in Fitting
  BY ChecksFit, ThenIn DEF UpdateCommunityVerdict
<1>3. ix.op = "CreateNetwork" => CreateNetworkVerdict(s, t, ix) \in Fitting
  BY ChecksFit, ThenIn DEF CreateNetworkVerdict, WellAddressed
<1>4. ix.op = "CreateReporter" => CreateReporterVerdict(s, t, ix) \in Fitting
  BY ChecksFit, ThenIn DEF CreateReporterVerdict, WellAddressed
<1>5. UpdateReporterVerdict(s, t, ix) \in Fitting
  BY ChecksFit, ThenIn DEF UpdateReporterVerdict
<1>6. ix.op = "CreateCase" =>
          CreateCaseVerdict(s, t, ix) \in Fitting \cup {"InvalidInstruction"}
  <2>1. \A c : Require(c, "InvalidInstruction")
                   \in Fitting \cup {"InvalidInstruction"}
    BY DEF Require, Fitting, VerdictType, Misfits, Ok
  <2>. QED
    BY <2>1, ChecksFit, ThenIn DEF CreateCaseVerdict, WellAddressed
<1>7. UpdateCaseVerdict(s, t, ix) \in Fitting
  BY ChecksFit, ThenIn DEF UpdateCaseVerdict
<1>8. ix.op = "CreateAddress" => CreateAddressVerdict(s, t, ix) \in Fitting
  BY ChecksFit, ThenIn DEF CreateAddressVerdict, WellAddressed
<1>9. UpdateAddressVerdict(s, t, ix) \in Fitting
  BY ChecksFit, ThenIn DEF UpdateAddressVerdict
<1>. QED
  BY <1>1, <1>2, <1>3, <1>4, <1>5, <1>6, <1>7, <1>8, <1>9

\* The number of a case that is prepared is behind the counter, or next.
LEMMA NextOrTaken ==
  ASSUME NEW s, LedgerOK(s), NEW t, NEW k, NEW c, NEW id \in CaseId,
         NEW ix, SentFor(k, c, id, ix), Prepared(s, c, id),
         ix.op = "CreateCase"
  PROVE  CreateCaseVerdict(s, t, ix) # "InvalidInstruction"
<1>. SUFFICES ASSUME CreateCaseVerdict(s, t, ix) = "InvalidInstruction"
              PROVE  FALSE
  OBVIOUS
<1>. DEFINE community == CommunityAddress(c.community)
<1>1. /\ OpensCase(c) /\ ix.accounts[2] = community /\ ix.case_id = id
      /\ ix.accounts[4] = CaseAddress(community, id)
  BY DEF SentFor, WellAddressed
<1>2. /\ CaseAddress(community, id) \notin DOMAIN s
      /\ id # s[community].next_case_id
  BY <1>1, MismatchedId, ChecksPass
<1>3. NotAhead(s, community, id)
  BY <1>1 DEF Prepared
<1>. QED
  BY <1>2, <1>3, NotAheadIsNext

LEMMA RunFits ==
  ASSUME ClientInv, MessageInv, Run
  PROVE  verdict' \in Fitting
<1>. DEFINE ix == tx.instructions[1]
<1>1. tx # NoTx /\ verdict = Ok /\ pc <= Len(tx.instructions)
  BY DEF Run, Process, Reject, CreateCommunity, UpdateCommunity,
         CreateNetwork, UpdateNetwork, CreateReporter, UpdateReporter,
         CreateCase, UpdateCase, CreateAddress, UpdateAddress, Running
<1>2. PICK i \in 1 .. Len(Script[running.by]), id \in CaseId :
               LET c == Script[running.by][i]
               IN  /\ SentFor(running.by, c, id, ix)
                   /\ Prepared(accounts, c, id)
  BY <1>1, RunningCall
<1>3. Instr = ix /\ work = accounts
  <2>1. Len(tx.instructions) = 1
    BY <1>1, RunningCall
  <2>2. pc \in {1, 2} /\ (pc = 1 => work = accounts)
    BY <1>1 DEF MessageInv, OneStep
  <2>. QED
    BY <1>1, <2>1, <2>2 DEF Instr
<1>4. WellAddressed(ix) /\ ix.op \notin {"UpdateCommunity", "UpdateNetwork",
                                         "Malformed"}
  BY <1>2 DEF SentFor
<1>5. ASSUME NEW checks \in Fitting, NEW effect, Execute(checks, effect)
      PROVE  verdict' \in Fitting
  <2>1. Require(Changed(work, effect) \subseteq tx.writable,
                "ReadonlyDataModified") \in Fitting
    BY DEF Require, Fitting, VerdictType, Misfits, Error, Ok
  <2>2. (checks ?? Require(Changed(work, effect) \subseteq tx.writable,
                           "ReadonlyDataModified")) \in Fitting
    BY <2>1, ThenIn
  <2>3. Ok \in Fitting
    BY DEF Fitting, VerdictType, Misfits, Ok
  <2>. QED
    BY <1>1, <1>5, <2>2, <2>3 DEF Execute, Succeed, Fail
<1>6. CASE CreateCase
  <2>1. CreateCaseVerdict(work, tx, ix) \in Fitting \cup {"InvalidInstruction"}
    BY <1>3, <1>4, <1>6, VerdictsFit DEF CreateCase, Running
  <2>2. CreateCaseVerdict(work, tx, ix) # "InvalidInstruction"
    BY <1>2, <1>3, <1>6, NextOrTaken DEF CreateCase, Running, ClientInv, Inv
  <2>. QED
    BY <1>3, <1>5, <1>6, <2>1, <2>2 DEF CreateCase
<1>7. CASE CreateCommunity
  BY <1>3, <1>4, <1>5, <1>7, VerdictsFit DEF CreateCommunity, Running
<1>8. CASE CreateNetwork
  BY <1>3, <1>4, <1>5, <1>8, VerdictsFit DEF CreateNetwork, Running
<1>9. CASE CreateReporter
  BY <1>3, <1>4, <1>5, <1>9, VerdictsFit DEF CreateReporter, Running
<1>10. CASE UpdateReporter
  BY <1>3, <1>4, <1>5, <1>10, VerdictsFit DEF UpdateReporter, Running
<1>11. CASE UpdateCase
  BY <1>3, <1>4, <1>5, <1>11, VerdictsFit DEF UpdateCase, Running
<1>12. CASE CreateAddress
  BY <1>3, <1>4, <1>5, <1>12, VerdictsFit DEF CreateAddress, Running
<1>13. CASE UpdateAddress
  BY <1>3, <1>4, <1>5, <1>13, VerdictsFit DEF UpdateAddress, Running
<1>14. CASE UpdateCommunity \/ UpdateNetwork \/ Reject
  BY <1>3, <1>4, <1>14 DEF UpdateCommunity, UpdateNetwork, Reject, Running
<1>. QED
  BY <1>6, <1>7, <1>8, <1>9, <1>10, <1>11, <1>12, <1>13, <1>14
     DEF Run, Process

\* No client is told of a wrong number or a wrong seed, whatever the others
\* did between its look-ups and the execution of its transaction: the number
\* it read is taken by then or still the next
\* (process_create_case.rs:60-67).
THEOREM LosersLoseToAccounts == ClientsSpec => []LosersAreBehind
<1>1. ClientInit => LosersAreBehind
  BY DEF ClientInit, LosersAreBehind
<1>2. ASSUME ClientInv, MessageInv, LosersAreBehind, [ClientsNext]_allVars
      PROVE  LosersAreBehind'
  <2>1. CASE UNCHANGED <<running, verdict>>
    BY <1>2, <2>1 DEF LosersAreBehind
  <2>2. CASE \E m \in flying : Land(m)
    BY <1>2, <2>2
       DEF Land, Begin, LosersAreBehind, ClientInv, Inv, TypeOK, Ok
  <2>3. CASE Run
    BY <1>2, <2>3, RunFits DEF LosersAreBehind, Fitting, Misfits
  <2>4. CASE Settle
    BY <2>4 DEF Settle, LosersAreBehind
  <2>5. CASE \/ \E k \in Client : ClientStep(k)
             \/ \E m \in flying : Expire(m)
             \/ Finalize
             \/ UNCHANGED allVars
    BY <2>1, <2>5
       DEF ClientStep, Call, Check, CheckFails, Refuse, Send, Confirm, TimeOut,
           GiveUp, ReadBack, ReadBackFails, Expire, Finalize, allVars,
           clientVars, vars
  <2>. QED
    BY <1>2, <2>2, <2>3, <2>4, <2>5 DEF ClientsNext, ChainStep
<1>. QED
  BY <1>1, <1>2, MessageInvariance, PTL DEF ClientsSpec

\* A network that an address is reported in is there, although the program
\* does not look: the client has (reporter-client.ts:235-241,
\* cmd_create_address.rs:28), and nothing it saw is gone when the transaction
\* is executed.
THEOREM ReportedInNetworks == ClientsSpec => []ClientsReportInNetworks
<1>1. ClientInit => ClientsReportInNetworks
  BY DEF ClientInit, Init, ClientsReportInNetworks
<1>2. ASSUME ClientInv, MessageInv, ClientsReportInNetworks,
             [ClientsNext]_allVars
      PROVE  ClientsReportInNetworks'
  <2>1. CASE UNCHANGED accounts
    BY <1>2, <2>1 DEF ClientsReportInNetworks
  <2>2. CASE Settle /\ Commit
    <3>. DEFINE ix == tx.instructions[1]
    <3>1. tx # NoTx /\ accounts' = work
      BY <2>2 DEF Commit
    <3>2. Executed(accounts, ix, work)
      BY <1>2, <2>2, CommitExecutes
    <3>3. PICK i \in 1 .. Len(Script[running.by]), id \in CaseId :
                   LET c == Script[running.by][i]
                   IN  /\ SentFor(running.by, c, id, ix)
                       /\ Prepared(accounts, c, id)
      BY <1>2, <3>1, RunningCall
    <3>4. ASSUME NEW a, Holds(work, a, "Address")
          PROVE  Holds(accounts, a[2], "Network")
      <4>1. CASE Holds(accounts, a, "Address")
        BY <1>2, <4>1 DEF ClientsReportInNetworks, Holds
      <4>2. CASE ix.op = "CreateAddress" /\ a = ix.accounts[6]
        <5>1. a[2] = ix.accounts[3]
          BY <3>3, <4>2 DEF SentFor, WellAddressed, AddressAddress
        <5>. QED
          BY <3>3, <4>2, <5>1 DEF SentFor, Prepared, NetworkIn
      <4>. QED
        BY <3>2, <3>4, <4>1, <4>2 DEF Executed, Holds
    <3>5. \A a : Holds(accounts, a, "Network") => Holds(work, a, "Network")
      BY <1>2 DEF MessageInv, Later, Kept, Holds
    <3>6. \A a : Holds(work, a, "Address") => Holds(work, a[2], "Network")
      BY <3>4, <3>5
    <3>. QED
      BY <3>1, <3>6 DEF ClientsReportInNetworks, Holds
  <2>3. accounts' = accounts \/ (Settle /\ Commit)
    BY <1>2
       DEF ClientsNext, ChainStep, Land, Begin, Expire, Run, Process, Reject,
           CreateCommunity, UpdateCommunity, CreateNetwork, UpdateNetwork,
           CreateReporter, UpdateReporter, CreateCase, UpdateCase,
           CreateAddress, UpdateAddress, Execute, Succeed, Fail, Settle, Abort,
           Finalize, ClientStep, Call, Check, CheckFails, Refuse, Send,
           Confirm, TimeOut, GiveUp, ReadBack, ReadBackFails, allVars, vars
  <2>. QED
    BY <2>1, <2>2, <2>3
<1>. QED
  BY <1>1, <1>2, MessageInvariance, PTL DEF ClientsSpec
=============================================================================
