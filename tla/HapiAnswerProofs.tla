--------------------------- MODULE HapiAnswerProofs ---------------------------
(***************************************************************************)
(* The clients' answers are true, for any scripts, either commitment and   *)
(* any number of failures.  A client waits for one message at a time: the  *)
(* number of calls that ended in doubt tells the message of its call from  *)
(* all the earlier ones, which may still land, and whose outcome nobody    *)
(* waits for.  So an outcome of Ok is that of the client's own message,    *)
(* and the case it then finds is the one that message has opened.          *)
(***************************************************************************)
EXTENDS HapiClientProofs, HapiService

-----------------------------------------------------------------------------
(* Whose outcome a client sees.                                            *)

\* The client of message m waits for it.
Awaited(m) == /\ InPhase(m.by, "confirming")
              /\ m = MessageOf(m.by)
              /\ outcome[m.by] = Pending

\* A message under way belongs to a call that ended in doubt, or is awaited.
Timely(m) == m.turn < doubts[m.by] \/ (m.turn = doubts[m.by] /\ Awaited(m))

TurnInv ==
    /\ \A m \in flying : Timely(m)
    /\ running # NoMessage => Timely(running)
    /\ running \notin flying
    /\ \A k \in Client : finalOutcome[k] \in {Pending, outcome[k]}
    /\ \A k \in Client : InPhase(k, "returning") =>
                             SeenOutcome(k) = Ok /\ ~IsCommand(CallOf(k))

LEMMA TurnInit ==
  ASSUME ClientInit
  PROVE  TurnInv
BY DEF ClientInit, TurnInv, InPhase, Idle

\* A message under way is one that was sent.
LEMMA Messages ==
  ASSUME ClientInv, MessageInv
  PROVE  /\ \A m \in flying : m \in [by : Client, turn : Nat, tx : Transactions]
         /\ running # NoMessage =>
                running \in [by : Client, turn : Nat, tx : Transactions]
         /\ NoMessage \notin flying
<1>1. \A m \in flying : m \in [by : Client, turn : Nat, tx : Transactions]
  BY DEF MessageInv, SentRightly
<1>2. running # NoMessage =>
          running \in [by : Client, turn : Nat, tx : Transactions]
  BY RunningCall DEF ClientInv, ClientTypeOK
<1>. QED
  BY <1>1, <1>2, MessageAssumption

\* What an outcome that is seen says of the outcome.
LEMMA SeenIsOutcome ==
  ASSUME TurnInv, NEW k \in Client, SeenOutcome(k) # Pending
  PROVE  outcome[k] = SeenOutcome(k)
BY DEF TurnInv, SeenOutcome

\* A step of one client leaves the others' calls alone.
LEMMA OthersStay ==
  ASSUME ClientInv, NEW k \in Client, ClientStep(k), NEW j \in Client \ {k}
  PROVE  /\ session'[j] = session[j] /\ answers'[j] = answers[j]
         /\ doubts'[j] = doubts[j]
         /\ outcome'[j] = outcome[j] /\ finalOutcome'[j] = finalOutcome[j]
BY DEF ClientStep, Call, Check, CheckFails, Refuse, Send, Confirm, TimeOut,
       GiveUp, ReadBack, ReadBackFails, Pass, Throw, Doubt, GoTo, Answer, final,
       ClientInv, ClientTypeOK

\* A client that is not waiting for its message, or gives up, has none on its
\* way that it will ever wait for.
LEMMA Abandons ==
  ASSUME ClientInv, TurnInv, NEW k \in Client, ClientStep(k), ~Send(k)
  PROVE  \/ doubts'[k] = doubts[k] + 1
         \/ /\ doubts'[k] = doubts[k]
            /\ ~(InPhase(k, "confirming") /\ outcome[k] = Pending)
<1>1. SeenOutcome(k) # Pending => outcome[k] # Pending
  BY SeenIsOutcome
<1>. QED
  BY <1>1
     DEF ClientStep, Call, Check, CheckFails, LookingUp, Refuse, Checked,
         Confirm, TimeOut, GiveUp, ReadBack, ReadBackFails, Doubt, InPhase,
         ClientInv, ClientTypeOK

LEMMA ClientStepKeepsTimely ==
  ASSUME ClientInv, MessageInv, TurnInv, NEW k \in Client, ClientStep(k),
         NEW m \in [by : Client, turn : Nat, tx : Transactions], Timely(m)
  PROVE  Timely(m)'
<1>1. CASE m.by # k
  <2>. DEFINE j == m.by
  <2>1. /\ session'[j] = session[j] /\ answers'[j] = answers[j]
        /\ doubts'[j] = doubts[j] /\ outcome'[j] = outcome[j]
    BY <1>1, OthersStay
  <2>. QED
    BY <2>1 DEF Timely, Awaited, InPhase, MessageOf, PlanNow, CallOf
<1>2. CASE m.by = k /\ Send(k)
  <2>1. m.turn < doubts[k]
    BY <1>2 DEF Timely, Awaited, InPhase, Send, Checked
  <2>. QED
    BY <1>2, <2>1 DEF Timely, Send
<1>3. CASE m.by = k /\ ~Send(k)
  <2>1. doubts[k] \in Nat /\ m.turn \in Nat
    BY DEF ClientInv, ClientTypeOK
  <2>2. m.turn < doubts'[k]
    BY <1>3, <2>1, Abandons DEF Timely, Awaited
  <2>. QED
    BY <1>3, <2>2 DEF Timely
<1>. QED
  BY <1>1, <1>2, <1>3

LEMMA ClientStepKeepsTurns ==
  ASSUME ClientInv, MessageInv, TurnInv, NEW k \in Client, ClientStep(k)
  PROVE  TurnInv'
<1>1. running' = running
  BY DEF ClientStep, Call, Check, CheckFails, Refuse, Send, Confirm, TimeOut,
         GiveUp, ReadBack, ReadBackFails
<1>2. \/ flying' = flying
      \/ Send(k) /\ flying' = flying \cup {MessageOf(k)}
  BY DEF ClientStep, Call, Check, CheckFails, Refuse, Send, Confirm, TimeOut,
         GiveUp, ReadBack, ReadBackFails
<1>3. ASSUME Send(k), NEW m, m = MessageOf(k)
      PROVE  Timely(m)' /\ m # running
  <2>1. /\ MessageOf(k).by = k /\ MessageOf(k).turn = doubts[k]
        /\ MessageOf(k)' = MessageOf(k)
    BY <1>3 DEF MessageOf, PlanNow, CallOf, Send, GoTo, Busy, ClientInv,
                ClientTypeOK
  <2>2. InPhase(k, "confirming")' /\ outcome'[k] = Pending
        /\ doubts'[k] = doubts[k]
    BY <1>3 DEF Send, GoTo, Busy, InPhase, ClientInv, ClientTypeOK
  <2>3. ~InPhase(k, "confirming")
    BY <1>3 DEF Send, Checked, InPhase
  <2>4. m \in [by : Client, turn : Nat, tx : Transactions]
    BY <1>3, SendsRightly DEF Send, Checked, MessageInv, SentRightly
  <2>5. ~Timely(m)
    BY <1>3, <2>1, <2>3, <2>4 DEF Timely, Awaited
  <2>6. m # running
    BY <2>4, <2>5, MessageAssumption DEF TurnInv
  <2>. QED
    BY <1>3, <2>1, <2>2, <2>6 DEF Timely, Awaited
<1>4. \A m \in flying' : Timely(m)'
  <2>1. \A m \in flying : Timely(m)'
    BY ClientStepKeepsTimely, Messages DEF TurnInv
  <2>. QED
    BY <1>2, <1>3, <2>1
<1>5. (running # NoMessage => Timely(running))'
  BY <1>1, ClientStepKeepsTimely, Messages DEF TurnInv
<1>6. (running \notin flying)'
  BY <1>1, <1>2, <1>3 DEF TurnInv
<1>7. ASSUME NEW j \in Client
      PROVE  finalOutcome'[j] \in {Pending, outcome'[j]}
  <2>1. CASE j = k
    BY <2>1 DEF ClientStep, Call, Check, CheckFails, Refuse, Send, Confirm,
                TimeOut, GiveUp, ReadBack, ReadBackFails, final, ClientInv,
                ClientTypeOK, TurnInv
  <2>. QED
    BY <2>1, OthersStay DEF TurnInv
<1>8. ASSUME NEW j \in Client, InPhase(j, "returning")'
      PROVE  SeenOutcome(j)' = Ok /\ ~IsCommand(CallOf(j))'
  <2>1. CASE j # k
    <3>1. /\ session'[j] = session[j] /\ answers'[j] = answers[j]
          /\ outcome'[j] = outcome[j] /\ finalOutcome'[j] = finalOutcome[j]
      BY <2>1, OthersStay
    <3>. QED
      BY <1>8, <3>1 DEF TurnInv, InPhase, SeenOutcome, ReadsFinal, CallOf
  <2>2. CASE j = k
    <3>1. Confirm(k) /\ SeenOutcome(k) = Ok /\ ~IsCommand(CallOf(k))
      BY <1>8, <2>2
         DEF ClientStep, Call, Check, CheckFails, Refuse, Send, Confirm,
             TimeOut, GiveUp, ReadBack, ReadBackFails, Pass, GoTo, Busy,
             Answer, Throw, Idle, InPhase, ClientInv, ClientTypeOK
    <3>2. UNCHANGED <<answers, outcome, finalOutcome>>
      BY <3>1 DEF Confirm, final
    <3>. QED
      BY <2>2, <3>1, <3>2 DEF SeenOutcome, ReadsFinal, CallOf
  <2>. QED
    BY <2>1, <2>2
<1>. QED
  BY <1>4, <1>5, <1>6, <1>7, <1>8 DEF TurnInv

LEMMA ChainStepKeepsTurns ==
  ASSUME ClientInv, MessageInv, TurnInv, ChainStep
  PROVE  TurnInv'
<1>1. UNCHANGED <<session, answers, doubts>>
  BY DEF ChainStep, Land, Expire, Run, Settle, Finalize, clientVars
<1>2. ASSUME UNCHANGED outcome, NEW m, Timely(m)
      PROVE  Timely(m)'
  BY <1>1, <1>2 DEF Timely, Awaited, InPhase, MessageOf, PlanNow, CallOf
<1>3. ASSUME UNCHANGED <<outcome, finalOutcome>>
      PROVE  /\ \A k \in Client : finalOutcome'[k] \in {Pending, outcome'[k]}
             /\ \A k \in Client : InPhase(k, "returning")' =>
                    SeenOutcome(k)' = Ok /\ ~IsCommand(CallOf(k))'
  BY <1>1, <1>3 DEF TurnInv, InPhase, SeenOutcome, ReadsFinal, CallOf
<1>4. CASE \E m \in flying : Land(m)
  BY <1>2, <1>3, <1>4 DEF Land, final, TurnInv
<1>5. CASE \E m \in flying : Expire(m)
  BY <1>2, <1>3, <1>5 DEF Expire, final, TurnInv
<1>6. CASE Run
  BY <1>2, <1>3, <1>6 DEF Run, clientVars, final, TurnInv
<1>7. CASE Settle
  <2>. DEFINE k == running.by
  <2>1. running' = NoMessage /\ flying' = flying /\ finalOutcome' = finalOutcome
    BY <1>7 DEF Settle, final
  <2>2. running # NoMessage /\ k \in Client
    BY <1>7, RunningCall
       DEF Settle, Commit, Abort, MessageInv, OneStep
  <2>3. CASE running.turn # doubts[k]
    <3>1. outcome' = outcome
      BY <1>7, <2>3 DEF Settle
    <3>. QED
      BY <1>2, <1>3, <2>1, <3>1, Messages DEF TurnInv
  <2>4. CASE running.turn = doubts[k]
    <3>1. outcome' = [outcome EXCEPT ![k] = verdict]
      BY <1>7, <2>4 DEF Settle
    <3>2. Awaited(running) /\ doubts[k] \in Nat
      BY <2>2, <2>4 DEF TurnInv, Timely, ClientInv, ClientTypeOK
    <3>3. ASSUME NEW m \in flying
          PROVE  Timely(m)'
      <4>1. CASE m.by # k
        <5>1. outcome'[m.by] = outcome[m.by]
          BY <3>1, <4>1, Messages DEF ClientInv, ClientTypeOK
        <5>. QED
          BY <1>1, <5>1
             DEF TurnInv, Timely, Awaited, InPhase, MessageOf, PlanNow, CallOf
      <4>2. CASE m.by = k
        <5>1. ~Awaited(m)
          BY <3>2, <4>2 DEF TurnInv, Awaited
        <5>. QED
          BY <1>1, <4>2, <5>1 DEF TurnInv, Timely
      <4>. QED
        BY <4>1, <4>2
    <3>4. ASSUME NEW j \in Client
          PROVE  finalOutcome'[j] \in {Pending, outcome'[j]}
      <4>1. CASE j = k
        BY <2>1, <3>2, <4>1 DEF TurnInv, Awaited
      <4>2. CASE j # k
        BY <2>1, <3>1, <4>2 DEF TurnInv, ClientInv, ClientTypeOK
      <4>. QED
        BY <4>1, <4>2
    <3>5. ASSUME NEW j \in Client, InPhase(j, "returning")'
          PROVE  SeenOutcome(j)' = Ok /\ ~IsCommand(CallOf(j))'
      <4>1. j # k
        BY <1>1, <3>2, <3>5 DEF Awaited, InPhase
      <4>2. outcome'[j] = outcome[j]
        BY <3>1, <4>1 DEF ClientInv, ClientTypeOK
      <4>. QED
        BY <1>1, <2>1, <3>5, <4>2
           DEF TurnInv, InPhase, SeenOutcome, ReadsFinal, CallOf
    <3>. QED
      BY <2>1, <3>3, <3>4, <3>5, Messages DEF TurnInv
  <2>. QED
    BY <2>3, <2>4
<1>8. CASE Finalize
  <2>1. /\ outcome' = outcome /\ finalOutcome' = outcome
        /\ UNCHANGED <<flying, running>>
    BY <1>8 DEF Finalize
  <2>2. ASSUME NEW j \in Client, InPhase(j, "returning")'
        PROVE  SeenOutcome(j)' = Ok /\ ~IsCommand(CallOf(j))'
    <3>1. SeenOutcome(j) = Ok /\ ~IsCommand(CallOf(j))
      BY <1>1, <2>2 DEF TurnInv, InPhase
    <3>2. outcome[j] = Ok
      BY <3>1, SeenIsOutcome DEF Ok, Pending
    <3>. QED
      BY <1>1, <2>1, <3>1, <3>2 DEF SeenOutcome, ReadsFinal, CallOf
  <2>. QED
    BY <1>2, <2>1, <2>2 DEF TurnInv
<1>. QED
  BY <1>4, <1>5, <1>6, <1>7, <1>8 DEF ChainStep

LEMMA TurnsNextInv ==
  ASSUME ClientInv, MessageInv, TurnInv, [ClientsNext]_allVars
  PROVE  TurnInv'
<1>1. CASE UNCHANGED allVars
  BY <1>1 DEF allVars, clientVars, final, TurnInv, Timely, Awaited, InPhase,
              MessageOf, PlanNow, CallOf, SeenOutcome, ReadsFinal
<1>. QED
  BY <1>1, ClientStepKeepsTurns, ChainStepKeepsTurns DEF ClientsNext

LEMMA TurnInvariance == ClientsSpec => [](ClientInv /\ MessageInv /\ TurnInv)
<1>1. ClientInit => TurnInv
  BY TurnInit
<1>2. ClientInv /\ MessageInv /\ TurnInv /\ [ClientsNext]_allVars => TurnInv'
  BY TurnsNextInv
<1>. QED
  BY <1>1, <1>2, MessageInvariance, PTL DEF ClientsSpec

-----------------------------------------------------------------------------
(* What an outcome of Ok means.                                            *)

OwnCase(s, a, k, name) == /\ a \in DOMAIN s
                          /\ s[a].reporter_key = k
                          /\ s[a].name = name

\* It is the client's own, and in no answer yet.
NewCase(k) == /\ OwnCase(accounts, CaseNow(k), k, CallOf(k).name)
              /\ \A i \in CasesAnswered(k) : CaseAnswered(k, i) # CaseNow(k)

AnswerInv ==
    /\ \A k \in Client : \A i \in CasesAnswered(k) : TrueAnswer(k, i)
    /\ \A k \in Client : \A i, j \in CasesAnswered(k) :
           CaseAnswered(k, i) = CaseAnswered(k, j) => i = j
    /\ \A k \in Client : Waiting(k) /\ outcome[k] = Ok /\ OpensCase(CallOf(k))
           => NewCase(k)

LEMMA TrueAnswerIs ==
  ASSUME NEW k, NEW i
  PROVE  LET name == Script[k][i].name
             data == answers[k][i].data
         IN  TrueAnswer(k, i) <=>
                 /\ OwnCase(accounts, CaseAnswered(k, i), k, name)
                 /\ data # NoData => data.reporter_key = k /\ data.name = name
BY DEF TrueAnswer, OwnCase

LEMMA AnswerInit ==
  ASSUME ClientInit
  PROVE  AnswerInv
BY DEF ClientInit, AnswerInv, CasesAnswered, Answered, Waiting, Idle

\* Two answers of different clients are different cases: a case has one author.
LEMMA AnswersTrue ==
  ASSUME AnswerInv
  PROVE  AnswersAreTrue
<1>1. ASSUME NEW k1 \in Client, NEW k2 \in Client,
             NEW i \in CasesAnswered(k1), NEW j \in CasesAnswered(k2),
             CaseAnswered(k1, i) = CaseAnswered(k2, j)
      PROVE  k1 = k2 /\ i = j
  <2>1. k1 = k2
    BY <1>1, TrueAnswerIs DEF AnswerInv, OwnCase
  <2>. QED
    BY <1>1, <2>1 DEF AnswerInv
<1>. QED
  BY <1>1 DEF AnswersAreTrue, AnswerInv

\* A case that is there stays its author's.
LEMMA OwnCaseStays ==
  ASSUME NEW s, LedgerOK(s), NEW u, Later(s, u), NEW c, NEW id,
         NEW k, NEW name, OwnCase(s, CaseAddress(c, id), k, name)
  PROVE  OwnCase(u, CaseAddress(c, id), k, name)
BY CaseAccounts DEF OwnCase, Later, Kept

\* An answer to a call whose transaction has ended with Ok.
LEMMA AnsweredTruly ==
  ASSUME ClientInv, AnswerInv, NEW k \in Client, Waiting(k), outcome[k] = Ok,
         NEW data \in AccountData \cup {NoData}, Answer(k, data),
         UNCHANGED accounts,
         OpensCase(CallOf(k)) /\ data # NoData =>
             data.reporter_key = k /\ data.name = CallOf(k).name
  PROVE  /\ \A i \in CasesAnswered(k)' : TrueAnswer(k, i)'
         /\ \A i, j \in CasesAnswered(k)' :
                CaseAnswered(k, i)' = CaseAnswered(k, j)' => i = j
<1>. PICK n \in Nat : n = Len(answers[k])
  BY DEF ClientInv, ClientTypeOK
<1>. DEFINE new == [id |-> session[k].id, data |-> data]
<1>1. answers[k] \in Seq(AnswerType) /\ new \in AnswerType
  <2>1. session[k] # Idle
    BY DEF Waiting, Idle
  <2>. QED
    BY <2>1, BusySessions DEF ClientInv, ClientTypeOK, AnswerType
<1>2. answers'[k] = Append(answers[k], new)
  BY DEF Answer, ClientInv, ClientTypeOK
<1>3. /\ Len(answers'[k]) = n + 1
      /\ answers'[k][n + 1] = new
      /\ \A i \in 1 .. n : answers'[k][i] = answers[k][i]
  BY <1>1, <1>2
<1>4. Script[k][n + 1] = CallOf(k)
  BY DEF CallOf
<1>5. /\ \A i \in CasesAnswered(k)' : i \in CasesAnswered(k) \/ i = n + 1
      /\ n + 1 \in CasesAnswered(k)' => OpensCase(CallOf(k))
      /\ CasesAnswered(k) \subseteq 1 .. n
  BY <1>1, <1>3, <1>4 DEF CasesAnswered, Answered
<1>6. \A i \in CasesAnswered(k) : /\ CaseAnswered(k, i)' = CaseAnswered(k, i)
                                  /\ TrueAnswer(k, i)'
  BY <1>3, <1>5 DEF CaseAnswered, TrueAnswer, AnswerInv
<1>7. ASSUME n + 1 \in CasesAnswered(k)'
      PROVE  /\ CaseAnswered(k, n + 1)' = CaseNow(k)
             /\ TrueAnswer(k, n + 1)'
             /\ \A i \in CasesAnswered(k) : CaseAnswered(k, i) # CaseNow(k)
  <2>1. OpensCase(CallOf(k)) /\ NewCase(k)
    BY <1>5, <1>7 DEF AnswerInv
  <2>2. CaseAnswered(k, n + 1)' = CaseNow(k)
    BY <1>3, <1>4 DEF CaseAnswered, CaseNow
  <2>3. answers'[k][n + 1].data = data
    BY <1>3
  <2>4. TrueAnswer(k, n + 1)'
    BY <1>4, <2>1, <2>2, <2>3 DEF NewCase, OwnCase, TrueAnswer
  <2>. QED
    BY <2>1, <2>2, <2>4 DEF NewCase
<1>. QED
  BY <1>5, <1>6, <1>7 DEF AnswerInv

\* A call is answered only when its transaction has ended with Ok, and with
\* the data that the ledger has, or had, at the address of the case.
LEMMA OnlyOkIsAnswered ==
  ASSUME ClientInv, MessageInv, TurnInv, AnswerInv, NEW k \in Client,
         ClientStep(k)
  PROVE  \/ answers'[k] = answers[k]
         \/ /\ Waiting(k) /\ outcome[k] = Ok
            /\ \E data \in AccountData \cup {NoData} :
                   /\ Answer(k, data)
                   /\ OpensCase(CallOf(k)) /\ data # NoData =>
                          data.reporter_key = k /\ data.name = CallOf(k).name
<1>1. CASE Confirm(k) /\ answers'[k] # answers[k]
  <2>1. /\ InPhase(k, "confirming") /\ SeenOutcome(k) = Ok
        /\ SeenOutcome(k) # Pending /\ Answer(k, NoData)
    BY <1>1 DEF Confirm
  <2>2. outcome[k] = Ok
    BY <2>1, SeenIsOutcome
  <2>. QED
    BY <2>1, <2>2 DEF Waiting, InPhase
<1>2. CASE ReadBack(k) /\ answers'[k] # answers[k]
  <2>. DEFINE a == PlanNow(k).account
              data == Seen(k)[a]
  <2>1. InPhase(k, "returning") /\ a \in DOMAIN Seen(k) /\ Answer(k, data)
    BY <1>2 DEF ReadBack
  <2>2. Waiting(k) /\ outcome[k] = Ok /\ ~IsCommand(CallOf(k))
    BY <2>1, SeenIsOutcome DEF TurnInv, Waiting, InPhase, Ok, Pending
  <2>3. data \in AccountData
    BY <2>1, SeenInOrder DEF IsLedger
  <2>4. ASSUME OpensCase(CallOf(k))
        PROVE  data.reporter_key = k /\ data.name = CallOf(k).name
    <3>1. CallOf(k).method = "createCase"
      BY <2>2, <2>4 DEF OpensCase, IsCommand, CommandMethods
    <3>2. PlanNow(k) = createCase(k, CallOf(k), session[k].id)
      BY <3>1 DEF PlanNow, PlanOf
    <3>3. a = CaseNow(k)
      BY <3>2 DEF createCase, Plan, CaseNow
    <3>4. OwnCase(accounts, a, k, CallOf(k).name)
      BY <2>2, <2>4, <3>3 DEF AnswerInv, NewCase
    <3>5. Later(Seen(k), accounts) /\ LedgerOK(Seen(k))
      BY SeenInOrder, LaterReflexive DEF Seen, MessageInv
    <3>6. data.account_type = "Case"
      BY <2>1, <3>3, <3>5, CaseAccounts DEF CaseNow
    <3>7. accounts[a].reporter_key = data.reporter_key
          /\ accounts[a].name = data.name
      BY <2>1, <3>5, <3>6 DEF Later, Kept
    <3>. QED
      BY <3>4, <3>7 DEF OwnCase
  <2>. QED
    BY <2>1, <2>2, <2>3, <2>4
<1>3. CASE ~Confirm(k) /\ ~ReadBack(k)
  BY <1>3 DEF ClientStep, Call, Check, CheckFails, Refuse, Send, TimeOut,
              GiveUp, ReadBackFails
<1>. QED
  BY <1>1, <1>2, <1>3

LEMMA ClientStepKeepsAnswers ==
  ASSUME ClientInv, MessageInv, TurnInv, AnswerInv, NEW k \in Client,
         ClientStep(k)
  PROVE  AnswerInv'
<1>1. accounts' = accounts
  BY ClientStepInv DEF vars
<1>2. ASSUME NEW j \in Client, answers'[j] = answers[j]
      PROVE  /\ CasesAnswered(j)' = CasesAnswered(j)
             /\ \A i : CaseAnswered(j, i)' = CaseAnswered(j, i)
             /\ \A i : TrueAnswer(j, i) => TrueAnswer(j, i)'
  BY <1>1, <1>2 DEF CasesAnswered, Answered, CaseAnswered, TrueAnswer
<1>3. /\ \A i \in CasesAnswered(k)' : TrueAnswer(k, i)'
      /\ \A i, j \in CasesAnswered(k)' :
             CaseAnswered(k, i)' = CaseAnswered(k, j)' => i = j
  <2>1. CASE answers'[k] = answers[k]
    BY <1>2, <2>1 DEF AnswerInv
  <2>2. CASE answers'[k] # answers[k]
    BY <1>1, <2>2, OnlyOkIsAnswered, AnsweredTruly
  <2>. QED
    BY <2>1, <2>2
<1>4. ASSUME NEW j \in Client \ {k}
      PROVE  /\ \A i \in CasesAnswered(j)' : TrueAnswer(j, i)'
             /\ \A i, l \in CasesAnswered(j)' :
                    CaseAnswered(j, i)' = CaseAnswered(j, l)' => i = l
  BY <1>2, OthersStay DEF AnswerInv
<1>5. ASSUME NEW j \in Client, Waiting(j)', outcome'[j] = Ok,
             OpensCase(CallOf(j))'
      PROVE  NewCase(j)'
  <2>1. /\ Waiting(j) /\ outcome[j] = Ok
        /\ session'[j].id = session[j].id /\ answers'[j] = answers[j]
    <3>1. CASE j # k
      BY <1>5, <3>1, OthersStay DEF Waiting
    <3>2. CASE j = k
      <4>1. ~Send(k)
        BY <1>5, <3>2 DEF Send, Ok, Pending, ClientInv, ClientTypeOK
      <4>2. Confirm(k) /\ GoTo(k, "returning") /\ UNCHANGED <<answers, outcome>>
        BY <1>5, <3>2, <4>1
           DEF ClientStep, Call, Check, CheckFails, Refuse, Confirm, TimeOut,
               GiveUp, ReadBack, ReadBackFails, Pass, Busy, Answer, Throw,
               Idle, Waiting, ClientInv, ClientTypeOK
      <4>. QED
        BY <1>5, <3>2, <4>2 DEF Confirm, GoTo, Busy, InPhase, Waiting,
                                ClientInv, ClientTypeOK
    <3>. QED
      BY <3>1, <3>2
  <2>2. NewCase(j)
    BY <1>5, <2>1 DEF AnswerInv, CallOf
  <2>. QED
    BY <1>1, <1>2, <2>1, <2>2 DEF NewCase, OwnCase, CaseNow, CallOf
<1>. QED
  BY <1>3, <1>4, <1>5 DEF AnswerInv

\* The message of a client's call is the instruction of that call.
LEMMA AwaitedCall ==
  ASSUME ClientInv, MessageInv, TurnInv, tx # NoTx,
         running.turn = doubts[running.by]
  PROVE  LET k == running.by
         IN  /\ k \in Client /\ InPhase(k, "confirming") /\ outcome[k] = Pending
             /\ SentFor(k, CallOf(k), session[k].id, tx.instructions[1])
             /\ tx.instructions[1] = PlanNow(k).built.ix
<1>. DEFINE k == running.by
<1>1. k \in Client /\ running # NoMessage /\ tx = running.tx
  BY RunningCall DEF MessageInv, OneStep
<1>2. Awaited(running)
  BY <1>1 DEF TurnInv, Timely, ClientInv, ClientTypeOK
<1>3. tx = Sent(k, PlanOf(k, CallOf(k), session[k].id).built)
  BY <1>1, <1>2 DEF Awaited, MessageOf, PlanNow
<1>4. session[k] # Idle
  BY <1>2 DEF Awaited, InPhase, Idle
<1>5. /\ Len(answers[k]) + 1 \in 1 .. Len(Script[k])
      /\ CallOf(k) = Script[k][Len(answers[k]) + 1]
  BY <1>1, <1>4, CurrentCall DEF ClientInv
<1>6. LET built == PlanOf(k, CallOf(k), session[k].id).built
      IN  /\ tx.instructions = <<built.ix>>
          /\ SentFor(k, CallOf(k), session[k].id, built.ix)
  <2>1. PICK i \in 1 .. Len(Script[k]) : CallOf(k) = Script[k][i]
    BY <1>5
  <2>2. LET built == PlanOf(k, Script[k][i], session[k].id).built
        IN  /\ Sent(k, built).instructions = <<built.ix>>
            /\ SentFor(k, Script[k][i], session[k].id, built.ix)
    BY <1>1, SentInstruction
  <2>. QED
    BY <1>3, <2>1, <2>2
<1>. QED
  BY <1>1, <1>2, <1>6 DEF Awaited, PlanNow

\* A client whose transaction has just ended with Ok has got its case.
LEMMA OkOpensCase ==
  ASSUME ClientInv, MessageInv, TurnInv, AnswerInv, Settle, verdict = Ok,
         NEW k, k = running.by, running.turn = doubts[k], OpensCase(CallOf(k))
  PROVE  NewCase(k)'
<1>. DEFINE ix == tx.instructions[1]
            c == CallOf(k)
<1>1. Commit /\ tx # NoTx /\ UNCHANGED <<session, answers>>
  BY DEF Settle, Commit, Abort
<1>2. k \in Client /\ SentFor(k, c, session[k].id, ix)
  BY <1>1, AwaitedCall
<1>3. /\ ix.op = "CreateCase"
      /\ ix.accounts[4] = CaseNow(k)
      /\ ix.accounts[1] = k /\ ix.name = c.name
  BY <1>2 DEF SentFor, WellAddressed, CaseNow
<1>4. /\ CaseNow(k) \notin DOMAIN accounts
      /\ OwnCase(work, CaseNow(k), k, c.name)
  BY <1>1, <1>3, CommitExecutes DEF Executed, OwnCase, Holds
<1>5. accounts' = work /\ CaseNow(k)' = CaseNow(k) /\ CallOf(k)' = c
  BY <1>1 DEF Commit, CaseNow, CallOf
<1>6. ASSUME NEW i \in CasesAnswered(k)'
      PROVE  CaseAnswered(k, i)' # CaseNow(k)
  <2>1. i \in CasesAnswered(k) /\ CaseAnswered(k, i)' = CaseAnswered(k, i)
    BY <1>1, <1>6 DEF CasesAnswered, Answered, CaseAnswered
  <2>2. CaseAnswered(k, i) \in DOMAIN accounts
    BY <1>2, <2>1 DEF AnswerInv, TrueAnswer
  <2>. QED
    BY <1>4, <2>1, <2>2
<1>. QED
  BY <1>1, <1>4, <1>5, <1>6 DEF NewCase, OwnCase, Settle

LEMMA ChainStepKeepsAnswers ==
  ASSUME ClientInv, MessageInv, TurnInv, AnswerInv, ChainStep
  PROVE  AnswerInv'
<1>1. Later(accounts, accounts') /\ LedgerOK(accounts)
  BY ChainStepInv, NextIsLater DEF ClientInv, Inv, MessageInv
<1>2. UNCHANGED <<session, answers>>
  BY DEF ChainStep, Land, Expire, Run, Settle, Finalize, clientVars
<1>3. \A k : /\ CasesAnswered(k)' = CasesAnswered(k)
             /\ \A i : CaseAnswered(k, i)' = CaseAnswered(k, i)
             /\ CaseNow(k)' = CaseNow(k) /\ CallOf(k)' = CallOf(k)
  BY <1>2 DEF CasesAnswered, Answered, CaseAnswered, CaseNow, CallOf
<1>4. ASSUME NEW k, NEW i, TrueAnswer(k, i)
      PROVE  TrueAnswer(k, i)'
  <2>. DEFINE name == Script[k][i].name
              a == CaseAnswered(k, i)
  <2>1. OwnCase(accounts, a, k, name)
    BY <1>4, TrueAnswerIs
  <2>2. OwnCase(accounts', a, k, name)
    BY <1>1, <2>1, OwnCaseStays DEF CaseAnswered
  <2>. QED
    BY <1>2, <1>3, <1>4, <2>2 DEF TrueAnswer, OwnCase
<1>5. ASSUME NEW k, NewCase(k)
      PROVE  NewCase(k)'
  <2>1. OwnCase(accounts', CaseNow(k), k, CallOf(k).name)
    BY <1>1, <1>5, OwnCaseStays DEF NewCase, CaseNow
  <2>. QED
    BY <1>3, <1>5, <2>1 DEF NewCase, OwnCase
<1>6. ASSUME NEW k \in Client, Waiting(k)', outcome'[k] = Ok,
             OpensCase(CallOf(k))'
      PROVE  NewCase(k)'
  <2>1. Waiting(k) /\ OpensCase(CallOf(k))
    BY <1>2, <1>3, <1>6 DEF Waiting
  <2>2. CASE outcome[k] = Ok
    BY <1>5, <2>1, <2>2 DEF AnswerInv
  <2>3. CASE outcome[k] # Ok
    <3>1. /\ Settle /\ k = running.by /\ running.turn = doubts[running.by]
          /\ verdict = Ok
      BY <1>6, <2>3
         DEF ChainStep, Land, Expire, Run, Settle, Finalize, clientVars,
             ClientInv, ClientTypeOK
    <3>. QED
      BY <2>1, <3>1, OkOpensCase
  <2>. QED
    BY <2>2, <2>3
<1>. QED
  BY <1>3, <1>4, <1>6 DEF AnswerInv

LEMMA AnswersNextInv ==
  ASSUME ClientInv, MessageInv, TurnInv, AnswerInv, [ClientsNext]_allVars
  PROVE  AnswerInv'
<1>1. CASE UNCHANGED allVars
  <2>1. UNCHANGED <<accounts, session, answers, outcome>>
    BY <1>1 DEF allVars, vars, clientVars
  <2>2. \A k, i : /\ CasesAnswered(k)' = CasesAnswered(k)
                  /\ CaseAnswered(k, i)' = CaseAnswered(k, i)
                  /\ TrueAnswer(k, i)' = TrueAnswer(k, i)
    BY <2>1 DEF CasesAnswered, Answered, CaseAnswered, TrueAnswer
  <2>3. \A k : /\ Waiting(k)' = Waiting(k)
               /\ CallOf(k)' = CallOf(k)
               /\ NewCase(k) => NewCase(k)'
    BY <2>1, <2>2 DEF Waiting, CallOf, NewCase, OwnCase, CaseNow
  <2>. QED
    BY <2>1, <2>2, <2>3 DEF AnswerInv
<1>. QED
  BY <1>1, ClientStepKeepsAnswers, ChainStepKeepsAnswers DEF ClientsNext

LEMMA AnswerInvariance ==
  ClientsSpec => [](ClientInv /\ MessageInv /\ TurnInv /\ AnswerInv)
<1>1. ClientInit => AnswerInv
  BY AnswerInit
<1>2. ClientInv /\ MessageInv /\ TurnInv /\ AnswerInv
          /\ [ClientsNext]_allVars => AnswerInv'
  BY AnswersNextInv
<1>. QED
  BY <1>1, <1>2, TurnInvariance, PTL DEF ClientsSpec

\* Whoever is told that a case was opened has opened it, under the number and
\* the name it was told, whatever races, time-outs and repetitions there were;
\* and no case is told of twice (reporter-client.ts:105-127,
\* cmd_create_case.rs:27-58).
THEOREM TrueAnswers == ClientsSpec => []AnswersAreTrue
<1>1. AnswerInv => AnswersAreTrue
  BY AnswersTrue
<1>. QED
  BY <1>1, AnswerInvariance, PTL
===============================================================================
