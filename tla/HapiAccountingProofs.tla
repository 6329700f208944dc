------------------------- MODULE HapiAccountingProofs -------------------------
(***************************************************************************)
(* The clients' books, for any scripts, either commitment and any number   *)
(* of failures.  Every case of a client has been answered, or comes from a *)
(* call that ended in doubt or is being waited for; and every doubt of a   *)
(* client that reads what it waits for has cost a failure of its own.      *)
(***************************************************************************)
EXTENDS HapiAnswerProofs, FiniteSetTheorems

-----------------------------------------------------------------------------
(***************************************************************************)
(* The balance of a client: the cases it has, and the messages on their    *)
(* way that can give it another one, against the answers it got, the calls *)
(* that ended in doubt and the call it waits for.                          *)
(***************************************************************************)
Attempt(k) == IF /\ Waiting(k)
                 /\ OpensCase(CallOf(k))
                 /\ outcome[k] \in {Pending, Ok}
              THEN 1 ELSE 0

Spent(k) == Cardinality(CasesOf(k)) + Cardinality(Openings(k))
Owed(k) == Cardinality(CasesAnswered(k)) + doubts[k] + Attempt(k)

CountInv == /\ IsFiniteSet(DOMAIN accounts)
            /\ IsFiniteSet(flying)
            /\ \A k \in Client : Spent(k) <= Owed(k)

LEMMA Sizes ==
  ASSUME ClientTypeOK, IsFiniteSet(DOMAIN accounts), IsFiniteSet(flying),
         NEW k \in Client
  PROVE  /\ IsFiniteSet(CasesOf(k)) /\ Cardinality(CasesOf(k)) \in Nat
         /\ IsFiniteSet(Openings(k)) /\ Cardinality(Openings(k)) \in Nat
         /\ IsFiniteSet(CasesAnswered(k))
         /\ Cardinality(CasesAnswered(k)) \in Nat
         /\ doubts[k] \in Nat
         /\ Attempt(k) \in {0, 1}
<1>1. IsFiniteSet(CasesOf(k))
  BY FS_Subset DEF CasesOf
<1>2. IsFiniteSet(Openings(k))
  <2>1. IsFiniteSet(flying \cup {running})
    BY FS_AddElement
  <2>2. Openings(k) \subseteq flying \cup {running}
    BY DEF Openings, OnTheWay
  <2>. QED
    BY <2>1, <2>2, FS_Subset
<1>3. IsFiniteSet(CasesAnswered(k))
  <2>1. Len(answers[k]) \in Nat
    BY DEF ClientTypeOK
  <2>2. IsFiniteSet(1 .. Len(answers[k]))
    BY <2>1, FS_Interval
  <2>. QED
    BY <2>2, FS_Subset DEF CasesAnswered, Answered
<1>. QED
  BY <1>1, <1>2, <1>3, FS_CardinalityType DEF Attempt, ClientTypeOK

LEMMA CountInit ==
  ASSUME ClientInit
  PROVE  CountInv
<1>1. DOMAIN accounts = {} /\ flying = {} /\ running = NoMessage
  BY DEF ClientInit, Init
<1>2. ASSUME NEW k \in Client
      PROVE  Spent(k) = 0 /\ Owed(k) = 0
  <2>1. CasesOf(k) = {} /\ Openings(k) = {} /\ CasesAnswered(k) = {}
    BY <1>1 DEF CasesOf, Openings, OnTheWay, CasesAnswered, Answered, ClientInit
  <2>2. doubts[k] = 0 /\ Attempt(k) = 0
    BY DEF ClientInit, Attempt, Waiting, Idle
  <2>. QED
    BY <2>1, <2>2, FS_EmptySet DEF Spent, Owed
<1>. QED
  BY <1>1, <1>2, FS_EmptySet DEF CountInv

LEMMA AnswerDiffers ==
  ASSUME ClientTypeOK, NEW k \in Client, NEW data, Answer(k, data)
  PROVE  answers'[k] # answers[k]
<1>. DEFINE new == [id |-> session[k].id, data |-> data]
<1>1. answers'[k] = Append(answers[k], new)
  BY DEF Answer, ClientTypeOK
<1>2. answers[k] \in Seq(AnswerType)
  BY DEF ClientTypeOK
<1>3. Len(Append(answers[k], new)) = Len(answers[k]) + 1
  BY <1>2
<1>. QED
  BY <1>1, <1>2, <1>3

\* An answer to a call that opens a case counts for one.
LEMMA AnswerCounts ==
  ASSUME ClientTypeOK, NEW k \in Client, session[k] # Idle,
         NEW data \in AccountData \cup {NoData}, Answer(k, data)
  PROVE  Cardinality(CasesAnswered(k)') =
             Cardinality(CasesAnswered(k))
                 + (IF OpensCase(CallOf(k)) THEN 1 ELSE 0)
<1>. PICK n \in Nat : n = Len(answers[k])
  BY DEF ClientTypeOK
<1>. DEFINE new == [id |-> session[k].id, data |-> data]
<1>1. answers[k] \in Seq(AnswerType) /\ new \in AnswerType
  BY BusySessions DEF ClientTypeOK, AnswerType
<1>2. answers'[k] = Append(answers[k], new)
  BY DEF Answer, ClientTypeOK
<1>3. Len(answers'[k]) = n + 1 /\ Script[k][n + 1] = CallOf(k)
  BY <1>1, <1>2 DEF CallOf
<1>4. CasesAnswered(k)' = IF OpensCase(CallOf(k))
                          THEN CasesAnswered(k) \cup {n + 1}
                          ELSE CasesAnswered(k)
  BY <1>3 DEF CasesAnswered, Answered
<1>5. n + 1 \notin CasesAnswered(k)
  BY DEF CasesAnswered, Answered
<1>6. IsFiniteSet(CasesAnswered(k)) /\ Cardinality(CasesAnswered(k)) \in Nat
  <2>1. IsFiniteSet(1 .. n)
    BY FS_Interval
  <2>2. CasesAnswered(k) \subseteq 1 .. n
    BY DEF CasesAnswered, Answered
  <2>. QED
    BY <2>1, <2>2, FS_Subset, FS_CardinalityType
<1>7. Cardinality(CasesAnswered(k) \cup {n + 1})
          = Cardinality(CasesAnswered(k)) + 1
  BY <1>5, <1>6, FS_AddElement
<1>. QED
  BY <1>4, <1>6, <1>7

\* A client that does not send is owed no less than before.
LEMMA OwedStays ==
  ASSUME ClientInv, MessageInv, TurnInv, AnswerInv, CountInv,
         NEW k \in Client, ClientStep(k), ~Send(k)
  PROVE  Owed(k)' \in Nat /\ Owed(k)' >= Owed(k)
<1>. DEFINE answered == Cardinality(CasesAnswered(k))
<1>1. answered \in Nat /\ doubts[k] \in Nat /\ Attempt(k) \in {0, 1}
  BY Sizes DEF ClientInv, CountInv
<1>2. /\ ClientInv' /\ IsFiniteSet(DOMAIN accounts')
  BY ClientStepInv DEF CountInv, vars
<1>3. Attempt(k)' \in {0, 1}
  BY DEF Attempt
<1>4. answers'[k] = answers[k] => answered' = answered
  BY DEF CasesAnswered, Answered
<1>5. CASE answers'[k] # answers[k]
  <2>1. PICK data \in AccountData \cup {NoData} : Answer(k, data)
    BY <1>5, OnlyOkIsAnswered
  <2>2. session[k] # Idle /\ doubts'[k] = doubts[k]
    <3>1. session[k] # Idle
      BY <1>5, OnlyOkIsAnswered DEF Waiting, Idle
    <3>2. Confirm(k) \/ (ReadBack(k) /\ UNCHANGED doubts)
      BY <1>5 DEF ClientStep, Call, Check, CheckFails, Refuse, TimeOut, GiveUp,
                  ReadBack, ReadBackFails
    <3>. QED
      BY <3>1, <3>2 DEF Confirm
  <2>3. answered' = answered + (IF OpensCase(CallOf(k)) THEN 1 ELSE 0)
    BY <2>1, <2>2, AnswerCounts DEF ClientInv
  <2>4. ~OpensCase(CallOf(k)) => Attempt(k) = 0
    BY DEF Attempt
  <2>. QED
    BY <1>1, <1>3, <2>2, <2>3, <2>4 DEF Owed
<1>6. CASE answers'[k] = answers[k] /\ doubts'[k] = doubts[k] + 1
  BY <1>1, <1>3, <1>4, <1>6 DEF Owed
<1>7. CASE answers'[k] = answers[k] /\ doubts'[k] # doubts[k] + 1
  <2>1. doubts'[k] = doubts[k]
    BY <1>7, Abandons
  <2>2. Attempt(k) <= Attempt(k)'
    <3>1. CASE \/ Call(k) \/ Check(k) \/ CheckFails(k) \/ Refuse(k)
      <4>1. ~Waiting(k)
        BY <3>1 DEF Call, Check, CheckFails, Refuse, LookingUp, Checked,
                    InPhase, Waiting
      <4>. QED
        BY <1>3, <4>1 DEF Attempt
    <3>2. CASE Confirm(k)
      <4>1. outcome[k] = SeenOutcome(k) /\ SeenOutcome(k) # Pending
        BY <3>2, SeenIsOutcome DEF Confirm
      <4>2. CASE SeenOutcome(k) # Ok
        BY <1>3, <4>1, <4>2 DEF Attempt
      <4>3. CASE SeenOutcome(k) = Ok
        <5>1. GoTo(k, "returning") /\ UNCHANGED <<answers, outcome>>
          BY <1>7, <3>2, <4>3, AnswerDiffers DEF Confirm, ClientInv, final
        <5>. QED
          BY <5>1 DEF Attempt, Waiting, GoTo, Busy, CallOf, ClientInv,
                      ClientTypeOK
      <4>. QED
        BY <4>2, <4>3
    <3>3. CASE \/ TimeOut(k) \/ GiveUp(k) \/ ReadBackFails(k)
      BY <1>7, <3>3
         DEF TimeOut, GiveUp, ReadBackFails, Doubt, ClientInv, ClientTypeOK
    <3>4. CASE ReadBack(k)
      BY <1>7, <3>4, AnswerDiffers DEF ReadBack, Doubt, ClientInv, ClientTypeOK
    <3>. QED
      BY <3>1, <3>2, <3>3, <3>4 DEF ClientStep
  <2>. QED
    BY <1>1, <1>3, <1>4, <1>7, <2>1, <2>2 DEF Owed
<1>. QED
  BY <1>5, <1>6, <1>7

\* Sending costs a client no more than the attempt it is then owed.
LEMMA SendBalances ==
  ASSUME ClientInv, MessageInv, TurnInv, CountInv, NEW k \in Client, Send(k)
  PROVE  /\ Spent(k)' <= Owed(k)'
         /\ \A j \in Client \ {k} : Openings(j)' = Openings(j)
<1>. PICK m : m = MessageOf(k)
  OBVIOUS
<1>. DEFINE c == CallOf(k)
            spent == Cardinality(CasesOf(k))
            n == Cardinality(Openings(k))
            answered == Cardinality(CasesAnswered(k))
<1>1. /\ UNCHANGED <<accounts, answers, doubts, running>>
      /\ flying' = flying \cup {m}
      /\ Waiting(k)' /\ outcome'[k] = Pending
      /\ ~Waiting(k)
      /\ session[k] # Idle
  BY DEF Send, Checked, GoTo, Busy, InPhase, Waiting, Idle, vars, ClientInv,
         ClientTypeOK
<1>2. /\ spent \in Nat /\ n \in Nat /\ answered \in Nat /\ doubts[k] \in Nat
      /\ IsFiniteSet(Openings(k))
      /\ spent + n <= answered + doubts[k]
  <2>1. Attempt(k) = 0
    BY <1>1 DEF Attempt
  <2>. QED
    BY <2>1, Sizes DEF ClientInv, CountInv, Spent, Owed
<1>3. m.by = k /\ (Opens(m) <=> OpensCase(c))
  <2>1. PICK i \in 1 .. Len(Script[k]) : c = Script[k][i]
    BY <1>1, CurrentCall DEF ClientInv
  <2>2. LET built == PlanOf(k, Script[k][i], session[k].id).built
        IN  /\ Sent(k, built).instructions = <<built.ix>>
            /\ SentFor(k, Script[k][i], session[k].id, built.ix)
    BY SentInstruction
  <2>3. LET built == PlanOf(k, c, session[k].id).built
        IN  /\ m.tx.instructions = <<built.ix>>
            /\ SentFor(k, c, session[k].id, built.ix)
    BY <2>1, <2>2 DEF MessageOf, PlanNow
  <2>. QED
    BY <2>3 DEF MessageOf, Opens, SentFor
<1>4. \A j \in Client : Openings(j)' =
          IF j = k /\ OpensCase(c) THEN Openings(j) \cup {m} ELSE Openings(j)
  BY <1>1, <1>3 DEF Openings, OnTheWay
<1>5. /\ CasesOf(k)' = CasesOf(k)
      /\ CasesAnswered(k)' = CasesAnswered(k)
      /\ Attempt(k)' = IF OpensCase(c) THEN 1 ELSE 0
  BY <1>1 DEF CasesOf, CasesAnswered, Answered, Attempt, CallOf
<1>6. Cardinality(Openings(k)') <= n + (IF OpensCase(c) THEN 1 ELSE 0)
  <2>1. Cardinality(Openings(k) \cup {m})
            = IF m \in Openings(k) THEN n ELSE n + 1
    BY <1>2, FS_AddElement
  <2>. QED
    BY <1>2, <1>4, <2>1
<1>7. Cardinality(Openings(k)') \in Nat
  BY <1>2, <1>4, FS_AddElement, FS_CardinalityType
<1>8. Spent(k)' <= Owed(k)'
  BY <1>1, <1>2, <1>5, <1>6, <1>7 DEF Spent, Owed
<1>. QED
  BY <1>4, <1>8

LEMMA ClientStepKeepsCount ==
  ASSUME ClientInv, MessageInv, TurnInv, AnswerInv, CountInv,
         NEW k \in Client, ClientStep(k)
  PROVE  CountInv'
<1>1. UNCHANGED <<accounts, running>> /\ ClientInv'
  BY ClientStepInv
     DEF vars, ClientStep, Call, Check, CheckFails, Refuse, Send, Confirm,
         TimeOut, GiveUp, ReadBack, ReadBackFails
<1>2. ~Send(k) => flying' = flying
  BY DEF ClientStep, Call, Check, CheckFails, Refuse, Confirm, TimeOut, GiveUp,
         ReadBack, ReadBackFails
<1>3. IsFiniteSet(flying')
  BY <1>2, FS_AddElement DEF Send, CountInv
<1>4. \A j \in Client : /\ CasesOf(j)' = CasesOf(j)
                        /\ ~Send(k) => Openings(j)' = Openings(j)
  BY <1>1, <1>2 DEF CasesOf, Openings, OnTheWay
<1>5. ASSUME NEW j \in Client \ {k}
      PROVE  (Spent(j) <= Owed(j))'
  <2>1. Openings(j)' = Openings(j)
    BY <1>4, SendBalances
  <2>2. Owed(j)' = Owed(j)
    BY OthersStay DEF Owed, CasesAnswered, Answered, Attempt, Waiting, CallOf
  <2>. QED
    BY <1>4, <2>1, <2>2 DEF CountInv, Spent
<1>6. CASE Send(k)
  BY <1>1, <1>3, <1>5, <1>6, SendBalances DEF CountInv
<1>7. CASE ~Send(k)
  <2>1. Owed(k)' \in Nat /\ Owed(k)' >= Owed(k)
    BY <1>7, OwedStays
  <2>2. Spent(k)' = Spent(k)
    BY <1>4, <1>7 DEF Spent
  <2>3. Spent(k) \in Nat /\ Owed(k) \in Nat
    BY Sizes DEF Spent, Owed, CountInv, ClientInv
  <2>4. (Spent(k) <= Owed(k))'
    BY <2>1, <2>2, <2>3 DEF CountInv
  <2>. QED
    BY <1>1, <1>3, <1>5, <2>4 DEF CountInv
<1>. QED
  BY <1>6, <1>7

\* The end of a transaction takes its message off the way.
LEMMA SettledMessage ==
  ASSUME ClientInv, MessageInv, TurnInv, CountInv, Settle, NEW j \in Client,
         NEW opens \in {0, 1},
         opens = IF running.by = j /\ Opens(running) THEN 1 ELSE 0
  PROVE  Cardinality(Openings(j)') = Cardinality(Openings(j)) - opens
<1>. PICK r : r = running
  OBVIOUS
<1>1. /\ flying' = flying /\ running' = NoMessage /\ r \notin flying
      /\ r # NoMessage
  BY RunningCall DEF Settle, Commit, Abort, TurnInv, MessageInv, OneStep
<1>2. Openings(j)' = Openings(j) \ {r}
  BY <1>1, Messages DEF Openings, OnTheWay
<1>3. r \in Openings(j) <=> r.by = j /\ Opens(r)
  BY <1>1 DEF Openings, OnTheWay
<1>4. IsFiniteSet(Openings(j)) /\ Cardinality(Openings(j)) \in Nat
  BY Sizes DEF ClientInv, CountInv
<1>5. Cardinality(Openings(j) \ {r}) =
          IF r \in Openings(j) THEN Cardinality(Openings(j)) - 1
                               ELSE Cardinality(Openings(j))
  BY <1>4, FS_RemoveElement
<1>. QED
  BY <1>2, <1>3, <1>4, <1>5

\* It opens a case for the sender of its message, if that is a CreateCase.
LEMMA SettledCases ==
  ASSUME ClientInv, MessageInv, TurnInv, CountInv, Settle, NEW j \in Client,
         NEW opens \in {0, 1},
         opens = IF running.by = j /\ Opens(running) THEN 1 ELSE 0
  PROVE  /\ IsFiniteSet(DOMAIN accounts')
         /\ Cardinality(CasesOf(j)') \in Nat
         /\ Cardinality(CasesOf(j)') <= Cardinality(CasesOf(j)) + opens
         /\ Abort => Cardinality(CasesOf(j)') = Cardinality(CasesOf(j))
<1>1. IsFiniteSet(DOMAIN accounts) /\ IsFiniteSet(CasesOf(j))
      /\ Cardinality(CasesOf(j)) \in Nat
  BY Sizes DEF ClientInv, CountInv
<1>2. CASE Abort
  <2>1. accounts' = accounts /\ CasesOf(j)' = CasesOf(j)
    BY <1>2 DEF Abort, CasesOf
  <2>. QED
    BY <1>1, <2>1
<1>3. CASE Commit
  <2>. PICK ix : ix = tx.instructions[1]
    OBVIOUS
  <2>0. ~Abort
    BY <1>3 DEF Commit, Abort
  <2>1. accounts' = work /\ Executed(accounts, ix, work) /\ tx # NoTx
    BY <1>3, CommitExecutes DEF Commit
  <2>2. /\ \E c, id : SentFor(running.by, c, id, ix)
        /\ Opens(running) <=> ix.op = "CreateCase"
    BY <2>1, RunningCall DEF MessageInv, OneStep, Opens
  <2>3. IsFiniteSet(DOMAIN accounts')
    BY <1>1, <2>1, FS_AddElement DEF Executed
  <2>4. \A a \in CasesOf(j)' : \/ a \in CasesOf(j)
                               \/ opens = 1 /\ a = ix.accounts[4]
    BY <2>1, <2>2 DEF CasesOf, Executed, Holds, SentFor
  <2>5. CASE opens = 0
    <3>1. CasesOf(j)' \subseteq CasesOf(j)
      BY <2>4, <2>5
    <3>. QED
      BY <1>1, <2>0, <2>3, <2>5, <3>1, FS_Subset, FS_CardinalityType
  <2>6. CASE opens = 1
    <3>1. CasesOf(j)' \subseteq CasesOf(j) \cup {ix.accounts[4]}
      BY <2>4
    <3>2. /\ IsFiniteSet(CasesOf(j) \cup {ix.accounts[4]})
          /\ Cardinality(CasesOf(j) \cup {ix.accounts[4]}) =
                 IF ix.accounts[4] \in CasesOf(j)
                 THEN Cardinality(CasesOf(j)) ELSE Cardinality(CasesOf(j)) + 1
      BY <1>1, FS_AddElement
    <3>3. /\ Cardinality(CasesOf(j)') \in Nat
          /\ Cardinality(CasesOf(j)') <=
                 Cardinality(CasesOf(j) \cup {ix.accounts[4]})
      BY <3>1, <3>2, FS_Subset, FS_CardinalityType
    <3>. QED
      BY <1>1, <2>0, <2>3, <2>6, <3>2, <3>3
  <2>. QED
    BY <2>5, <2>6
<1>. QED
  BY <1>2, <1>3 DEF Settle

\* A refusal ends the attempt of its sender, if that is to open a case.
LEMMA SettledAttempt ==
  ASSUME ClientInv, MessageInv, TurnInv, Settle, NEW j \in Client,
         NEW opens \in {0, 1},
         opens = IF running.by = j /\ Opens(running) THEN 1 ELSE 0
  PROVE  /\ Attempt(j)' \in {0, 1}
         /\ Commit => Attempt(j)' = Attempt(j)
         /\ Attempt(j)' >= Attempt(j) - opens
<1>0. Attempt(j)' \in {0, 1} /\ Attempt(j) \in {0, 1}
  BY DEF Attempt
<1>1. /\ Waiting(j)' = Waiting(j) /\ CallOf(j)' = CallOf(j)
      /\ tx # NoTx /\ running # NoMessage /\ tx = running.tx
  BY DEF Settle, Commit, Abort, Waiting, CallOf, MessageInv, OneStep
<1>2. CASE outcome'[j] = outcome[j]
  BY <1>0, <1>1, <1>2 DEF Attempt
<1>3. CASE outcome'[j] # outcome[j]
  <2>1. /\ running.by = j /\ running.turn = doubts[running.by]
        /\ outcome'[j] = verdict
    BY <1>3 DEF Settle, ClientInv, ClientTypeOK
  <2>2. /\ outcome[j] = Pending
        /\ SentFor(j, CallOf(j), session[j].id, tx.instructions[1])
    BY <1>1, <2>1, AwaitedCall
  <2>3. OpensCase(CallOf(j)) <=> opens = 1
    BY <1>1, <2>1, <2>2 DEF SentFor, Opens
  <2>4. Commit => outcome'[j] = Ok
    BY <2>1 DEF Commit
  <2>. QED
    BY <1>0, <1>1, <2>2, <2>3, <2>4 DEF Attempt
<1>. QED
  BY <1>2, <1>3

LEMMA SettleKeepsCount ==
  ASSUME ClientInv, MessageInv, TurnInv, CountInv, Settle
  PROVE  CountInv'
<1>1. flying' = flying /\ answers' = answers /\ doubts' = doubts
  BY DEF Settle
<1>2. IsFiniteSet(DOMAIN accounts')
  <2>1. accounts' = accounts \/ (Commit /\ accounts' = work)
    BY DEF Settle, Commit, Abort
  <2>2. ASSUME Commit
        PROVE  IsFiniteSet(DOMAIN work)
    <3>1. Executed(accounts, tx.instructions[1], work)
      BY <2>2, CommitExecutes
    <3>. QED
      BY <3>1, FS_AddElement DEF Executed, CountInv
  <2>. QED
    BY <2>1, <2>2 DEF CountInv
<1>3. ASSUME NEW j \in Client
      PROVE  (Spent(j) <= Owed(j))'
  <2>1. PICK opens \in {0, 1} :
            opens = IF running.by = j /\ Opens(running) THEN 1 ELSE 0
    OBVIOUS
  <2>2. /\ Cardinality(CasesOf(j)) \in Nat
        /\ Cardinality(Openings(j)) \in Nat
        /\ Cardinality(CasesAnswered(j)) \in Nat
        /\ doubts[j] \in Nat
        /\ Attempt(j) \in {0, 1}
    BY Sizes DEF ClientInv, CountInv
  <2>3. Cardinality(Openings(j)') = Cardinality(Openings(j)) - opens
    BY <2>1, SettledMessage
  <2>4. /\ Cardinality(CasesOf(j)') \in Nat
        /\ Cardinality(CasesOf(j)') <= Cardinality(CasesOf(j)) + opens
        /\ Abort => Cardinality(CasesOf(j)') = Cardinality(CasesOf(j))
    BY <2>1, SettledCases
  <2>5. /\ Attempt(j)' \in {0, 1}
        /\ Commit => Attempt(j)' = Attempt(j)
        /\ Attempt(j)' >= Attempt(j) - opens
    BY <2>1, SettledAttempt
  <2>6. Cardinality(CasesAnswered(j)') = Cardinality(CasesAnswered(j))
    BY <1>1 DEF CasesAnswered, Answered
  <2>7. Spent(j) <= Owed(j)
    BY DEF CountInv
  <2>8. Commit \/ Abort
    BY DEF Settle
  <2>. QED
    BY <1>1, <2>2, <2>3, <2>4, <2>5, <2>6, <2>7, <2>8 DEF Spent, Owed
<1>. QED
  BY <1>1, <1>2, <1>3 DEF CountInv

\* The other steps of the chain move messages on, or lose one.
LEMMA OtherStepsKeepCount ==
  ASSUME ClientInv, MessageInv, TurnInv, CountInv,
         \/ \E m \in flying : Land(m) \/ Expire(m)
         \/ Run
         \/ Finalize
         \/ UNCHANGED allVars
  PROVE  CountInv'
<1>1. UNCHANGED <<accounts, session, answers, doubts, outcome>>
  BY DEF Land, Begin, Expire, Run, Process, Reject, CreateCommunity,
         UpdateCommunity, CreateNetwork, UpdateNetwork, CreateReporter,
         UpdateReporter, CreateCase, UpdateCase, CreateAddress, UpdateAddress,
         Execute, Succeed, Fail, Finalize, allVars, vars, clientVars
<1>2. flying' \subseteq flying /\ OnTheWay' \subseteq OnTheWay
  <2>1. CASE \E m \in flying : Land(m)
    <3>1. PICK m \in flying : Land(m)
      BY <2>1
    <3>2. flying' = flying \ {m} /\ running' = m
      BY <3>1 DEF Land
    <3>. QED
      BY <3>2 DEF OnTheWay
  <2>2. CASE \/ \E m \in flying : Expire(m)
             \/ Run \/ Finalize \/ UNCHANGED allVars
    BY <2>2 DEF Expire, Run, Finalize, allVars, clientVars, OnTheWay
  <2>. QED
    BY <2>1, <2>2
<1>3. IsFiniteSet(flying')
  BY <1>2, FS_Subset DEF CountInv
<1>4. ASSUME NEW k \in Client
      PROVE  (Spent(k) <= Owed(k))'
  <2>1. /\ IsFiniteSet(Openings(k)) /\ Cardinality(Openings(k)) \in Nat
        /\ Cardinality(CasesOf(k)) \in Nat
        /\ Cardinality(CasesAnswered(k)) \in Nat
        /\ doubts[k] \in Nat
        /\ Attempt(k) \in {0, 1}
    BY Sizes DEF ClientInv, CountInv
  <2>2. Openings(k)' \subseteq Openings(k)
    BY <1>2 DEF Openings
  <2>3. /\ Cardinality(Openings(k)') \in Nat
        /\ Cardinality(Openings(k)') <= Cardinality(Openings(k))
    BY <2>1, <2>2, FS_Subset, FS_CardinalityType
  <2>4. /\ CasesOf(k)' = CasesOf(k)
        /\ CasesAnswered(k)' = CasesAnswered(k)
        /\ Attempt(k)' = Attempt(k)
    BY <1>1 DEF CasesOf, CasesAnswered, Answered, Attempt, Waiting, CallOf
  <2>5. Spent(k) <= Owed(k)
    BY DEF CountInv
  <2>. QED
    BY <1>1, <2>1, <2>3, <2>4, <2>5 DEF Spent, Owed
<1>. QED
  BY <1>1, <1>3, <1>4 DEF CountInv

LEMMA CountInvariance ==
  ClientsSpec => [](ClientInv /\ MessageInv /\ TurnInv /\ AnswerInv /\ CountInv)
<1>1. ClientInit => CountInv
  BY CountInit
<1>2. /\ ClientInv /\ MessageInv /\ TurnInv /\ AnswerInv /\ CountInv
      /\ [ClientsNext]_allVars
      => CountInv'
  BY ClientStepKeepsCount, SettleKeepsCount, OtherStepsKeepCount
     DEF ClientsNext, ChainStep
<1>. QED
  BY <1>1, <1>2, AnswerInvariance, PTL DEF ClientsSpec

\* A client has no case it does not know of, but for the calls that ended in
\* doubt and the one it is waiting for: whatever the program refused was not
\* opened, and a repeated call opens a second case only after a time-out or a
\* failed read-back (reporter-client.ts:114-125).
THEOREM CasesAccounted == ClientsSpec => []CasesAccountedFor
<1>1. ASSUME ClientInv, CountInv
      PROVE  CasesAccountedFor
  <2>1. ASSUME NEW k \in Client
        PROVE  Cardinality(CasesOf(k)) <=
                   Cardinality(CasesAnswered(k)) + doubts[k]
                       + (IF Waiting(k) THEN 1 ELSE 0)
    <3>1. /\ Cardinality(CasesOf(k)) \in Nat
          /\ Cardinality(Openings(k)) \in Nat
          /\ Cardinality(CasesAnswered(k)) \in Nat
          /\ doubts[k] \in Nat
      BY <1>1, Sizes DEF ClientInv, CountInv
    <3>2. Attempt(k) <= IF Waiting(k) THEN 1 ELSE 0
      BY DEF Attempt
    <3>3. Attempt(k) \in {0, 1}
      BY DEF Attempt
    <3>. QED
      BY <1>1, <3>1, <3>2, <3>3 DEF CountInv, Spent, Owed
  <2>. QED
    BY <2>1 DEF CasesAccountedFor
<1>. QED
  BY <1>1, CountInvariance, PTL

-----------------------------------------------------------------------------
(* What a client waits for is there when it looks for it.                  *)

\* The account a method of ReporterClient returns exists by the time its
\* transaction has ended with Ok, in the state the outcome was read from.
FoundInv ==
    \A k \in Client : Waiting(k) /\ CallOf(k).method \in ReporterMethods =>
        /\ outcome[k] = Ok => PlanNow(k).account \in DOMAIN accounts
        /\ finalOutcome[k] = Ok => PlanNow(k).account \in DOMAIN finalAccounts

LEMMA ReturnedAccount ==
  ASSUME NEW k, NEW c, NEW id, c.method \in ReporterMethods,
         NEW ix, ix = PlanOf(k, c, id).built.ix, SentFor(k, c, id, ix),
         NEW s, NEW u, Executed(s, ix, u)
  PROVE  PlanOf(k, c, id).account \in DOMAIN u
<1>. USE DEF Plan, Built
<1>1. CASE c.method = "createCase"
  <2>1. PlanOf(k, c, id) = createCase(k, c, id)
    BY <1>1 DEF PlanOf
  <2>2. ix.op = "CreateCase" /\ ix.accounts[4] = createCase(k, c, id).account
    BY <1>1 DEF SentFor, WellAddressed, OpensCase, createCase
  <2>. QED
    BY <2>1, <2>2 DEF Executed, Holds
<1>2. CASE c.method = "updateCase"
  <2>1. PlanOf(k, c, id) = updateCase(k, c)
    BY <1>2 DEF PlanOf
  <2>2. ix.op = "UpdateCase"
    BY <2>1 DEF updateCase, updateCaseInstruction
  <2>3. ix.accounts[4] = updateCase(k, c).account
    BY <2>2 DEF SentFor, updateCase
  <2>. QED
    BY <2>1, <2>2, <2>3 DEF Executed
<1>3. CASE c.method = "createAddress"
  <2>1. PlanOf(k, c, id) = createAddress(k, c)
    BY <1>3 DEF PlanOf
  <2>2. ix.op = "CreateAddress"
        /\ ix.accounts[6] = createAddress(k, c).account
    BY <1>3 DEF SentFor, WellAddressed, AddsAddress, createAddress
  <2>. QED
    BY <2>1, <2>2 DEF Executed
<1>4. CASE c.method = "updateAddress"
  <2>1. PlanOf(k, c, id) = updateAddress(k, c)
    BY <1>4 DEF PlanOf
  <2>2. ix.op = "UpdateAddress"
    BY <2>1 DEF updateAddress, updateAddressInstruction
  <2>. QED
    BY <2>2 DEF Executed
<1>. QED
  BY <1>1, <1>2, <1>3, <1>4 DEF ReporterMethods

LEMMA ClientStepKeepsFound ==
  ASSUME ClientInv, TurnInv, FoundInv, NEW k \in Client, ClientStep(k)
  PROVE  FoundInv'
<1>1. UNCHANGED <<accounts, finalAccounts>>
  BY ClientStepInv
     DEF vars, ClientStep, Call, Check, CheckFails, Refuse, Send, Confirm,
         TimeOut, GiveUp, ReadBack, ReadBackFails, final
<1>2. ASSUME NEW j \in Client, Waiting(j)',
             outcome'[j] = Ok \/ finalOutcome'[j] = Ok
      PROVE  /\ Waiting(j)
             /\ session'[j].id = session[j].id /\ answers'[j] = answers[j]
             /\ outcome'[j] = outcome[j] /\ finalOutcome'[j] = finalOutcome[j]
  <2>1. CASE j # k
    BY <1>2, <2>1, OthersStay DEF Waiting
  <2>2. CASE j = k
    <3>1. ~Send(k)
      BY <1>2, <2>2 DEF Send, Ok, Pending, ClientInv, ClientTypeOK
    <3>2. Confirm(k) /\ GoTo(k, "returning") /\ UNCHANGED answers
      BY <1>2, <2>2, <3>1
         DEF ClientStep, Call, Check, CheckFails, Refuse, Confirm, TimeOut,
             GiveUp, ReadBack, ReadBackFails, Pass, Busy, Answer, Throw,
             Idle, Waiting, ClientInv, ClientTypeOK
    <3>. QED
      BY <1>2, <2>2, <3>2 DEF Confirm, GoTo, Busy, InPhase, Waiting, final,
                              ClientInv, ClientTypeOK
  <2>. QED
    BY <2>1, <2>2
<1>3. ASSUME NEW j \in Client, Waiting(j)',
             outcome'[j] = Ok \/ finalOutcome'[j] = Ok
      PROVE  PlanNow(j)' = PlanNow(j) /\ CallOf(j)' = CallOf(j)
  BY <1>2, <1>3 DEF PlanNow, CallOf
<1>. QED
  BY <1>1, <1>2, <1>3 DEF FoundInv

LEMMA ChainStepKeepsFound ==
  ASSUME ClientInv, MessageInv, TurnInv, FoundInv,
         ChainStep \/ UNCHANGED allVars
  PROVE  FoundInv'
<1>1. UNCHANGED <<session, answers>>
  BY DEF ChainStep, Land, Expire, Run, Settle, Finalize, clientVars, allVars
<1>2. \A k : /\ Waiting(k)' = Waiting(k) /\ CallOf(k)' = CallOf(k)
             /\ PlanNow(k)' = PlanNow(k)
  BY <1>1 DEF Waiting, CallOf, PlanNow
<1>3. CASE Settle
  <2>1. accounts' = accounts \/ (Commit /\ accounts' = work)
    BY <1>3 DEF Settle, Commit, Abort
  <2>2. DOMAIN accounts \subseteq DOMAIN accounts'
    BY <2>1 DEF MessageInv, Later, Kept
  <2>3. UNCHANGED <<finalAccounts, finalOutcome>>
    BY <1>3 DEF Settle, final
  <2>4. ASSUME NEW k \in Client, Waiting(k),
               CallOf(k).method \in ReporterMethods,
               outcome'[k] = Ok, outcome[k] # Ok
        PROVE  PlanNow(k).account \in DOMAIN accounts'
    <3>1. k = running.by /\ running.turn = doubts[k] /\ verdict = Ok
      BY <1>3, <2>4 DEF Settle, ClientInv, ClientTypeOK
    <3>2. Commit /\ tx # NoTx /\ accounts' = work
      BY <1>3, <3>1 DEF Settle, Commit, Abort
    <3>3. PICK ix : ix = tx.instructions[1]
      OBVIOUS
    <3>4. SentFor(k, CallOf(k), session[k].id, ix) /\ ix = PlanNow(k).built.ix
      BY <3>1, <3>2, <3>3, AwaitedCall
    <3>5. Executed(accounts, ix, work)
      BY <3>2, <3>3, CommitExecutes
    <3>. QED
      BY <2>4, <3>2, <3>4, <3>5, ReturnedAccount DEF PlanNow
  <2>. QED
    BY <1>2, <2>2, <2>3, <2>4 DEF FoundInv
<1>4. CASE Finalize
  BY <1>2, <1>4 DEF Finalize, vars, FoundInv
<1>5. CASE ~Settle /\ ~Finalize
  <2>1. UNCHANGED <<accounts, outcome, finalAccounts, finalOutcome>>
    BY <1>5
       DEF ChainStep, Land, Begin, Expire, Run, Process, Reject,
           CreateCommunity, UpdateCommunity, CreateNetwork, UpdateNetwork,
           CreateReporter, UpdateReporter, CreateCase, UpdateCase,
           CreateAddress, UpdateAddress, Execute, Succeed, Fail, allVars,
           vars, clientVars, final
  <2>. QED
    BY <1>2, <2>1 DEF FoundInv
<1>. QED
  BY <1>3, <1>4, <1>5

\* A client of ReporterClient never misses what it fetches; a command fetches
\* nothing.
LEMMA ReadsBack ==
  ASSUME ClientInv, TurnInv, FoundInv, NEW k \in Consistent,
         InPhase(k, "returning")
  PROVE  PlanNow(k).account \in DOMAIN Seen(k)
<1>1. k \in Client /\ session[k] # Idle
  BY DEF Consistent, InPhase, Idle
<1>2. CallOf(k).method \in ReporterMethods
  <2>1. PICK i \in 1 .. Len(Script[k]) : CallOf(k) = Script[k][i]
    BY <1>1, CurrentCall DEF ClientInv
  <2>2. CallOf(k).method \in ReporterMethods \cup CommandMethods
    BY <1>1, <2>1, MethodsAssumption DEF Consistent
  <2>. QED
    BY <1>1, <2>2 DEF TurnInv, IsCommand
<1>3. SeenOutcome(k) = Ok /\ outcome[k] = Ok /\ ~IsCommand(CallOf(k))
  BY <1>1, SeenIsOutcome DEF TurnInv, Ok, Pending
<1>4. /\ outcome[k] = Ok => PlanNow(k).account \in DOMAIN accounts
      /\ finalOutcome[k] = Ok => PlanNow(k).account \in DOMAIN finalAccounts
  BY <1>1, <1>2 DEF FoundInv, Waiting, InPhase
<1>. QED
  BY <1>2, <1>3, <1>4 DEF SeenOutcome, Seen

-----------------------------------------------------------------------------
(***************************************************************************)
(* The failures behind the doubts.  A failure is charged for a call that   *)
(* ended in doubt, or for one that will: its message is lost, and the      *)
(* client has yet to give it up.                                           *)
(***************************************************************************)
Stranded(k) == InPhase(k, "confirming") /\ ~Underway(k)

Charged == DoubtsOf(Consistent) \cup {k \in Consistent : Stranded(k)} \X {0}

DoubtInv == IsFiniteSet(Charged) /\ Cardinality(Charged) <= faults

LEMMA ChargedIs ==
  /\ \A x : x \in Charged <=>
         \/ \E k \in Consistent : \E i \in 1 .. doubts[k] : x = <<k, i>>
         \/ \E k \in Consistent : Stranded(k) /\ x = <<k, 0>>
  /\ \A x : x \in Charged' <=>
         \/ \E k \in Consistent : \E i \in 1 .. doubts'[k] : x = <<k, i>>
         \/ \E k \in Consistent : Stranded(k)' /\ x = <<k, 0>>
<1>1. Consistent' = Consistent
  BY DEF Consistent
<1>. QED
  BY <1>1 DEF Charged, DoubtsOf

\* A step charges for at most one more call, and that is a failure of its own.
LEMMA ChargesAFailure ==
  ASSUME DoubtInv, ClientTypeOK, ClientTypeOK',
         \/ Charged' \subseteq Charged /\ faults' \in {faults, faults + 1}
         \/ /\ \E x : Charged' \subseteq Charged \cup {x}
            /\ faults' = faults + 1
         \/ /\ \E x \in Charged : \E y :
                    Charged' \subseteq (Charged \ {x}) \cup {y}
            /\ faults' = faults
  PROVE  DoubtInv'
<1>1. /\ faults \in Nat /\ faults' \in Nat
      /\ IsFiniteSet(Charged) /\ Cardinality(Charged) \in Nat
      /\ Cardinality(Charged) <= faults
  BY FS_CardinalityType, ClientsAssumption DEF DoubtInv, ClientTypeOK
<1>2. CASE Charged' \subseteq Charged /\ faults' \in {faults, faults + 1}
  <2>1. /\ IsFiniteSet(Charged')
        /\ Cardinality(Charged') \in Nat
        /\ Cardinality(Charged') <= Cardinality(Charged)
    BY <1>1, <1>2, FS_Subset, FS_CardinalityType
  <2>. QED
    BY <1>1, <1>2, <2>1 DEF DoubtInv
<1>3. CASE /\ \E x : Charged' \subseteq Charged \cup {x}
           /\ faults' = faults + 1
  <2>1. PICK x : Charged' \subseteq Charged \cup {x}
    BY <1>3
  <2>2. /\ IsFiniteSet(Charged \cup {x})
        /\ Cardinality(Charged \cup {x}) <= Cardinality(Charged) + 1
        /\ Cardinality(Charged \cup {x}) \in Nat
    <3>1. /\ IsFiniteSet(Charged \cup {x})
          /\ Cardinality(Charged \cup {x}) \in
                 {Cardinality(Charged), Cardinality(Charged) + 1}
      BY <1>1, FS_AddElement
    <3>. QED
      BY <1>1, <3>1
  <2>3. /\ IsFiniteSet(Charged')
        /\ Cardinality(Charged') \in Nat
        /\ Cardinality(Charged') <= Cardinality(Charged \cup {x})
    BY <2>1, <2>2, FS_Subset, FS_CardinalityType
  <2>. QED
    BY <1>1, <1>3, <2>2, <2>3 DEF DoubtInv
<1>4. CASE /\ \E x \in Charged : \E y :
                    Charged' \subseteq (Charged \ {x}) \cup {y}
           /\ faults' = faults
  <2>. PICK x \in Charged :
                \E y : Charged' \subseteq (Charged \ {x}) \cup {y}
    BY <1>4
  <2>1. PICK y : Charged' \subseteq (Charged \ {x}) \cup {y}
    OBVIOUS
  <2>2. /\ IsFiniteSet(Charged \ {x})
        /\ Cardinality(Charged \ {x}) = Cardinality(Charged) - 1
        /\ Cardinality(Charged \ {x}) \in Nat
    BY <1>1, FS_RemoveElement, FS_CardinalityType
  <2>3. /\ IsFiniteSet((Charged \ {x}) \cup {y})
        /\ Cardinality((Charged \ {x}) \cup {y}) <= Cardinality(Charged)
        /\ Cardinality((Charged \ {x}) \cup {y}) \in Nat
    <3>. PICK rest : rest = Charged \ {x}
      OBVIOUS
    <3>1. /\ IsFiniteSet(rest \cup {y})
          /\ Cardinality(rest \cup {y}) \in
                 {Cardinality(rest), Cardinality(rest) + 1}
      BY <2>2, FS_AddElement
    <3>. QED
      BY <1>1, <2>2, <3>1
  <2>4. /\ IsFiniteSet(Charged')
        /\ Cardinality(Charged') \in Nat
        /\ Cardinality(Charged') <= Cardinality((Charged \ {x}) \cup {y})
    BY <2>1, <2>3, FS_Subset, FS_CardinalityType
  <2>. QED
    BY <1>1, <1>4, <2>3, <2>4 DEF DoubtInv
<1>. QED
  BY <1>2, <1>3, <1>4


\* A client that does not give up is not stranded by its own step.
LEMMA NotStranded ==
  ASSUME ClientInv, NEW k \in Client, ClientStep(k)
  PROVE  ~Stranded(k)'
<1>1. CASE Send(k)
  <2>1. doubts'[k] = doubts[k] /\ flying' = flying \cup {MessageOf(k)}
    BY <1>1 DEF Send
  <2>2. MessageOf(k).by = k /\ MessageOf(k).turn = doubts[k]
    BY DEF MessageOf
  <2>. QED
    BY <2>1, <2>2 DEF Stranded, Underway
<1>2. CASE ~Send(k)
  <2>1. session'[k].phase # "confirming"
    BY <1>2 DEF ClientStep, Call, Check, CheckFails, Refuse, Confirm, TimeOut,
                GiveUp, ReadBack, ReadBackFails, Pass, GoTo, Busy, Answer,
                Throw, Idle, ClientInv, ClientTypeOK
  <2>. QED
    BY <2>1 DEF Stranded, InPhase
<1>. QED
  BY <1>1, <1>2

LEMMA OthersNotStranded ==
  ASSUME ClientInv, NEW k \in Client, ClientStep(k), NEW j \in Client \ {k}
  PROVE  Stranded(j)' => Stranded(j)
<1>1. flying \subseteq flying' /\ running' = running
  BY DEF ClientStep, Call, Check, CheckFails, Refuse, Send, Confirm, TimeOut,
         GiveUp, ReadBack, ReadBackFails
<1>2. /\ session'[j] = session[j] /\ doubts'[j] = doubts[j]
      /\ outcome'[j] = outcome[j]
  BY OthersStay
<1>. QED
  BY <1>1, <1>2 DEF Stranded, Underway, InPhase

\* How a client comes to end a call in doubt.
LEMMA HowItDoubts ==
  ASSUME ClientInv, TurnInv, FoundInv, NEW k \in Client, ClientStep(k)
  PROVE  \/ doubts' = doubts /\ faults' \in {faults, faults + 1}
         \/ /\ doubts' = [doubts EXCEPT ![k] = @ + 1]
            /\ \/ faults' = faults + 1
               \/ faults' = faults /\ Stranded(k)
               \/ faults' = faults /\ k \notin Consistent
<1>1. CASE GiveUp(k)
  BY <1>1 DEF GiveUp, Doubt, Stranded
<1>2. CASE ReadBack(k)
  <2>1. CASE k \in Consistent
    <3>1. PlanNow(k).account \in DOMAIN Seen(k)
      BY <1>2, <2>1, ReadsBack DEF ReadBack
    <3>. QED
      BY <1>2, <3>1 DEF ReadBack
  <2>2. CASE k \notin Consistent
    BY <1>2, <2>2 DEF ReadBack, Doubt
  <2>. QED
    BY <2>1, <2>2
<1>3. CASE TimeOut(k) \/ ReadBackFails(k)
  BY <1>3 DEF TimeOut, ReadBackFails, Fault, Doubt
<1>4. CASE \/ Call(k) \/ Check(k) \/ CheckFails(k) \/ Refuse(k) \/ Send(k)
           \/ Confirm(k)
  BY <1>4 DEF Call, Check, CheckFails, Fault, Refuse, Send, Confirm
<1>. QED
  BY <1>1, <1>2, <1>3, <1>4 DEF ClientStep

LEMMA ClientStepKeepsDoubts ==
  ASSUME ClientInv, TurnInv, FoundInv, DoubtInv, NEW k \in Client,
         ClientStep(k)
  PROVE  DoubtInv'
<1>1. ClientTypeOK /\ ClientTypeOK'
  BY ClientStepInv DEF ClientInv
<1>2. \A j \in Client : Stranded(j)' => j # k /\ Stranded(j)
  BY NotStranded, OthersNotStranded
<1>3. Consistent \subseteq Client
  BY DEF Consistent
<1>4. CASE doubts' = doubts /\ faults' \in {faults, faults + 1}
  <2>1. Charged' \subseteq Charged
    BY <1>2, <1>3, <1>4, ChargedIs
  <2>. QED
    BY <1>1, <1>4, <2>1, ChargesAFailure
<1>5. CASE doubts' = [doubts EXCEPT ![k] = @ + 1]
  <2>. PICK n \in Nat : n = doubts[k]
    BY <1>1 DEF ClientTypeOK
  <2>1. doubts'[k] = n + 1 /\ \A j \in Client \ {k} : doubts'[j] = doubts[j]
    BY <1>1, <1>5 DEF ClientTypeOK
  <2>2. ASSUME NEW x \in Charged'
        PROVE  x \in Charged \/ (k \in Consistent /\ x = <<k, n + 1>>)
    <3>1. CASE \E j \in Consistent : \E i \in 1 .. doubts'[j] : x = <<j, i>>
      <4>1. PICK j \in Consistent : \E i \in 1 .. doubts'[j] : x = <<j, i>>
        BY <3>1
      <4>. PICK i \in 1 .. doubts'[j] : x = <<j, i>>
        BY <4>1
      <4>2. i \in 1 .. doubts[j] \/ (j = k /\ i = n + 1)
        BY <1>3, <2>1
      <4>. QED
        BY <4>2, ChargedIs
    <3>2. CASE \E j \in Consistent : Stranded(j)' /\ x = <<j, 0>>
      BY <1>2, <1>3, <3>2, ChargedIs
    <3>. QED
      BY <2>2, <3>1, <3>2, ChargedIs
  <2>3. CASE faults' = faults + 1
    <3>1. Charged' \subseteq Charged \cup {<<k, n + 1>>}
      BY <2>2
    <3>. QED
      BY <1>1, <2>3, <3>1, ChargesAFailure
  <2>4. CASE faults' = faults /\ k \notin Consistent
    <3>1. Charged' \subseteq Charged
      BY <2>2, <2>4
    <3>. QED
      BY <1>1, <2>4, <3>1, ChargesAFailure
  <2>5. CASE faults' = faults /\ Stranded(k) /\ k \in Consistent
    <3>1. <<k, 0>> \in Charged
      BY <2>5, ChargedIs
    <3>2. <<k, 0>> \notin Charged'
      <4>1. \A j \in Consistent : \A i \in 1 .. doubts'[j] : <<k, 0>> # <<j, i>>
        OBVIOUS
      <4>2. \A j \in Consistent : Stranded(j)' => <<k, 0>> # <<j, 0>>
        BY <1>2, <1>3
      <4>. QED
        BY <4>1, <4>2, ChargedIs
    <3>3. Charged' \subseteq (Charged \ {<<k, 0>>}) \cup {<<k, n + 1>>}
      BY <2>2, <3>2
    <3>. QED
      BY <1>1, <2>5, <3>1, <3>3, ChargesAFailure
  <2>. QED
    BY <2>1, <2>3, <2>4, <2>5, HowItDoubts
<1>. QED
  BY <1>4, <1>5, HowItDoubts

\* On the chain a client is stranded when its message expires, and by that
\* alone.
LEMMA ExpiryStrands ==
  ASSUME ClientInv, MessageInv, ChainStep \/ UNCHANGED allVars,
         NEW k \in Client, Stranded(k)'
  PROVE  \/ Stranded(k)
         \/ \E m \in flying : Expire(m) /\ m.by = k
<1>1. UNCHANGED <<session, doubts>>
  BY DEF ChainStep, Land, Expire, Run, Settle, Finalize, clientVars, allVars
<1>2. InPhase(k, "confirming") /\ ~Underway(k)'
  BY <1>1 DEF Stranded, InPhase
<1>3. CASE \E m \in flying : Land(m)
  <2>1. PICK m \in flying : Land(m)
    BY <1>3
  <2>2. /\ flying' = flying \ {m} /\ running' = m /\ outcome' = outcome
        /\ running = NoMessage
    BY <2>1 DEF Land, Begin, ClientInv, ClientTypeOK
  <2>3. m # NoMessage
    BY Messages
  <2>4. ~Underway(k)
    BY <1>1, <1>2, <2>2, <2>3 DEF Underway
  <2>. QED
    BY <1>2, <2>4 DEF Stranded
<1>4. CASE \E m \in flying : Expire(m)
  <2>1. PICK m \in flying : Expire(m)
    BY <1>4
  <2>2. flying' = flying \ {m} /\ UNCHANGED <<running, outcome>>
    BY <2>1 DEF Expire
  <2>3. CASE m.by = k
    BY <2>1, <2>3
  <2>4. CASE m.by # k
    BY <1>1, <1>2, <2>2, <2>4 DEF Underway, Stranded
  <2>. QED
    BY <2>3, <2>4
<1>5. CASE Settle
  <2>1. verdict # Pending
    BY DEF ClientInv, Inv, TypeOK, VerdictType, Error, Ok, Pending
  <2>2. ~Underway(k)
    BY <1>1, <1>2, <1>5, <2>1
       DEF Settle, Underway, ClientInv, ClientTypeOK
  <2>. QED
    BY <1>2, <2>2 DEF Stranded
<1>6. CASE Run \/ Finalize \/ UNCHANGED allVars
  <2>1. UNCHANGED <<flying, running, outcome>>
    BY <1>6 DEF Run, Finalize, clientVars, allVars
  <2>2. ~Underway(k)
    BY <1>1, <1>2, <2>1 DEF Underway
  <2>. QED
    BY <1>2, <2>2 DEF Stranded
<1>. QED
  BY <1>3, <1>4, <1>5, <1>6 DEF ChainStep

LEMMA ChainStepKeepsDoubts ==
  ASSUME ClientInv, ClientInv', MessageInv, DoubtInv,
         ChainStep \/ UNCHANGED allVars
  PROVE  DoubtInv'
<1>1. ClientTypeOK /\ ClientTypeOK'
  BY DEF ClientInv
<1>2. doubts' = doubts
  BY DEF ChainStep, Land, Expire, Run, Settle, Finalize, clientVars, allVars
<1>3. Consistent \subseteq Client
  BY DEF Consistent
<1>4. CASE \E m \in flying : Expire(m)
  <2>1. PICK m \in flying : Expire(m)
    BY <1>4
  <2>2. faults' = faults + 1 /\ flying' = flying \ {m}
    BY <2>1 DEF Expire, Fault
  <2>3. ASSUME NEW k \in Consistent, Stranded(k)'
        PROVE  Stranded(k) \/ k = m.by
    <3>1. UNCHANGED <<session, running, outcome>>
      BY <2>1 DEF Expire
    <3>. QED
      BY <1>2, <2>2, <2>3, <3>1 DEF Stranded, Underway, InPhase
  <2>4. Charged' \subseteq Charged \cup {<<m.by, 0>>}
    BY <1>2, <2>3, ChargedIs
  <2>. QED
    BY <1>1, <2>2, <2>4, ChargesAFailure
<1>5. CASE ~\E m \in flying : Expire(m)
  <2>1. faults' = faults
    BY <1>5 DEF ChainStep, Land, Run, Settle, Finalize, clientVars, allVars
  <2>2. Charged' \subseteq Charged
    BY <1>2, <1>3, <1>5, ExpiryStrands, ChargedIs
  <2>. QED
    BY <1>1, <2>1, <2>2, ChargesAFailure
<1>. QED
  BY <1>4, <1>5

LEMMA DoubtInit ==
  ASSUME ClientInit
  PROVE  FoundInv /\ DoubtInv
<1>1. FoundInv
  BY DEF ClientInit, FoundInv, Waiting, Idle
<1>2. Consistent \subseteq Client
  BY DEF Consistent
<1>3. \A k \in Consistent : doubts[k] = 0 /\ ~Stranded(k)
  BY <1>2 DEF ClientInit, Stranded, InPhase, Idle
<1>4. Charged = {}
  BY <1>3, ChargedIs
<1>5. faults = 0
  BY DEF ClientInit
<1>. QED
  BY <1>1, <1>4, <1>5, FS_EmptySet DEF DoubtInv

LEMMA DoubtInvariance ==
  ClientsSpec => [](ClientInv /\ FoundInv /\ DoubtInv)
<1>1. ClientInit => FoundInv /\ DoubtInv
  BY DoubtInit
<1>2. ClientInv /\ MessageInv /\ TurnInv /\ FoundInv /\ DoubtInv
          /\ [ClientsNext]_allVars => FoundInv' /\ DoubtInv'
  <2>. SUFFICES ASSUME ClientInv, MessageInv, TurnInv, FoundInv, DoubtInv,
                       [ClientsNext]_allVars
                PROVE  FoundInv' /\ DoubtInv'
    OBVIOUS
  <2>1. ClientInv'
    BY ClientsNextInv
  <2>. QED
    BY <2>1, ClientStepKeepsFound, ChainStepKeepsFound, ClientStepKeepsDoubts,
       ChainStepKeepsDoubts DEF ClientsNext
<1>. QED
  BY <1>1, <1>2, TurnInvariance, PTL DEF ClientsSpec

\* Every call that ended in doubt, of a client that reads what it waits for,
\* has cost a failure of its own: its transaction timed out, was lost, or its
\* result could not be fetched.  However far the finalized state lags behind,
\* such a client finds what its transaction made (reporter-client.ts:114-127,
\* cmd_create_case.rs:56).
THEOREM DoubtsCostFailures == ClientsSpec => []DoubtsComeFromFaults
<1>1. ASSUME ClientInv, DoubtInv
      PROVE  DoubtsComeFromFaults
  <2>1. DoubtsOf(Consistent) \subseteq Charged
    BY DEF Charged
  <2>2. /\ IsFiniteSet(DoubtsOf(Consistent))
        /\ Cardinality(DoubtsOf(Consistent)) <= Cardinality(Charged)
    BY <1>1, <2>1, FS_Subset DEF DoubtInv
  <2>3. /\ Cardinality(DoubtsOf(Consistent)) \in Nat
        /\ Cardinality(Charged) \in Nat
        /\ faults \in Nat
    BY <1>1, <2>2, FS_CardinalityType, ClientsAssumption
       DEF DoubtInv, ClientInv, ClientTypeOK
  <2>4. Cardinality(Charged) <= faults
    BY <1>1 DEF DoubtInv
  <2>. QED
    BY <2>2, <2>3, <2>4 DEF DoubtsComeFromFaults
<1>. QED
  BY <1>1, DoubtInvariance, PTL
===============================================================================
