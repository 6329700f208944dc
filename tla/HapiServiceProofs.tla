-------------------------- MODULE HapiServiceProofs --------------------------
(***************************************************************************)
(* The clients and the chain implement the service of CaseService, for any *)
(* scripts, either commitment and any number of failures.  A step of a     *)
(* client or of the chain is a step of the service for one client, or none *)
(* for any.  The invariants of the earlier modules do the work: whose      *)
(* outcome a client sees (TurnInv), what an outcome of Ok has opened       *)
(* (AnswerInv), and that everything to be counted is finite (CountInv).    *)
(***************************************************************************)
EXTENDS HapiAccountingProofs

-----------------------------------------------------------------------------
ServiceInv == ClientInv /\ MessageInv /\ TurnInv /\ AnswerInv /\ CountInv

\* Nothing changes for client j.
Quiet(j) == /\ Asking(j)' <=> Asking(j)
            /\ Gained(j)' = Gained(j)
            /\ Belated(j)' = Belated(j)
            /\ CasesOf(j)' = CasesOf(j)
            /\ Told(j)' = Told(j)

OthersQuiet(k) == \A j \in Client \ {k} : Quiet(j)

\* What the service is, read off the clients and the chain.
ServiceState == <<{k \in Client : Asking(k)},
                  [k \in Client |-> Gained(k)],
                  [k \in Client |-> Cardinality(Belated(k))],
                  [k \in Client |-> CasesOf(k)],
                  [k \in Client |-> Told(k)]>>

LEMMA QuietIsStutter ==
  ASSUME \A j \in Client : Quiet(j)
  PROVE  UNCHANGED ServiceState
BY DEF Quiet, ServiceState

\* The call of a client is over, and the others go on.
LEMMA Returns ==
  ASSUME NEW k \in Client, OthersQuiet(k), Asking(k), ~Asking(k)'
  PROVE  Service!Return(k)
<1>1. Gained(k)' = {}
  BY DEF Gained
<1>2. [j \in Client |-> Gained(j)]'
          = [[j \in Client |-> Gained(j)] EXCEPT ![k] = {}]
  BY <1>1 DEF OthersQuiet, Quiet
<1>3. {j \in Client : Asking(j)}' = {j \in Client : Asking(j)} \ {k}
  BY DEF OthersQuiet, Quiet
<1>. QED
  BY <1>2, <1>3 DEF Service!Return

LEMMA BelatedCount ==
  ASSUME ServiceInv, NEW k \in Client
  PROVE  IsFiniteSet(Belated(k)) /\ Cardinality(Belated(k)) \in Nat
<1>1. IsFiniteSet(Openings(k))
  BY Sizes DEF ServiceInv, ClientInv, CountInv
<1>. QED
  BY <1>1, FS_Subset, FS_CardinalityType DEF Belated

\* One message more, or less, that may still open a case for a client.
LEMMA LateChanges ==
  ASSUME ServiceInv, NEW k \in Client, OthersQuiet(k), NEW m
  PROVE  LET late == [j \in Client |-> Cardinality(Belated(j))]
             n    == Cardinality(Belated(k))
         IN  /\ Belated(k)' = Belated(k) => UNCHANGED late
             /\ m \notin Belated(k) /\ Belated(k)' = Belated(k) \cup {m} =>
                    late' = [late EXCEPT ![k] = @ + 1]
             /\ m \in Belated(k) /\ Belated(k)' = Belated(k) \ {m} =>
                    n > 0 /\ late' = [late EXCEPT ![k] = @ - 1]
<1>. DEFINE late == [j \in Client |-> Cardinality(Belated(j))]
            n    == Cardinality(Belated(k))
<1>1. IsFiniteSet(Belated(k)) /\ n \in Nat
  BY BelatedCount
<1>2. \A j \in Client \ {k} : Cardinality(Belated(j)') = Cardinality(Belated(j))
  BY DEF OthersQuiet, Quiet
<1>3. Belated(k)' = Belated(k) => UNCHANGED late
  BY <1>2
<1>4. ASSUME m \notin Belated(k), Belated(k)' = Belated(k) \cup {m}
      PROVE  late' = [late EXCEPT ![k] = @ + 1]
  <2>1. Cardinality(Belated(k) \cup {m}) = n + 1
    BY <1>1, <1>4, FS_AddElement
  <2>2. Cardinality(Belated(k)') = n + 1
    BY <1>4, <2>1
  <2>. QED
    BY <1>2, <2>2
<1>5. ASSUME m \in Belated(k), Belated(k)' = Belated(k) \ {m}
      PROVE  n > 0 /\ late' = [late EXCEPT ![k] = @ - 1]
  <2>1. Cardinality(Belated(k) \ {m}) = n - 1
    BY <1>1, <1>5, FS_RemoveElement
  <2>2. Cardinality(Belated(k)') = n - 1
    BY <1>5, <2>1
  <2>3. Cardinality(Belated(k) \ {m}) \in Nat
    BY <1>1, FS_Subset, FS_CardinalityType
  <2>4. n > 0
    BY <1>1, <2>1, <2>3
  <2>. QED
    BY <1>2, <2>2, <2>4
<1>. QED
  BY <1>3, <1>4, <1>5

-----------------------------------------------------------------------------
(* The steps of a client.                                                  *)

LEMMA ClientLeavesOthers ==
  ASSUME ServiceInv, NEW k \in Client, ClientStep(k)
  PROVE  /\ OthersQuiet(k)
         /\ CasesOf(k)' = CasesOf(k)
         /\ ~Send(k) => OnTheWay' = OnTheWay
<1>1. accounts' = accounts /\ running' = running
  BY ClientStepInv
     DEF ServiceInv, vars, ClientStep, Call, Check, CheckFails, Refuse, Send,
         Confirm, TimeOut, GiveUp, ReadBack, ReadBackFails
<1>2. ~Send(k) => flying' = flying
  BY DEF ClientStep, Call, Check, CheckFails, Refuse, Confirm, TimeOut, GiveUp,
         ReadBack, ReadBackFails
<1>3. \A j \in Client : CasesOf(j)' = CasesOf(j)
  BY <1>1 DEF CasesOf
<1>4. ASSUME NEW j \in Client \ {k}
      PROVE  Openings(j)' = Openings(j)
  <2>1. CASE Send(k)
    BY <2>1, SendBalances DEF ServiceInv
  <2>2. CASE ~Send(k)
    BY <1>1, <1>2, <2>2 DEF Openings, OnTheWay
  <2>. QED
    BY <2>1, <2>2
<1>5. ASSUME NEW j \in Client \ {k}
      PROVE  Quiet(j)
  <2>1. /\ session'[j] = session[j] /\ answers'[j] = answers[j]
        /\ doubts'[j] = doubts[j] /\ outcome'[j] = outcome[j]
    BY OthersStay DEF ServiceInv
  <2>2. (Asking(j)' <=> Asking(j)) /\ CaseNow(j)' = CaseNow(j)
    BY <2>1 DEF Asking, Waiting, CallOf, CaseNow
  <2>3. Gained(j)' = Gained(j)
    BY <2>1, <2>2 DEF Gained
  <2>4. Belated(j)' = Belated(j)
    BY <1>4, <2>1 DEF Belated
  <2>5. Told(j)' = Told(j)
    BY <2>1 DEF Told, CasesAnswered, Answered, CaseAnswered
  <2>. QED
    BY <1>3, <2>2, <2>3, <2>4, <2>5 DEF Quiet
<1>. QED
  BY <1>1, <1>2, <1>3, <1>5 DEF OthersQuiet, OnTheWay

\* An answer to a call that opens a case tells of it.
LEMMA AnswerTells ==
  ASSUME ServiceInv, NEW k \in Client, session[k] # Idle,
         NEW data \in AccountData \cup {NoData}, Answer(k, data)
  PROVE  Told(k)' = IF OpensCase(CallOf(k)) THEN Told(k) \cup {CaseNow(k)}
                                            ELSE Told(k)
<1>. PICK n \in Nat : n = Len(answers[k])
  BY DEF ServiceInv, ClientInv, ClientTypeOK
<1>. DEFINE new == [id |-> session[k].id, data |-> data]
<1>1. answers[k] \in Seq(AnswerType) /\ new \in AnswerType
  BY BusySessions DEF ServiceInv, ClientInv, ClientTypeOK, AnswerType
<1>2. answers'[k] = Append(answers[k], new)
  BY DEF Answer, ServiceInv, ClientInv, ClientTypeOK
<1>3. /\ Len(answers'[k]) = n + 1
      /\ answers'[k][n + 1] = new
      /\ \A i \in 1 .. n : answers'[k][i] = answers[k][i]
  BY <1>1, <1>2
<1>4. Script[k][n + 1] = CallOf(k)
  BY DEF CallOf
<1>5. CasesAnswered(k) \subseteq 1 .. n /\ n + 1 \notin CasesAnswered(k)
  BY DEF CasesAnswered, Answered
<1>6. CasesAnswered(k)' = IF OpensCase(CallOf(k))
                          THEN CasesAnswered(k) \cup {n + 1}
                          ELSE CasesAnswered(k)
  BY <1>3, <1>4 DEF CasesAnswered, Answered
<1>7. /\ \A i \in CasesAnswered(k) : CaseAnswered(k, i)' = CaseAnswered(k, i)
      /\ CaseAnswered(k, n + 1)' = CaseNow(k)
  BY <1>3, <1>4, <1>5 DEF CaseAnswered, CaseNow
<1>8. CASE OpensCase(CallOf(k))
  <2>1. CasesAnswered(k)' = CasesAnswered(k) \cup {n + 1}
    BY <1>6, <1>8
  <2>2. \A a : a \in Told(k)' <=> a \in Told(k) \/ a = CaseNow(k)
    BY <1>7, <2>1 DEF Told
  <2>. QED
    BY <1>8, <2>2
<1>9. CASE ~OpensCase(CallOf(k))
  <2>1. CasesAnswered(k)' = CasesAnswered(k)
    BY <1>6, <1>9
  <2>2. \A a : a \in Told(k)' <=> a \in Told(k)
    BY <1>7, <2>1 DEF Told
  <2>. QED
    BY <1>9, <2>2
<1>. QED
  BY <1>8, <1>9

\* Answered, a call is over, and the client told of what it has opened.
LEMMA AnswerIsTell ==
  ASSUME ServiceInv, NEW k \in Client, ClientStep(k),
         answers'[k] # answers[k]
  PROVE  Service!Tell(k) \/ \A j \in Client : Quiet(j)
<1>1. /\ Waiting(k) /\ outcome[k] = Ok
      /\ \E data \in AccountData \cup {NoData} : Answer(k, data)
  BY OnlyOkIsAnswered DEF ServiceInv
<1>2. PICK data \in AccountData \cup {NoData} : Answer(k, data)
  BY <1>1
<1>3. session'[k] = Idle /\ session[k] # Idle
  BY <1>1, <1>2
     DEF Answer, Throw, Waiting, Idle, ServiceInv, ClientInv, ClientTypeOK
<1>4. /\ doubts'[k] = doubts[k] /\ ~Send(k)
  <2>1. Confirm(k) \/ (ReadBack(k) /\ UNCHANGED doubts)
    BY DEF ClientStep, Call, Check, CheckFails, Refuse, Send, TimeOut, GiveUp,
           ReadBack, ReadBackFails
  <2>. QED
    BY <2>1, <1>1 DEF Confirm, Send, ReadBack, Checked, InPhase, Waiting
<1>5. OthersQuiet(k) /\ CasesOf(k)' = CasesOf(k) /\ Belated(k)' = Belated(k)
  <2>1. OthersQuiet(k) /\ CasesOf(k)' = CasesOf(k) /\ OnTheWay' = OnTheWay
    BY <1>4, ClientLeavesOthers
  <2>. QED
    BY <1>4, <2>1 DEF Belated, Openings
<1>6. Told(k)' = IF OpensCase(CallOf(k)) THEN Told(k) \cup {CaseNow(k)}
                                         ELSE Told(k)
  BY <1>2, <1>3, AnswerTells
<1>7. ~Asking(k)' /\ Gained(k)' = {}
  BY <1>3 DEF Asking, Waiting, Idle, Gained
<1>8. CASE OpensCase(CallOf(k))
  <2>1. Asking(k) /\ Gained(k) = {CaseNow(k)}
    BY <1>1, <1>8 DEF Asking, Gained
  <2>2. Service!Return(k)
    BY <1>5, <1>7, <2>1, Returns
  <2>3. Told(k)' = Told(k) \cup Gained(k)
    BY <1>6, <1>8, <2>1
  <2>4. [j \in Client |-> Told(j)]' =
            [[j \in Client |-> Told(j)] EXCEPT ![k] = @ \cup Gained(k)]
    BY <1>5, <2>3 DEF OthersQuiet, Quiet
  <2>5. UNCHANGED [j \in Client |-> Cardinality(Belated(j))]
    BY <1>5, LateChanges
  <2>6. UNCHANGED [j \in Client |-> CasesOf(j)]
    BY <1>5 DEF OthersQuiet, Quiet
  <2>. QED
    BY <2>1, <2>2, <2>4, <2>5, <2>6 DEF Service!Tell
<1>9. CASE ~OpensCase(CallOf(k))
  <2>1. ~Asking(k) /\ Gained(k) = {}
    BY <1>9 DEF Asking, Gained
  <2>. QED
    BY <1>5, <1>6, <1>7, <1>9, <2>1 DEF OthersQuiet, Quiet
<1>. QED
  BY <1>8, <1>9

\* The message that a client waits for is the one of its call.
LEMMA OwnMessage ==
  ASSUME ServiceInv, NEW k \in Client, NEW m \in OnTheWay, m.by = k,
         m.turn = doubts[k]
  PROVE  /\ m = MessageOf(k) /\ outcome[k] = Pending
         /\ InPhase(k, "confirming")
         /\ Opens(m) <=> OpensCase(CallOf(k))
<1>1. Timely(m) /\ doubts[k] \in Nat
  BY DEF OnTheWay, ServiceInv, TurnInv, ClientInv, ClientTypeOK
<1>2. Awaited(m)
  BY <1>1 DEF Timely
<1>3. session[k] # Idle
  BY <1>2 DEF Awaited, InPhase, Idle
<1>4. PICK i \in 1 .. Len(Script[k]) : CallOf(k) = Script[k][i]
  BY <1>3, CurrentCall DEF ServiceInv, ClientInv
<1>5. LET built == PlanOf(k, Script[k][i], session[k].id).built
      IN  /\ Sent(k, built).instructions = <<built.ix>>
          /\ SentFor(k, Script[k][i], session[k].id, built.ix)
  BY SentInstruction
<1>6. LET built == PlanOf(k, CallOf(k), session[k].id).built
      IN  /\ m.tx.instructions = <<built.ix>>
          /\ SentFor(k, CallOf(k), session[k].id, built.ix)
  BY <1>2, <1>4, <1>5 DEF Awaited, MessageOf, PlanNow
<1>7. Opens(m) <=> OpensCase(CallOf(k))
  BY <1>6 DEF Opens, SentFor
<1>. QED
  BY <1>2, <1>7 DEF Awaited

\* In doubt, a call is over; its message, if it is still under way, is late
\* from now on.
LEMMA DoubtIsDoubt ==
  ASSUME ServiceInv, NEW k \in Client, ClientStep(k), Waiting(k), ~Send(k),
         Throw(k), Doubt(k), answers' = answers
  PROVE  Service!Doubt(k) \/ \A j \in Client : Quiet(j)
<1>1. /\ OthersQuiet(k) /\ CasesOf(k)' = CasesOf(k)
      /\ Openings(k)' = Openings(k)
  BY ClientLeavesOthers DEF Openings
<1>2. /\ session'[k] = Idle /\ doubts[k] \in Nat
      /\ doubts'[k] = doubts[k] + 1
  BY DEF Throw, Doubt, ServiceInv, ClientInv, ClientTypeOK
<1>3. ~Asking(k)' /\ Gained(k)' = {}
  BY <1>2 DEF Asking, Waiting, Idle, Gained
<1>4. Told(k)' = Told(k)
  BY DEF Told, CasesAnswered, Answered, CaseAnswered
<1>5. \A m \in Openings(k) : /\ m \in OnTheWay /\ m.by = k
                             /\ m.turn \in Nat /\ m.turn <= doubts[k]
  <2>1. \A m \in OnTheWay : Timely(m) /\ m.turn \in Nat
    BY Messages DEF OnTheWay, ServiceInv, TurnInv
  <2>. QED
    BY <1>2, <2>1 DEF Openings, Timely
<1>6. CASE \E m \in Openings(k) : m.turn = doubts[k]
  <2>1. PICK m \in Openings(k) : m.turn = doubts[k]
    BY <1>6
  <2>2. /\ m = MessageOf(k) /\ outcome[k] = Pending /\ OpensCase(CallOf(k))
    BY <1>5, <2>1, OwnMessage DEF Openings
  <2>3. Asking(k) /\ Gained(k) = {}
    BY <2>2 DEF Asking, Gained, Ok, Pending
  <2>4. Belated(k)' = Belated(k) \cup {m} /\ m \notin Belated(k)
    <3>1. \A x \in Openings(k) : x.turn < doubts'[k] <=>
                                     x.turn < doubts[k] \/ x = m
      BY <1>2, <1>5, <2>1, <2>2, OwnMessage
    <3>. QED
      BY <1>1, <1>2, <2>1, <3>1 DEF Belated
  <2>5. LET late == [j \in Client |-> Cardinality(Belated(j))]
        IN  late' = [late EXCEPT ![k] = @ + 1]
    BY <1>1, <2>4, LateChanges
  <2>6. Service!Return(k)
    BY <1>1, <1>3, <2>3, Returns
  <2>7. UNCHANGED <<[j \in Client |-> CasesOf(j)], [j \in Client |-> Told(j)]>>
    BY <1>1, <1>4 DEF OthersQuiet, Quiet
  <2>. QED
    BY <2>3, <2>5, <2>6, <2>7 DEF Service!Doubt
<1>7. CASE ~\E m \in Openings(k) : m.turn = doubts[k]
  <2>1. Belated(k)' = Belated(k)
    BY <1>1, <1>2, <1>5, <1>7 DEF Belated
  <2>2. CASE OpensCase(CallOf(k))
    <3>1. Service!Return(k)
      BY <1>1, <1>3, <2>2, Returns DEF Asking
    <3>2. UNCHANGED [j \in Client |-> Cardinality(Belated(j))]
      BY <1>1, <2>1, LateChanges
    <3>3. UNCHANGED <<[j \in Client |-> CasesOf(j)],
                      [j \in Client |-> Told(j)]>>
      BY <1>1, <1>4 DEF OthersQuiet, Quiet
    <3>. QED
      BY <3>1, <3>2, <3>3 DEF Service!Doubt
  <2>3. CASE ~OpensCase(CallOf(k))
    <3>1. ~Asking(k) /\ Gained(k) = {}
      BY <2>3 DEF Asking, Gained
    <3>. QED
      BY <1>1, <1>3, <1>4, <2>1, <3>1 DEF OthersQuiet, Quiet
  <2>. QED
    BY <2>2, <2>3
<1>. QED
  BY <1>6, <1>7

LEMMA SendIsAsk ==
  ASSUME ServiceInv, NEW k \in Client, Send(k)
  PROVE  Service!Ask(k) \/ \A j \in Client : Quiet(j)
<1>1. OthersQuiet(k) /\ CasesOf(k)' = CasesOf(k)
  BY ClientLeavesOthers DEF ClientStep
<1>2. /\ UNCHANGED <<answers, doubts, running>>
      /\ flying' = flying \cup {MessageOf(k)}
      /\ Waiting(k)' /\ outcome'[k] = Pending /\ ~Waiting(k)
  BY DEF Send, Checked, GoTo, Busy, InPhase, Waiting, ServiceInv, ClientInv,
         ClientTypeOK
<1>3. /\ ~Asking(k) /\ Gained(k) = {} /\ Gained(k)' = {}
      /\ Asking(k)' <=> OpensCase(CallOf(k))
  BY <1>2 DEF Asking, Gained, CallOf, Ok, Pending
<1>4. Belated(k)' = Belated(k)
  <2>1. MessageOf(k).turn = doubts[k] /\ doubts[k] \in Nat
    BY DEF MessageOf, ServiceInv, ClientInv, ClientTypeOK
  <2>. QED
    BY <1>2, <2>1 DEF Belated, Openings, OnTheWay
<1>5. Told(k)' = Told(k)
  BY <1>2 DEF Told, CasesAnswered, Answered, CaseAnswered
<1>6. CASE OpensCase(CallOf(k))
  <2>1. {j \in Client : Asking(j)}' = {j \in Client : Asking(j)} \cup {k}
    BY <1>1, <1>3, <1>6 DEF OthersQuiet, Quiet
  <2>2. UNCHANGED [j \in Client |-> Cardinality(Belated(j))]
    BY <1>1, <1>4, LateChanges
  <2>3. UNCHANGED <<[j \in Client |-> Gained(j)], [j \in Client |-> CasesOf(j)],
                    [j \in Client |-> Told(j)]>>
    BY <1>1, <1>3, <1>5 DEF OthersQuiet, Quiet
  <2>. QED
    BY <1>3, <2>1, <2>2, <2>3 DEF Service!Ask
<1>7. CASE ~OpensCase(CallOf(k))
  BY <1>1, <1>3, <1>4, <1>5, <1>7 DEF OthersQuiet, Quiet
<1>. QED
  BY <1>6, <1>7

\* The transaction has failed: the call is refused.  If it has not, the call
\* goes on to fetch its case.
LEMMA ConfirmIsRefusal ==
  ASSUME ServiceInv, NEW k \in Client, Confirm(k), answers'[k] = answers[k]
  PROVE  Service!Refuse(k) \/ \A j \in Client : Quiet(j)
<1>1. /\ OthersQuiet(k) /\ CasesOf(k)' = CasesOf(k)
      /\ Belated(k)' = Belated(k)
  <2>1. /\ OthersQuiet(k) /\ CasesOf(k)' = CasesOf(k) /\ OnTheWay' = OnTheWay
    BY ClientLeavesOthers DEF ClientStep, Confirm, Send, InPhase, Checked
  <2>. QED
    BY <2>1 DEF Belated, Openings, Confirm
<1>2. Told(k)' = Told(k)
  BY DEF Told, CasesAnswered, Answered, CaseAnswered
<1>3. Waiting(k) /\ outcome[k] = SeenOutcome(k) /\ outcome' = outcome
  BY SeenIsOutcome DEF Confirm, Waiting, InPhase, ServiceInv
<1>4. CASE SeenOutcome(k) # Ok
  <2>1. ~Asking(k)' /\ Gained(k)' = {} /\ Gained(k) = {}
    BY <1>3, <1>4 DEF Confirm, Throw, Asking, Waiting, Idle, Gained,
                      ServiceInv, ClientInv, ClientTypeOK
  <2>2. CASE OpensCase(CallOf(k))
    <3>1. Service!Return(k)
      BY <1>1, <1>3, <2>1, <2>2, Returns DEF Asking
    <3>2. UNCHANGED [j \in Client |-> Cardinality(Belated(j))]
      BY <1>1, LateChanges
    <3>3. UNCHANGED <<[j \in Client |-> CasesOf(j)],
                      [j \in Client |-> Told(j)]>>
      BY <1>1, <1>2 DEF OthersQuiet, Quiet
    <3>. QED
      BY <2>1, <3>1, <3>2, <3>3 DEF Service!Refuse
  <2>3. CASE ~OpensCase(CallOf(k))
    BY <1>1, <1>2, <2>1, <2>3 DEF OthersQuiet, Quiet, Asking
  <2>. QED
    BY <2>2, <2>3
<1>5. CASE SeenOutcome(k) = Ok
  <2>1. GoTo(k, "returning") /\ UNCHANGED <<answers, outcome>>
    BY <1>5, AnswerDiffers DEF Confirm, ServiceInv, ClientInv, final
  <2>2. Waiting(k)' /\ CaseNow(k)' = CaseNow(k) /\ CallOf(k)' = CallOf(k)
    BY <2>1 DEF GoTo, Busy, Waiting, CaseNow, CallOf, ServiceInv, ClientInv,
                ClientTypeOK
  <2>. QED
    BY <1>1, <1>2, <1>3, <2>1, <2>2 DEF OthersQuiet, Quiet, Asking, Gained
<1>. QED
  BY <1>4, <1>5

\* While a client prepares its call, the service rests.
LEMMA PreparingIsQuiet ==
  ASSUME ServiceInv, NEW k \in Client,
         Call(k) \/ Check(k) \/ CheckFails(k) \/ Refuse(k)
  PROVE  \A j \in Client : Quiet(j)
<1>1. ~Waiting(k) /\ ~Waiting(k)' /\ ~Send(k) /\ UNCHANGED <<answers, doubts>>
  <2>1. ~Waiting(k) /\ UNCHANGED <<answers, doubts>>
    BY DEF Call, Check, CheckFails, Refuse, LookingUp, Checked, InPhase,
           Waiting
  <2>2. session'[k].phase \in {"checking", "idle"}
    BY DEF Call, Check, CheckFails, Refuse, Pass, Throw, Busy, Idle,
           ServiceInv, ClientInv, ClientTypeOK
  <2>3. Send(k) => session'[k].phase = "confirming"
    BY DEF Send, GoTo, Busy, ServiceInv, ClientInv, ClientTypeOK
  <2>. QED
    BY <2>1, <2>2, <2>3 DEF Waiting
<1>2. /\ OthersQuiet(k) /\ CasesOf(k)' = CasesOf(k) /\ OnTheWay' = OnTheWay
  BY <1>1, ClientLeavesOthers DEF ClientStep
<1>3. Belated(k)' = Belated(k) /\ Told(k)' = Told(k)
  BY <1>1, <1>2 DEF Belated, Openings, Told, CasesAnswered, Answered,
                    CaseAnswered
<1>. QED
  BY <1>1, <1>2, <1>3 DEF OthersQuiet, Quiet, Asking, Gained

LEMMA ClientStepServes ==
  ASSUME ServiceInv, NEW k \in Client, ClientStep(k)
  PROVE  Service!Next \/ UNCHANGED ServiceState
<1>1. CASE Call(k) \/ Check(k) \/ CheckFails(k) \/ Refuse(k)
  BY <1>1, PreparingIsQuiet, QuietIsStutter
<1>2. CASE Send(k)
  BY <1>2, SendIsAsk, QuietIsStutter DEF Service!Next
<1>3. CASE answers'[k] # answers[k]
  BY <1>3, AnswerIsTell, QuietIsStutter DEF Service!Next
<1>4. CASE Confirm(k) /\ answers'[k] = answers[k]
  BY <1>4, ConfirmIsRefusal, QuietIsStutter DEF Service!Next
<1>5. CASE \/ TimeOut(k) \/ GiveUp(k) \/ ReadBackFails(k)
           \/ ReadBack(k) /\ answers'[k] = answers[k]
  <2>1. /\ Waiting(k) /\ ~Send(k) /\ Throw(k) /\ Doubt(k) /\ answers' = answers
    BY <1>5, AnswerDiffers
       DEF TimeOut, GiveUp, ReadBackFails, ReadBack, Send, Checked, InPhase,
           Waiting, ServiceInv, ClientInv
  <2>. QED
    BY <2>1, DoubtIsDoubt, QuietIsStutter DEF Service!Next
<1>. QED
  BY <1>1, <1>2, <1>3, <1>4, <1>5 DEF ClientStep

-----------------------------------------------------------------------------
(* The steps of the chain.                                                 *)

\* Where the chain leaves everything but the messages and outcomes alone, what
\* a client has is what it had.
LEMMA ChainLeaves ==
  ASSUME ServiceInv, ChainStep, NEW j \in Client
  PROVE  /\ Asking(j)' <=> Asking(j)
         /\ CaseNow(j)' = CaseNow(j) /\ CallOf(j)' = CallOf(j)
         /\ Told(j)' = Told(j)
         /\ doubts' = doubts
         /\ outcome'[j] = outcome[j] => Gained(j)' = Gained(j)
         /\ ~Settle => accounts' = accounts /\ outcome' = outcome
<1>1. UNCHANGED <<session, answers, doubts>>
  BY DEF ChainStep, Land, Expire, Run, Settle, Finalize, clientVars
<1>2. Asking(j)' <=> Asking(j)
  BY <1>1 DEF Asking, Waiting, CallOf
<1>3. CaseNow(j)' = CaseNow(j) /\ CallOf(j)' = CallOf(j)
  BY <1>1 DEF CaseNow, CallOf
<1>4. Told(j)' = Told(j)
  BY <1>1 DEF Told, CasesAnswered, Answered, CaseAnswered
<1>5. outcome'[j] = outcome[j] => Gained(j)' = Gained(j)
  BY <1>2, <1>3 DEF Gained
<1>6. ~Settle => accounts' = accounts /\ outcome' = outcome
  <2>1. Run => accounts' = accounts
    BY DEF Run, Process, Reject, CreateCommunity, UpdateCommunity,
           CreateNetwork, UpdateNetwork, CreateReporter, UpdateReporter,
           CreateCase, UpdateCase, CreateAddress, UpdateAddress, Execute,
           Succeed, Fail
  <2>. QED
    BY <2>1 DEF ChainStep, Land, Begin, Expire, Run, Finalize, clientVars, vars
<1>. QED
  BY <1>1, <1>2, <1>3, <1>4, <1>5, <1>6

\* A message that leaves without effect, late or not.
LEMMA LeavesIsLost ==
  ASSUME ServiceInv, NEW m \in OnTheWay, m.by \in Client, ChainStep,
         \A j \in Client : Gained(j)' = Gained(j) /\ CasesOf(j)' = CasesOf(j),
         OnTheWay' = OnTheWay \ {m}
  PROVE  Service!Next \/ UNCHANGED ServiceState
<1>. DEFINE k == m.by
<1>1. \A j \in Client : Belated(j)' = Belated(j) \ {m}
  BY ChainLeaves DEF Belated, Openings
<1>2. OthersQuiet(k)
  <2>1. \A j \in Client \ {k} : m \notin Belated(j)
    BY DEF Belated, Openings
  <2>. QED
    BY <1>1, <2>1, ChainLeaves DEF OthersQuiet, Quiet
<1>3. CASE m \in Belated(k)
  <2>1. LET late == [j \in Client |-> Cardinality(Belated(j))]
        IN  /\ Cardinality(Belated(k)) > 0
            /\ late' = [late EXCEPT ![k] = @ - 1]
    BY <1>1, <1>2, <1>3, LateChanges
  <2>2. UNCHANGED <<{j \in Client : Asking(j)}, [j \in Client |-> Gained(j)],
                    [j \in Client |-> CasesOf(j)], [j \in Client |-> Told(j)]>>
    BY ChainLeaves
  <2>3. Service!Lose(k)
    BY <2>1, <2>2 DEF Service!Lose
  <2>. QED
    BY <2>3 DEF Service!Next
<1>4. CASE m \notin Belated(k)
  <2>1. Quiet(k)
    BY <1>1, <1>4, ChainLeaves DEF Quiet
  <2>. QED
    BY <1>2, <2>1, QuietIsStutter DEF OthersQuiet
<1>. QED
  BY <1>3, <1>4

\* A commit gives its sender the case its message opens, if it opens one, and
\* nobody else any.
LEMMA CommitOwns ==
  ASSUME ServiceInv, Settle, Commit, NEW a, a = tx.instructions[1].accounts[4]
  PROVE  /\ \A j \in Client : CasesOf(j)' =
                IF j = running.by /\ Opens(running) THEN CasesOf(j) \cup {a}
                                                    ELSE CasesOf(j)
         /\ Opens(running) =>
                /\ \A j \in Client : a \notin CasesOf(j)
                /\ \E name \in Name, id \in CaseId :
                       a = CaseAddress(CommunityAddress(name), id)
<1>. PICK ix : ix = tx.instructions[1]
  OBVIOUS
<1>1. accounts' = work /\ Executed(accounts, ix, work) /\ tx # NoTx
  BY CommitExecutes DEF ServiceInv, Commit
<1>2. /\ \E c, id : SentFor(running.by, c, id, ix)
      /\ Opens(running) <=> ix.op = "CreateCase"
  BY <1>1, RunningCall DEF ServiceInv, MessageInv, OneStep, Opens
<1>3. Later(accounts, work) /\ LedgerOK(work)
  BY DEF ServiceInv, MessageInv, ClientInv, Inv
<1>4. \A j \in Client : CasesOf(j) \subseteq CasesOf(j)'
  BY <1>1, <1>3 DEF CasesOf, Later, Kept
<1>5. \A j \in Client : \A x \in CasesOf(j)' :
          x \in CasesOf(j) \/ (Opens(running) /\ x = a)
  BY <1>1, <1>2 DEF CasesOf, Executed, Holds
<1>6. Opens(running) =>
          a \notin DOMAIN accounts /\ Holds(work, a, "Case")
          /\ work[a].reporter_key = running.by
  BY <1>1, <1>2 DEF Executed, SentFor
<1>7. \A j \in Client : CasesOf(j)' =
          IF j = running.by /\ Opens(running) THEN CasesOf(j) \cup {a}
                                              ELSE CasesOf(j)
  BY <1>1, <1>4, <1>5, <1>6 DEF CasesOf, Holds
<1>8. ASSUME Opens(running)
      PROVE  \E name \in Name, id \in CaseId :
                 a = CaseAddress(CommunityAddress(name), id)
  <2>1. a \in DOMAIN work /\ work[a].account_type = "Case"
    BY <1>6, <1>8 DEF Holds
  <2>2. PICK c \in Communities(work), id \in CaseId : a = CaseAddress(c, id)
    BY <1>3, <2>1 DEF LedgerOK, OnItsOwnAddress
  <2>3. work[c].name \in Name /\ c = CommunityAddress(work[c].name)
    BY <1>3, <2>2, DataFields
       DEF LedgerOK, IsLedger, OnItsOwnAddress, Communities, Community
  <2>. QED
    BY <2>2, <2>3
<1>. QED
  BY <1>6, <1>7, <1>8 DEF CasesOf

\* The end of a transaction that opens a case opens it for the call that waits
\* for it, or behind the back of its client.
LEMMA SettleServes ==
  ASSUME ServiceInv, Settle
  PROVE  Service!Next \/ UNCHANGED ServiceState
<1>. PICK r : r = running
  OBVIOUS
<1>. PICK k : k = r.by
  OBVIOUS
<1>. DEFINE a == tx.instructions[1].accounts[4]
<1>1. /\ k \in Client /\ r # NoMessage /\ r \notin flying /\ tx = r.tx
      /\ tx # NoTx /\ flying' = flying /\ running' = NoMessage
  BY RunningCall
     DEF Settle, Commit, Abort, ServiceInv, TurnInv, MessageInv, OneStep
<1>2. r \in OnTheWay /\ OnTheWay' = OnTheWay \ {r}
  BY <1>1, Messages DEF OnTheWay, ServiceInv
<1>3. ChainStep
  BY DEF ChainStep
<1>4. \A j \in Client \ {k} : outcome'[j] = outcome[j]
  BY DEF Settle, ServiceInv, ClientInv, ClientTypeOK
<1>5. \A j \in Client \ {k} : Gained(j)' = Gained(j)
  BY <1>3, <1>4, ChainLeaves
<1>6. \A j \in Client : Belated(j)' = Belated(j) \ {r}
  BY <1>2, <1>3, ChainLeaves DEF Belated, Openings
<1>7. CASE Commit /\ Opens(r)
  <2>1. /\ \A j \in Client : CasesOf(j)' =
               IF j = k THEN CasesOf(j) \cup {a} ELSE CasesOf(j)
        /\ \A j \in Client : a \notin CasesOf(j)
        /\ \E name \in Name, id \in CaseId :
               a = CaseAddress(CommunityAddress(name), id)
    BY <1>7, CommitOwns
  <2>2. OthersQuiet(k)
    <3>1. \A j \in Client \ {k} : r \notin Belated(j)
      BY DEF Belated, Openings
    <3>. QED
      BY <1>3, <1>5, <1>6, <2>1, <3>1, ChainLeaves DEF OthersQuiet, Quiet
  <2>3. Service!Fresh(a)
    BY <2>1 DEF Service!Fresh
  <2>4. [j \in Client |-> CasesOf(j)]' =
            [[j \in Client |-> CasesOf(j)] EXCEPT ![k] = @ \cup {a}]
    BY <1>1, <2>1
  <2>5. UNCHANGED <<{j \in Client : Asking(j)}, [j \in Client |-> Told(j)]>>
    BY <1>3, ChainLeaves
  <2>6. CASE r.turn = doubts[k]
    <3>1. /\ InPhase(k, "confirming") /\ outcome[k] = Pending
          /\ SentFor(k, CallOf(k), session[k].id, tx.instructions[1])
      BY <1>1, <2>6, AwaitedCall DEF ServiceInv
    <3>2. OpensCase(CallOf(k)) /\ a = CaseNow(k)
      BY <1>1, <1>7, <3>1 DEF SentFor, Opens, WellAddressed, CaseNow
    <3>3. Asking(k) /\ Gained(k) = {}
      BY <3>1, <3>2 DEF Asking, Waiting, InPhase, Gained, Pending, Ok
    <3>4. outcome'[k] = Ok
      BY <1>1, <1>7, <2>6
         DEF Settle, Commit, ServiceInv, ClientInv, ClientTypeOK
    <3>5. Gained(k)' = {a}
      BY <1>1, <1>3, <3>2, <3>3, <3>4, ChainLeaves DEF Gained
    <3>6. [j \in Client |-> Gained(j)]' =
              [[j \in Client |-> Gained(j)] EXCEPT ![k] = {a}]
      BY <1>5, <3>5
    <3>7. Belated(k)' = Belated(k)
      BY <1>1, <1>6, <2>6 DEF Belated, ServiceInv, ClientInv, ClientTypeOK
    <3>8. UNCHANGED [j \in Client |-> Cardinality(Belated(j))]
      BY <1>1, <2>2, <3>7, LateChanges
    <3>9. Service!Open(k, a)
      BY <1>1, <2>3, <2>4, <2>5, <3>3, <3>6, <3>8 DEF Service!Open
    <3>. QED
      BY <1>1, <2>1, <3>9 DEF Service!Next
  <2>7. CASE r.turn # doubts[k]
    <3>1. Timely(r) /\ outcome' = outcome
      BY <1>1, <2>7 DEF Settle, ServiceInv, TurnInv
    <3>2. r \in Belated(k)
      BY <1>2, <1>7, <2>7, <3>1 DEF Belated, Openings, Timely
    <3>3. LET late == [j \in Client |-> Cardinality(Belated(j))]
          IN  /\ Cardinality(Belated(k)) > 0
              /\ late' = [late EXCEPT ![k] = @ - 1]
      BY <1>1, <1>6, <2>2, <3>2, LateChanges
    <3>4. UNCHANGED [j \in Client |-> Gained(j)]
      BY <1>3, <3>1, ChainLeaves
    <3>5. Service!OpenLate(k, a)
      BY <1>1, <2>3, <2>4, <2>5, <3>3, <3>4 DEF Service!OpenLate
    <3>. QED
      BY <1>1, <2>1, <3>5 DEF Service!Next
  <2>. QED
    BY <2>6, <2>7
<1>8. CASE Abort \/ ~Opens(r)
  <2>1. \A j \in Client : CasesOf(j)' = CasesOf(j)
    <3>1. CASE Abort
      BY <3>1 DEF Abort, CasesOf
    <3>2. CASE Commit /\ ~Opens(r)
      BY <3>2, CommitOwns
    <3>. QED
      BY <1>8, <3>1, <3>2 DEF Settle
  <2>2. Gained(k)' = Gained(k)
    <3>1. CASE outcome'[k] = outcome[k]
      BY <1>1, <1>3, <3>1, ChainLeaves
    <3>2. CASE outcome'[k] # outcome[k]
      <4>1. r.turn = doubts[k] /\ outcome'[k] = verdict
        BY <1>1, <3>2 DEF Settle, ServiceInv, ClientInv, ClientTypeOK
      <4>2. /\ outcome[k] = Pending
            /\ SentFor(k, CallOf(k), session[k].id, tx.instructions[1])
        BY <1>1, <4>1, AwaitedCall DEF ServiceInv
      <4>3. Gained(k) = {}
        BY <4>2 DEF Gained, Ok, Pending
      <4>4. CASE Abort
        BY <4>1, <4>3, <4>4 DEF Abort, Gained
      <4>5. CASE ~Opens(r)
        <5>1. ~OpensCase(CallOf(k))
          BY <1>1, <4>2, <4>5 DEF SentFor, Opens
        <5>2. ~Asking(k)'
          BY <1>1, <1>3, <5>1, ChainLeaves DEF Asking
        <5>. QED
          BY <4>3, <5>2 DEF Gained
      <4>. QED
        BY <1>8, <4>4, <4>5
    <3>. QED
      BY <3>1, <3>2
  <2>. QED
    BY <1>1, <1>2, <1>3, <1>5, <2>1, <2>2, LeavesIsLost
<1>. QED
  BY <1>7, <1>8 DEF Settle

LEMMA ChainStepServes ==
  ASSUME ServiceInv, ChainStep
  PROVE  Service!Next \/ UNCHANGED ServiceState
<1>1. CASE Settle
  BY <1>1, SettleServes
<1>2. CASE ~Settle
  <2>1. \A j \in Client : /\ Gained(j)' = Gained(j)
                          /\ CasesOf(j)' = CasesOf(j)
    BY <1>2, ChainLeaves DEF CasesOf
  <2>2. ASSUME OnTheWay' = OnTheWay
        PROVE  UNCHANGED ServiceState
    BY <2>1, <2>2, ChainLeaves, QuietIsStutter DEF Quiet, Belated, Openings
  <2>3. CASE \E m \in flying : Land(m)
    <3>1. PICK m \in flying : Land(m)
      BY <2>3
    <3>2. /\ flying' = flying \ {m} /\ running' = m /\ running = NoMessage
      BY <3>1 DEF Land, Begin, ServiceInv, ClientInv, ClientTypeOK
    <3>3. m # NoMessage
      BY Messages DEF ServiceInv
    <3>. QED
      BY <2>2, <3>2, <3>3 DEF OnTheWay
  <2>4. CASE \E m \in flying : Expire(m)
    <3>1. PICK m \in flying : Expire(m)
      BY <2>4
    <3>2. OnTheWay' = OnTheWay \ {m} /\ m \in OnTheWay
      BY <3>1 DEF Expire, OnTheWay, ServiceInv, TurnInv
    <3>3. m.by \in Client
      BY Messages DEF ServiceInv
    <3>. QED
      BY <2>1, <3>2, <3>3, LeavesIsLost
  <2>5. CASE Run \/ Finalize
    BY <2>2, <2>5 DEF Run, Finalize, clientVars, OnTheWay
  <2>. QED
    BY <1>2, <2>3, <2>4, <2>5 DEF ChainStep
<1>. QED
  BY <1>1, <1>2

LEMMA ServiceInvariance == ClientsSpec => []ServiceInv
BY AnswerInvariance, CountInvariance, PTL DEF ServiceInv

\* Opening cases through the clients is the service of CaseService, for any
\* scripts, either commitment and any number of failures: a call opens one
\* case at most and is answered with that very case; a call that is refused
\* opens none, then or later; what ends in doubt may open its case behind the
\* back of its client, whose next call is never told of it
\* (reporter-client.ts:105-127, cmd_create_case.rs:27-58).
THEOREM ClientsImplementService == ClientsSpec => ImplementsService
<1>1. ClientInit => Service!Init
  <2>. SUFFICES ASSUME ClientInit PROVE Service!Init
    OBVIOUS
  <2>1. DOMAIN accounts = {} /\ flying = {} /\ running = NoMessage
    BY DEF ClientInit, Init
  <2>2. ASSUME NEW k \in Client
        PROVE  /\ ~Asking(k) /\ Gained(k) = {} /\ Belated(k) = {}
               /\ CasesOf(k) = {} /\ Told(k) = {}
    BY <2>1 DEF ClientInit, Asking, Waiting, Idle, Gained, Belated, Openings,
                OnTheWay, CasesOf, Told, CasesAnswered, Answered
  <2>3. Cardinality({}) = 0
    BY FS_EmptySet
  <2>. QED
    BY <2>2, <2>3 DEF Service!Init
<1>2. ServiceInv /\ [ClientsNext]_allVars
          => [Service!Next]_(Service!serviceVars)
  <2>. SUFFICES ASSUME ServiceInv, [ClientsNext]_allVars
                PROVE  Service!Next \/ UNCHANGED ServiceState
    BY DEF ServiceState, Service!serviceVars
  <2>1. CASE UNCHANGED allVars
    <3>1. \A j \in Client : Quiet(j)
      BY <2>1 DEF allVars, vars, clientVars, Quiet, Asking, Waiting, CallOf,
                  Gained, CaseNow, Belated, Openings, OnTheWay, CasesOf,
                  Told, CasesAnswered, Answered, CaseAnswered
    <3>. QED
      BY <3>1, QuietIsStutter
  <2>. QED
    BY <2>1, ClientStepServes, ChainStepServes DEF ClientsNext
<1>. QED
  BY <1>1, <1>2, ServiceInvariance, PTL
     DEF ClientsSpec, ImplementsService, Service!Spec
==============================================================================
