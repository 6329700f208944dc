----------------------------- MODULE HapiClients -----------------------------
(***************************************************************************)
(* The clients and the chain together.  Each client works through a script *)
(* of calls, one at a time, repeating a call until it is answered; a call  *)
(* is spread over several requests, between which every other client and   *)
(* the chain go on.  A transaction in flight lands at any later time, or   *)
(* never; a client can give up waiting for one that lands afterwards.      *)
(*                                                                         *)
(* Requests are answered at a commitment.  What is "confirmed" is what the *)
(* chain has executed; what is "finalized" lags behind it.  Lag says       *)
(* whether the connection of the JavaScript clients reads finalized data,  *)
(* the default of web3.js (CLI: cli/src/main.rs:286, confirmed).           *)
(***************************************************************************)
EXTENDS HapiCalls, HapiLedger

CONSTANTS
    Client,         \* the keys of the clients
    Script,         \* the calls of each client, in order
    Lag,            \* do the JavaScript clients read finalized data?
    MaxFaults,      \* bound: requests and messages that fail
    NoMessage       \* the chain executes no message

\* Every message the calls can lead to, whatever the counter reads, is among
\* the transactions of the ledger.
ASSUME ClientsAssumption ==
    /\ Lag \in BOOLEAN
    /\ MaxFaults \in Nat
    /\ \A k \in Client : Len(Script[k]) \in Nat
    /\ \A k \in Client : \A i \in 1 .. Len(Script[k]), id \in CaseId :
           Sent(k, PlanOf(k, Script[k][i], id).built) \in Transactions

ASSUME MethodsAssumption ==
    \A k \in Client : \A i \in 1 .. Len(Script[k]) :
        Script[k][i].method \in AuthorityMethods \cup ReporterMethods
                                \cup CommandMethods

\* Nobody sends lamports to the address of a network: the commands would take
\* it for a network that exists.
ASSUME NetworksAssumption ==
    \A k \in Client : \A i \in 1 .. Len(Script[k]) :
        LET c == Script[k][i]
        IN  AddsAddress(c) /\ IsCommand(c) =>
                NetworkAddress(CommunityAddress(c.community), c.network)
                    \notin Funded \cup Foreign

ASSUME MessageAssumption ==
    NoMessage \notin [by : Client, turn : Nat, tx : Transactions]

VARIABLES
    session,        \* client -> what its current call is doing
    answers,        \* client -> the answers it got, one per call of its script
    doubts,         \* client -> how many calls ended with their effect unknown
    flying,         \* the messages on their way
    running,        \* the message whose transaction the chain is executing
    outcome,        \* client -> how its current transaction ended
    finalAccounts,  \* the ledger as far as it is finalized
    finalOutcome,   \* the outcomes as far as they are finalized
    faults          \* failures so far

final == <<finalAccounts, finalOutcome>>
clientVars == <<session, answers, doubts, flying, running, outcome, final,
                faults>>
allVars == <<vars, clientVars>>

Idle == [phase |-> "idle"]
Busy(phase, read, id) == [phase |-> phase, read |-> read, id |-> id]
Pending == "Pending"

ClientInit == /\ Init
              /\ session = [k \in Client |-> Idle]
              /\ answers = [k \in Client |-> << >>]
              /\ doubts = [k \in Client |-> 0]
              /\ flying = {}
              /\ running = NoMessage
              /\ outcome = [k \in Client |-> Pending]
              /\ finalAccounts = accounts
              /\ finalOutcome = outcome
              /\ faults = 0

-----------------------------------------------------------------------------
Todo(k) == Len(answers[k]) < Len(Script[k])
CallOf(k) == Script[k][Len(answers[k]) + 1]
InPhase(k, phase) == session[k].phase = phase
PlanNow(k) == PlanOf(k, CallOf(k), session[k].id)

ReadsFinal(k) == Lag /\ ~IsCommand(CallOf(k))
Seen(k) == IF ReadsFinal(k) THEN finalAccounts ELSE accounts

\* Fault: every client waits for "confirmed", whatever it reads afterwards.
SeenOutcome_Confirmed(k) ==
    outcome[k]

\* AuthorityClient asks for "confirmed" whatever its connection reads.
SeenOutcome(k) ==
    IF ReadsFinal(k) /\ CallOf(k).method \in ReporterMethods
    THEN finalOutcome[k] ELSE outcome[k]

\* What a look-up in ledger s takes for the account at a.  A wallet is one to
\* the commands; the methods decode the data of what they fetch, and there
\* are none.
Found(k, s, a) == \/ a \in DOMAIN s
                  \/ IsCommand(CallOf(k)) /\ a \in Funded \cup Foreign

GoTo(k, phase) ==
    session' = [session EXCEPT
                   ![k] = Busy(phase, session[k].read, session[k].id)]
Throw(k) == session' = [session EXCEPT ![k] = Idle]
Doubt(k) == doubts' = [doubts EXCEPT ![k] = @ + 1]
Fault == faults < MaxFaults /\ faults' = faults + 1

Call(k) == /\ InPhase(k, "idle")
           /\ Todo(k)
           /\ session' = [session EXCEPT ![k] = Busy("checking", 0, 0)]
           /\ UNCHANGED <<vars, answers, doubts, flying, running, outcome,
                          final, faults>>

\* The id of a new case is the counter in the community as it was read.
ReadsCounter(k) == OpensCase(CallOf(k)) /\ session[k].read = 0
Remember(k, a) == IF ReadsCounter(k) THEN Seen(k)[a].next_case_id
                  ELSE session[k].id

Pass(k, id) ==
    session' = [session EXCEPT
                   ![k] = Busy("checking", session[k].read + 1, id)]

LookingUp(k) == /\ InPhase(k, "checking")
                /\ session[k].read < Len(PlanNow(k).lookups)
LookUp(k) == PlanNow(k).lookups[session[k].read + 1]

\* The account is there, or missing, as it should be, and the one that holds
\* the counter can be read.
Confirms(k, l) == /\ Found(k, Seen(k), l.account) = l.present
                  /\ ReadsCounter(k) => l.account \in DOMAIN Seen(k)

\* Fault: the look-up is repeated until it finds what it should.
Check_Waits(k) ==
    /\ LookingUp(k)
    /\ Confirms(k, LookUp(k))
    /\ Pass(k, Remember(k, LookUp(k).account))
    /\ UNCHANGED <<vars, answers, doubts, flying, running, outcome, final,
                   faults>>

Check(k) == /\ LookingUp(k)
            /\ IF Confirms(k, LookUp(k))
               THEN Pass(k, Remember(k, LookUp(k).account))
               ELSE Throw(k)
            /\ UNCHANGED <<vars, answers, doubts, flying, running, outcome,
                           final, faults>>

Checked(k) == /\ InPhase(k, "checking")
              /\ session[k].read = Len(PlanNow(k).lookups)

\* A request fails before anything is sent.  Where an account should be missing,
\* the commands take the failure for that; a failed look-up of another, or of
\* the recent blockhash, which comes last, ends the call.
CheckFails(k) ==
    /\ LookingUp(k) \/ (Checked(k) /\ PlanNow(k).valid)
    /\ Fault
    /\ IF LookingUp(k) /\ ~LookUp(k).present
       THEN Pass(k, session[k].id) ELSE Throw(k)
    /\ UNCHANGED <<vars, answers, doubts, flying, running, outcome, final>>

\* The builder throws, or the configured key cannot sign.
Refuse(k) == /\ Checked(k)
             /\ ~PlanNow(k).valid
             /\ Throw(k)
             /\ UNCHANGED <<vars, answers, doubts, flying, running, outcome,
                            final, faults>>

\* A repeated call gets a new blockhash and so a new signature: its message
\* is another one than that of the call in doubt.
MessageOf(k) == [by |-> k, turn |-> doubts[k],
                 tx |-> Sent(k, PlanNow(k).built)]

Send(k) == /\ Checked(k)
           /\ PlanNow(k).valid
           /\ flying' = flying \cup {MessageOf(k)}
           /\ GoTo(k, "confirming")
           /\ outcome' = [outcome EXCEPT ![k] = Pending]
           /\ finalOutcome' = [finalOutcome EXCEPT ![k] = Pending]
           /\ UNCHANGED <<vars, answers, doubts, running, finalAccounts,
                          faults>>

-----------------------------------------------------------------------------
(* Waiting for the transaction, and fetching the account it was about.     *)

\* Fault: the call goes on after its answer.
Answer_GoesOn(k, data) ==
    /\ answers' = [answers EXCEPT
                      ![k] = Append(@, [id |-> session[k].id, data |-> data])]
    /\ UNCHANGED session

Answer(k, data) ==
    /\ answers' = [answers EXCEPT
                      ![k] = Append(@, [id |-> session[k].id, data |-> data])]
    /\ Throw(k)

\* What a command answers with: it prints the address.
NoData == << >>

\* Fault: the error of the transaction is not looked at.
Confirm_AnyOutcome(k) ==
    /\ InPhase(k, "confirming")
    /\ SeenOutcome(k) # Pending
    /\ IF IsCommand(CallOf(k)) THEN Answer(k, NoData)
       ELSE GoTo(k, "returning") /\ UNCHANGED answers
    /\ UNCHANGED <<vars, doubts, flying, running, outcome, final, faults>>

Confirm(k) ==
    /\ InPhase(k, "confirming")
    /\ SeenOutcome(k) # Pending
    /\ IF SeenOutcome(k) # Ok THEN Throw(k) /\ UNCHANGED answers
       ELSE IF IsCommand(CallOf(k)) THEN Answer(k, NoData)
       ELSE GoTo(k, "returning") /\ UNCHANGED answers
    /\ UNCHANGED <<vars, doubts, flying, running, outcome, final, faults>>

\* Is the client's message still going to land?
Underway(k) == \/ \E m \in flying : m.by = k /\ m.turn = doubts[k]
               \/ running # NoMessage /\ running.by = k
                  /\ running.turn = doubts[k]
               \/ outcome[k] # Pending

\* The client gives up waiting: a request for the status of its transaction
\* fails, or the news that it is there is lost or does not come in time.  The
\* transaction may have been executed by then, or land afterwards.
TimeOut(k) ==
    /\ InPhase(k, "confirming")
    /\ Underway(k)
    /\ Fault
    /\ Throw(k)
    /\ Doubt(k)
    /\ UNCHANGED <<vars, answers, flying, running, outcome, final>>

\* The message is lost: its blockhash expires without it.
GiveUp(k) ==
    /\ InPhase(k, "confirming")
    /\ ~Underway(k)
    /\ Throw(k)
    /\ Doubt(k)
    /\ UNCHANGED <<vars, answers, flying, running, outcome, final, faults>>

ReadBack(k) ==
    /\ InPhase(k, "returning")
    /\ LET a == PlanNow(k).account
       IN  IF a \in DOMAIN Seen(k)
           THEN Answer(k, Seen(k)[a]) /\ UNCHANGED doubts
           ELSE Throw(k) /\ Doubt(k) /\ UNCHANGED answers
    /\ UNCHANGED <<vars, flying, running, outcome, final, faults>>

\* Fault: a call whose result cannot be fetched starts over by itself.
ReadBackFails_StartsOver(k) ==
    /\ InPhase(k, "returning")
    /\ Fault
    /\ session' = [session EXCEPT ![k] = Busy("checking", 0, 0)]
    /\ UNCHANGED <<vars, answers, doubts, flying, running, outcome, final>>

ReadBackFails(k) ==
    /\ InPhase(k, "returning")
    /\ Fault
    /\ Throw(k)
    /\ Doubt(k)
    /\ UNCHANGED <<vars, answers, flying, running, outcome, final>>

ClientStep(k) == \/ Call(k) \/ Check(k) \/ CheckFails(k) \/ Refuse(k) \/ Send(k)
                 \/ Confirm(k) \/ TimeOut(k) \/ GiveUp(k)
                 \/ ReadBack(k) \/ ReadBackFails(k)

-----------------------------------------------------------------------------
(* The network and the chain.                                              *)

Land(m) == /\ Begin(m.tx)
           /\ flying' = flying \ {m}
           /\ running' = m
           /\ UNCHANGED <<session, answers, doubts, outcome, final, faults>>

Expire(m) == /\ Fault
             /\ flying' = flying \ {m}
             /\ UNCHANGED <<vars, session, answers, doubts, running, outcome,
                            final>>

Run == Process /\ UNCHANGED clientVars

\* Fault: a client takes any outcome for that of the message it waits for.
Settle_AnyTurn ==
    /\ Commit \/ Abort
    /\ running' = NoMessage
    /\ outcome' = [outcome EXCEPT ![running.by] = verdict]
    /\ UNCHANGED <<session, answers, doubts, flying, final, faults>>

\* Nobody waits any longer for the outcome of an earlier message.
Settle == /\ Commit \/ Abort
          /\ running' = NoMessage
          /\ outcome' = IF running.turn = doubts[running.by]
                        THEN [outcome EXCEPT ![running.by] = verdict]
                        ELSE outcome
          /\ UNCHANGED <<session, answers, doubts, flying, final, faults>>

\* Everything confirmed so far becomes final.
Finalize == /\ Lag
            /\ final # <<accounts, outcome>>
            /\ finalAccounts' = accounts
            /\ finalOutcome' = outcome
            /\ UNCHANGED <<vars, session, answers, doubts, flying, running,
                           outcome, faults>>

ChainStep == \/ \E m \in flying : Land(m) \/ Expire(m)
             \/ Run
             \/ Settle
             \/ Finalize

ClientsNext == (\E k \in Client : ClientStep(k)) \/ ChainStep

ClientsSpec == ClientInit /\ [][ClientsNext]_allVars
=============================================================================
