------------------------- MODULE HapiClientProperties -------------------------
(***************************************************************************)
(* What a client may rely on: its answers tell the truth, a call that is   *)
(* refused has done nothing, and a client that keeps trying gets through.  *)
(***************************************************************************)
EXTENDS HapiProperties, HapiClients

Session == {Idle} \cup [phase : {"checking", "confirming", "returning"},
                        read : Nat, id : CaseId]

AnswerType == [id : CaseId, data : AccountData \cup {NoData}]

\* Every client variable has its type; a call is under way only when one is
\* left to make, and what is in flight is a transaction of the ledger.
ClientTypeOK ==
    /\ session \in [Client -> Session]
    /\ answers \in [Client -> Seq(AnswerType)]
    /\ \A k \in Client : session[k] # Idle => Todo(k)
    /\ doubts \in [Client -> Nat]
    /\ \A m \in flying : m.by \in Client /\ m.tx \in Transactions
    /\ running # NoMessage => running.by \in Client /\ tx # NoTx
    /\ outcome \in [Client -> VerdictType \cup {Pending}]
    /\ IsLedger(finalAccounts)
    /\ finalOutcome \in [Client -> VerdictType \cup {Pending}]
    /\ faults \in 0 .. MaxFaults

-----------------------------------------------------------------------------
Answered(k) == 1 .. Len(answers[k])
CasesAnswered(k) == {i \in Answered(k) : OpensCase(Script[k][i])}

\* The case account the i-th answer of client k stands for.
CaseAnswered(k, i) == CaseAddress(CommunityAddress(Script[k][i].community),
                                  answers[k][i].id)

TrueAnswer(k, i) ==
    LET a    == CaseAnswered(k, i)
        mine == [reporter_key |-> k, name |-> Script[k][i].name]
    IN  /\ a \in DOMAIN accounts
        /\ \A f \in DOMAIN mine : accounts[a][f] = mine[f]
        /\ answers[k][i].data # NoData =>
               \A f \in DOMAIN mine : answers[k][i].data[f] = mine[f]

\* Whoever is told that a case was opened finds under that number a case of
\* its own, with the name it asked for, never the case of a rival that read
\* the same counter; and no two answers are the same case
\* (reporter-client.ts:105-127, cmd_create_case.rs:27-58).
AnswersAreTrue ==
    /\ \A k \in Client : \A i \in CasesAnswered(k) : TrueAnswer(k, i)
    /\ \A k1, k2 \in Client :
           \A i \in CasesAnswered(k1), j \in CasesAnswered(k2) :
               CaseAnswered(k1, i) = CaseAnswered(k2, j) => k1 = k2 /\ i = j

CasesOf(k) == {a \in DOMAIN accounts : /\ accounts[a].account_type = "Case"
                                       /\ accounts[a].reporter_key = k}

\* A call that opens a case, between sending and knowing how it ended.
Waiting(k) == session[k].phase \in {"confirming", "returning"}

\* A client has no case it does not know of, but for the calls that ended in
\* doubt: a refusal by the program means that nothing was opened, and a
\* repeated call opens a second case only after a wait that was given up or a
\* failed read-back (reporter-client.ts:114-125, cmd_create_case.rs:56).
CasesAccountedFor ==
    \A k \in Client :
        Cardinality(CasesOf(k)) <= Cardinality(CasesAnswered(k)) + doubts[k]
                                   + (IF Waiting(k) THEN 1 ELSE 0)

\* Clients that do not use AuthorityClient, which may read an account before
\* it is final.
Consistent == {k \in Client : \A i \in 1 .. Len(Script[k]) :
                                  Script[k][i].method \notin AuthorityMethods}

\* The calls of these clients that ended in doubt, numbered for each client.
DoubtsOf(clients) == UNION {{k} \X (1 .. doubts[k]) : k \in clients}

\* Every call of theirs that ends in doubt has cost a failure of its own: what
\* they wait for, with sendAndConfirmTransaction or at "confirmed", is there
\* when they look for it, however far the finalized state lags behind
\* (reporter-client.ts:114-127, cmd_create_case.rs:56).
DoubtsComeFromFaults ==
    Cardinality(DoubtsOf(Consistent)) <= faults

\* Addresses are reported only in networks that exist.  The program does not
\* check it; both clients do, some time before the transaction lands
\* (reporter-client.ts:235-241, cmd_create_address.rs:28), and what they saw
\* cannot be gone by then.
ClientsReportInNetworks ==
    \A a \in DOMAIN accounts :
        accounts[a].account_type = "Address" =>
            /\ a[2] \in DOMAIN accounts
            /\ accounts[a[2]].account_type = "Network"

\* A client that lost the race for a number is told so by the account that
\* exists by then: its number, read from the counter, can only be behind.
LosersAreBehind ==
    running # NoMessage => verdict \notin {"InvalidInstruction", "InvalidSeeds"}

-----------------------------------------------------------------------------
(***************************************************************************)
(* Liveness.  The clients' requests are answered and the node processes    *)
(* what it has accepted: weak fairness of every step, failures excepted;   *)
(* they are bounded by MaxFaults.  That a client repeats a call until it   *)
(* is answered is its user's patience, and part of the fairness of Call.   *)
(***************************************************************************)
Diligent(k) == Call(k) \/ Check(k) \/ Refuse(k) \/ Send(k) \/ Confirm(k)
               \/ GiveUp(k) \/ ReadBack(k)

Fairness == /\ \A k \in Client : WF_allVars(Diligent(k))
            /\ \A k \in Client :
                   SF_allVars(\E m \in flying : m.by = k /\ Land(m))
            /\ WF_allVars(Run \/ Settle)
            /\ WF_allVars(Finalize)

FairSpec == ClientsSpec /\ Fairness

\* Every call ends, with an answer or an error: no client waits for ever,
\* whether its message lands, fails or is lost.
CallsEnd == \A k \in Client : ~InPhase(k, "idle") ~> InPhase(k, "idle")

OpeningCase(k) == Todo(k) /\ OpensCase(CallOf(k))

MayOpen(k) ==
    LET r == ReporterAddress(CommunityAddress(CallOf(k).community), k)
    IN  /\ r \in DOMAIN accounts
        /\ accounts[r].account_type = "Reporter"
        /\ accounts[r].reporter_type \in {"Full", "Authority"}

\* A reporter who is allowed to open cases and keeps trying is answered: a
\* lost race for a number means that somebody else's case was opened, and the
\* others have only so many to open.
PatienceIsRewarded ==
    \A k \in Client : (OpeningCase(k) /\ MayOpen(k)) ~> ~OpeningCase(k)
===============================================================================
