----------------------------- MODULE HapiService -----------------------------
(* The clients and the chain implement the service of CaseService: what a    *)
(* client waits for, what may still land behind its back, what the ledger    *)
(* holds of it and what it was answered.                                     *)
EXTENDS HapiClientProperties

\* The current call has asked for a case.
Asking(k) == Waiting(k) /\ OpensCase(CallOf(k))

\* The case that the current call of client k opens.
CaseNow(k) == CaseAddress(CommunityAddress(CallOf(k).community),
                          session[k].id)

\* The messages that have not been executed to the end.
OnTheWay == flying \cup {m \in {running} : m # NoMessage}

\* Those that open a case for client k.
Opens(m) == m.tx.instructions[1].op = "CreateCase"
Openings(k) == {m \in OnTheWay : m.by = k /\ Opens(m)}

\* Those among them that it does not wait for any more.
Belated(k) == {m \in Openings(k) : m.turn < doubts[k]}

\* What its current call has opened.
Gained(k) == IF Asking(k) /\ outcome[k] = Ok THEN {CaseNow(k)} ELSE {}

Told(k) == {CaseAnswered(k, i) : i \in CasesAnswered(k)}

Service ==
    INSTANCE CaseService
        WITH Case   <- {CaseAddress(CommunityAddress(name), id) :
                            name \in Name, id \in CaseId},
             asking <- {k \in Client : Asking(k)},
             opened <- [k \in Client |-> Gained(k)],
             late   <- [k \in Client |-> Cardinality(Belated(k))],
             owned  <- [k \in Client |-> CasesOf(k)],
             told   <- [k \in Client |-> Told(k)]

\* A call opens at most one case, and its answer is the case that this call
\* has opened; a refused call opens nothing, then or later; and what lands
\* after its call ended in doubt opens a case of its own, and is never taken
\* for what the next call has sent (reporter-client.ts:105-127,
\* cmd_create_case.rs:27-58).
ImplementsService == Service!Spec
==============================================================================
