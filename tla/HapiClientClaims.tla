--------------------------- MODULE HapiClientClaims ---------------------------
(***************************************************************************)
(* What the comments of the JavaScript library say its methods return, and *)
(* they do not.  Each claim has a run in which TLC refutes it.             *)
(***************************************************************************)
EXTENDS HapiClientProperties

\* "@returns Transaction hash, account address and entity data"
\* (authority-client.ts:68): as long as no request fails and no message is
\* lost, a call whose transaction was executed returns these.
DoubtOnlyAfterFaults == faults = 0 => \A k \in Client : doubts[k] = 0

\* The authority edits a reporter of its community.
EditsReporter(k, c) ==
    LET community == CommunityAddress(c.community)
        reporter  == ReporterAddress(community, c.key)
    IN  /\ c.method \in {"updateReporter", "cmd_update_reporter"}
        /\ {community, reporter} \subseteq DOMAIN accounts
        /\ accounts[community].authority = k
        /\ accounts[reporter].account_type = "Reporter"

\* An active reporter edits an address, for a case that exists.
EditsAddress(k, c) ==
    LET community == CommunityAddress(c.community)
        reporter  == ReporterAddress(community, k)
    IN  /\ c.method \in {"updateAddress", "cmd_update_address"}
        /\ {reporter, CaseAddress(community, c.id), PlanOf(k, c, c.id).account}
               \subseteq DOMAIN accounts
        /\ accounts[reporter].account_type = "Reporter"
        /\ accounts[reporter].reporter_type # "Inactive"

MayEdit(k, c) == EditsReporter(k, c) \/ EditsAddress(k, c)

\* The transaction of client k's current call has failed.
Refused(k) == /\ running # NoMessage
              /\ running.by = k
              /\ running.turn = doubts[k]
              /\ verdict # Ok

\* "@returns Transaction hash, account address and updated entity data"
\* (authority-client.ts:274; reporter-client.ts:360): the edit of somebody who
\* is entitled to it, of a reporter or an address that exists, with either
\* client, finds the accounts it looks up and is executed.
EditsAccepted ==
    \A k \in Client :
        Todo(k) /\ MayEdit(k, CallOf(k)) =>
            /\ LookingUp(k) => Confirms(k, LookUp(k))
            /\ ~Refused(k)
===============================================================================
