------------------------------ MODULE MCClients ------------------------------
(* Instances of HapiClients for TLC: an authority that founds communities  *)
(* and reporters that race for case numbers.                               *)
EXTENDS HapiClientClaims, HapiService, TLC

CONSTANTS auth, alice, bob,     \* wallets
          sys, rent,            \* the system program, the rent sysvar
          n, m,                 \* names
          value                 \* a reported address

MCClient == {alice, bob}
MCNameLen == (n :> 1) @@ (m :> 28)

\* Everything the scripts can send, whatever the counter reads.
MCTransactions ==
    {Sent(k, PlanOf(k, Script[k][i], id).built) :
        <<k, i, id>> \in {x \in Client \X (1 .. 9) \X CaseId :
                             x[2] <= Len(Script[x[1]])}}
MCPubkey == {auth, alice, bob, sys, rent, value} \cup
            UNION {UNION {{ix.accounts[i] : i \in DOMAIN ix.accounts} :
                          ix \in {t.instructions[j] :
                                      j \in DOMAIN t.instructions}} :
                   t \in Transactions}

Founding(method, x, k) == [method |-> method, community |-> x, key |-> k]
Hiring(method, k)   == [method |-> method, community |-> n, key |-> k,
                        type |-> "Full", name |-> n]
Networking(method)  == [method |-> method, community |-> n, network |-> m]
Opening(method, x)  == [method |-> method, community |-> n, name |-> x]
Reporting(method, r) == [method |-> method, community |-> n, network |-> m,
                         value |-> value, id |-> 0, risk |-> r]
Closing(method, id) == [method |-> method, community |-> n, id |-> id,
                        status |-> "Closed"]

\* bob, the authority, uses the command line and reports, too; alice uses the
\* JavaScript library.  They race for the numbers; case 0 is alice's or bob's,
\* whoever is first, and only one of them may close it.  The last call is
\* refused by the client itself.  There is a second community, in which nobody
\* reports, by the name of the network.
RaceScript ==
    (bob :> <<Founding("cmd_create_community", m, bob),
              Founding("cmd_create_community", n, bob),
              Hiring("cmd_create_reporter", alice),
              Hiring("cmd_create_reporter", bob),
              Networking("cmd_create_network"),
              Opening("cmd_create_case", m),
              Reporting("cmd_create_address", 0),
              Closing("cmd_update_case", 0)>>) @@
    (alice :> <<Opening("createCase", n), Reporting("createAddress", 0),
                Closing("updateCase", 0), Reporting("updateAddress", 11)>>)

\* The same race, without addresses.
PatienceScript ==
    (bob :> <<Founding("cmd_create_community", n, bob),
              Hiring("cmd_create_reporter", alice),
              Hiring("cmd_create_reporter", bob),
              Opening("cmd_create_case", m), Closing("cmd_update_case", 0)>>) @@
    (alice :> <<Opening("createCase", n), Closing("updateCase", 0)>>)

\* The authority edits the reporter, who opens a case and edits what it has
\* reported.
EditingClient == {auth, alice}
EditingScript ==
    (auth :> <<Founding("createCommunity", n, auth), Networking("createNetwork"),
               Hiring("createReporter", alice),
               Hiring("updateReporter", alice)>>) @@
    (alice :> <<Opening("createCase", n), Reporting("cmd_create_address", 0),
                Reporting("cmd_update_address", 0)>>)
=============================================================================
