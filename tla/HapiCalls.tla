------------------------------ MODULE HapiCalls ------------------------------
(***************************************************************************)
(* The calls of the two client programs: the methods of the JavaScript     *)
(* AuthorityClient and ReporterClient, and the commands of the command     *)
(* line tool.  All of them go through the same steps: look up some         *)
(* accounts, build a transaction, send it, wait for it to be confirmed;    *)
(* the JavaScript methods then fetch the account they have worked on.      *)
(*                                                                         *)
(* A call is a record [method, community, ...] with the arguments of its   *)
(* method.  Its plan says what it looks up and in which order, whether its *)
(* arguments pass the client's own checks (made after the look-ups), what  *)
(* it sends, and which account it returns.                                 *)
(*                                                                         *)
(* Only creating a case uses what a look-up finds: it takes the id from    *)
(* the community's counter.  id is that number; the other calls are given  *)
(* theirs as an argument.                                                  *)
(***************************************************************************)
EXTENDS HapiJsBuilders

\* A look-up, of an account that has to be there or has to be missing.
Exists(a)  == [account |-> a, present |-> TRUE]
Missing(a) == [account |-> a, present |-> FALSE]

Plan(lookups, valid, built, account) ==
    [lookups |-> lookups, valid |-> valid, built |-> built,
     account |-> account]

\* The client signs with its own key alone and pays the fee.
Sent(key, built) == Message(<<[built EXCEPT !.writable = @ \cup {key}]>>)

-----------------------------------------------------------------------------
(* AuthorityClient and ReporterClient.                                     *)

createCommunity(key, c) ==
    Plan(<< >>, NameWithin28(c.community),
         createCommunityInstruction(key, c.community),
         CommunityAddress(c.community))

createNetwork(key, c) ==
    Plan(<< >>, NameWithin28(c.network),
         createNetworkInstructions(key, c.community, c.network),
         NetworkAddress(CommunityAddress(c.community), c.network))

createReporter(key, c) ==
    Plan(<< >>, NameWithin28(c.name),
         createReporterInstructions(key, c.community, c.key, c.type, c.name),
         ReporterAddress(CommunityAddress(c.community), c.key))

updateReporter(key, c) ==
    Plan(<< >>, NameWithin28(c.name),
         updateReporterInstructions(key, c.community, c.key, c.type, c.name),
         ReporterAddress(CommunityAddress(c.community), c.key))

\* Case.retrieve hands back the address of the community with the case.
createCase(key, c, id) ==
    LET community == CommunityAddress(c.community)
    IN  Plan(<<Exists(community)>>, NameWithin28(c.name),
             createCaseInstruction(key, c.community, id, c.name, "Open", 0),
             CaseAddress(community, id))

updateCase(key, c) ==
    LET community == CommunityAddress(c.community)
        case      == CaseAddress(community, c.id)
    IN  Plan(<<Exists(community), Exists(case)>>, TRUE,
             updateCaseInstruction(key, c.community, c.id, c.status, 0), case)

\* Fault: the network is not looked up.
createAddress_AnyNetwork(key, c) ==
    LET community == CommunityAddress(c.community)
        network   == NetworkAddress(community, c.network)
    IN  Plan(<<Exists(community), Exists(CaseAddress(community, c.id))>>,
             RiskInRange(c.risk),
             createAddressInstruction(key, c.community, c.network, c.value,
                                      c.id, c.risk, 0),
             AddressAddress(network, c.value))

createAddress(key, c) ==
    LET community == CommunityAddress(c.community)
        network   == NetworkAddress(community, c.network)
    IN  Plan(<<Exists(community), Exists(network),
               Exists(CaseAddress(community, c.id))>>,
             RiskInRange(c.risk),
             createAddressInstruction(key, c.community, c.network, c.value,
                                      c.id, c.risk, 0),
             AddressAddress(network, c.value))

updateAddress(key, c) ==
    Plan(<< >>, RiskInRange(c.risk),
         updateAddressInstruction(key, c.community, c.network, c.value, c.id,
                                  c.risk, 0),
         AddressAddress(NetworkAddress(CommunityAddress(c.community),
                                       c.network), c.value))

-----------------------------------------------------------------------------
(***************************************************************************)
(* The commands.  c.key is a wallet given on the command line: it has to   *)
(* exist as an account of its own.                                         *)
(***************************************************************************)

\* Only the configured key can sign, whatever authority is asked for.
cmd_create_community(key, c) ==
    LET community == CommunityAddress(c.community)
    IN  Plan(<<Exists(c.key), Missing(community)>>, key = c.key,
             create_community(c.key, c.community), community)

cmd_create_network(key, c) ==
    LET community == CommunityAddress(c.community)
        network   == NetworkAddress(community, c.network)
    IN  Plan(<<Exists(community), Missing(network)>>, TRUE,
             create_network(key, c.community, c.network), network)

cmd_create_reporter(key, c) ==
    LET community == CommunityAddress(c.community)
        reporter  == ReporterAddress(community, c.key)
    IN  Plan(<<Exists(community), Exists(c.key), Missing(reporter)>>, TRUE,
             create_reporter(key, c.community, c.name, c.key, c.type),
             reporter)

\* The builder is given the reporter's account in place of its key.
cmd_update_reporter(key, c) ==
    LET community == CommunityAddress(c.community)
        reporter  == ReporterAddress(community, c.key)
    IN  Plan(<<Exists(community), Exists(c.key), Exists(reporter)>>, TRUE,
             update_reporter(key, c.community, c.name, reporter, c.type),
             reporter)

cmd_create_case(key, c, id) ==
    LET community == CommunityAddress(c.community)
        case      == CaseAddress(community, id)
    IN  Plan(<<Exists(community), Missing(case)>>, TRUE,
             create_case(key, c.community, id, c.name, "Open", 0), case)

cmd_update_case(key, c) ==
    LET case == CaseAddress(CommunityAddress(c.community), c.id)
    IN  Plan(<<Exists(case)>>, TRUE,
             update_case(key, c.community, c.id, c.status, 0), case)

cmd_create_address(key, c) ==
    LET community == CommunityAddress(c.community)
        network   == NetworkAddress(community, c.network)
        address   == AddressAddress(network, c.value)
    IN  Plan(<<Exists(network), Exists(CaseAddress(community, c.id)),
               Missing(address)>>, TRUE,
             create_address(key, c.community, c.network, c.value, c.id,
                            c.risk, 0), address)

\* The case is looked up under the network, where no case ever is.
cmd_update_address(key, c) ==
    LET network == NetworkAddress(CommunityAddress(c.community), c.network)
        address == AddressAddress(network, c.value)
    IN  Plan(<<Exists(network), Exists(CaseAddress(network, c.id)),
               Exists(address)>>, TRUE,
             update_address(key, c.community, c.network, c.value, c.id,
                            c.risk, 0), address)

-----------------------------------------------------------------------------
PlanOf(key, c, id) ==
    CASE c.method = "createCommunity"      -> createCommunity(key, c)
      [] c.method = "createNetwork"        -> createNetwork(key, c)
      [] c.method = "createReporter"       -> createReporter(key, c)
      [] c.method = "updateReporter"       -> updateReporter(key, c)
      [] c.method = "createCase"           -> createCase(key, c, id)
      [] c.method = "updateCase"           -> updateCase(key, c)
      [] c.method = "createAddress"        -> createAddress(key, c)
      [] c.method = "updateAddress"        -> updateAddress(key, c)
      [] c.method = "cmd_create_community" -> cmd_create_community(key, c)
      [] c.method = "cmd_create_network"   -> cmd_create_network(key, c)
      [] c.method = "cmd_create_reporter"  -> cmd_create_reporter(key, c)
      [] c.method = "cmd_update_reporter"  -> cmd_update_reporter(key, c)
      [] c.method = "cmd_create_case"      -> cmd_create_case(key, c, id)
      [] c.method = "cmd_update_case"      -> cmd_update_case(key, c)
      [] c.method = "cmd_create_address"   -> cmd_create_address(key, c)
      [] c.method = "cmd_update_address"   -> cmd_update_address(key, c)

\* The methods of AuthorityClient, and the commands: both wait until their
\* transaction is "confirmed".  ReporterClient waits for the commitment its
\* connection was opened with.
AuthorityMethods == {"createCommunity", "createNetwork", "createReporter",
                     "updateReporter"}
ReporterMethods  == {"createCase", "updateCase", "createAddress",
                     "updateAddress"}
CommandMethods   == {"cmd_create_community", "cmd_create_network",
                     "cmd_create_reporter", "cmd_update_reporter",
                     "cmd_create_case", "cmd_update_case",
                     "cmd_create_address", "cmd_update_address"}
IsCommand(c) == c.method \in CommandMethods
OpensCase(c) == c.method \in {"createCase", "cmd_create_case"}
AddsAddress(c) == c.method \in {"createAddress", "cmd_create_address"}
=============================================================================
