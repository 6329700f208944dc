--------------------------- MODULE HapiJsBuilders ---------------------------
(***************************************************************************)
(* The instruction builders of the JavaScript library (js/src/instructions)*)
(* They derive the same addresses as the Rust builders and list the        *)
(* accounts on their own.  There is none for UpdateCommunity and           *)
(* UpdateNetwork.                                                          *)
(***************************************************************************)
EXTENDS HapiBuilders

SYSTEM_RENT_KEYS == <<System, RentSysvar>>

\* The arguments a builder does not throw on.
NameWithin28(name) == NameLen[name] <= 28
RiskInRange(risk) == risk \in 0 .. 10

-----------------------------------------------------------------------------
createCommunityInstruction(payer, name) ==
    LET community == CommunityAddress(name)
    IN  Built([op |-> "CreateCommunity", name |-> name,
               accounts |-> <<payer, community>> \o SYSTEM_RENT_KEYS],
              {payer}, {payer, community})

createNetworkInstructions(payer, communityName, name) ==
    LET community == CommunityAddress(communityName)
        network   == NetworkAddress(community, name)
    IN  Built([op |-> "CreateNetwork", name |-> name,
               accounts |-> <<payer, network, community>> \o SYSTEM_RENT_KEYS],
              {payer}, {payer, network})

createReporterInstructions(payer, communityName, key, type, name) ==
    LET community == CommunityAddress(communityName)
        reporter  == ReporterAddress(community, key)
    IN  Built([op |-> "CreateReporter", reporter_type |-> type, name |-> name,
               accounts |-> <<payer, community, key, reporter>>
                            \o SYSTEM_RENT_KEYS],
              {payer}, {community, reporter})

\* The key comes before the account, as in CreateReporter; the handler of
\* UpdateReporter takes the account first.
updateReporterInstructions(payer, communityName, key, type, name) ==
    LET community == CommunityAddress(communityName)
        reporter  == ReporterAddress(community, key)
    IN  Built([op |-> "UpdateReporter", reporter_type |-> type, name |-> name,
               accounts |-> <<payer, community, key, reporter>>],
              {payer}, {community, reporter})

-----------------------------------------------------------------------------
createCaseInstruction(payer, communityName, id, name, status, categories) ==
    LET community == CommunityAddress(communityName)
        case      == CaseAddress(community, id)
    IN  Built([op |-> "CreateCase", case_id |-> id, name |-> name,
               status |-> status, categories |-> categories,
               accounts |-> <<payer, community,
                              ReporterAddress(community, payer), case>>
                            \o SYSTEM_RENT_KEYS],
              {payer}, {payer, community, case})

updateCaseInstruction(payer, communityName, id, status, categories) ==
    LET community == CommunityAddress(communityName)
        case      == CaseAddress(community, id)
    IN  Built([op |-> "UpdateCase", status |-> status,
               categories |-> categories,
               accounts |-> <<payer, community,
                              ReporterAddress(community, payer), case>>],
              {payer}, {payer, case})

\* Fault: the network is looked for in the community of its own name.
createAddressInstruction_OwnName(payer, communityName, networkName, value, id, risk, category) ==
    LET community == CommunityAddress(communityName)
        network   == NetworkAddress(CommunityAddress(networkName), networkName)
        address   == AddressAddress(network, value)
    IN  Built([op |-> "CreateAddress", address |-> value, risk |-> risk,
               case_id |-> id, category |-> category,
               accounts |-> <<payer, community, network,
                              ReporterAddress(community, payer),
                              CaseAddress(community, id), address>>
                            \o SYSTEM_RENT_KEYS],
              {payer}, {payer, community, address})

createAddressInstruction(payer, communityName, networkName, value, id, risk, category) ==
    LET community == CommunityAddress(communityName)
        network   == NetworkAddress(community, networkName)
        address   == AddressAddress(network, value)
    IN  Built([op |-> "CreateAddress", address |-> value, risk |-> risk,
               case_id |-> id, category |-> category,
               accounts |-> <<payer, community, network,
                              ReporterAddress(community, payer),
                              CaseAddress(community, id), address>>
                            \o SYSTEM_RENT_KEYS],
              {payer}, {payer, community, address})

\* The network is listed third; the handler of UpdateAddress takes no network
\* and finds it where it expects the reporter.
updateAddressInstruction(payer, communityName, networkName, value, id, risk, category) ==
    LET community == CommunityAddress(communityName)
        network   == NetworkAddress(community, networkName)
        address   == AddressAddress(network, value)
    IN  Built([op |-> "UpdateAddress", risk |-> risk, case_id |-> id,
               category |-> category,
               accounts |-> <<payer, community, network,
                              ReporterAddress(community, payer),
                              CaseAddress(community, id), address>>],
              {payer}, {payer, address})
=============================================================================
