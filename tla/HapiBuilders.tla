---------------------------- MODULE HapiBuilders ----------------------------
(***************************************************************************)
(* The instruction builders of the Rust crate (program/src/instruction):   *)
(* each derives the PDAs, lists the accounts in the handler's order and    *)
(* marks which of them sign and which are written.  The command line tool  *)
(* and the program's own tests build their transactions with these.        *)
(*                                                                         *)
(* A built instruction is [ix, signers, writable]; Message puts one or     *)
(* more of them into a transaction.                                        *)
(***************************************************************************)
EXTENDS HapiProcessor

System == SystemProgram

Built(ix, signers, writable) ==
    [ix |-> ix, signers |-> signers, writable |-> writable]

\* The runtime compiles all account metas of a message into one list: a key
\* that signs or is writable in one instruction is so in all of them.
Message(built) ==
    LET parts == {built[i] : i \in DOMAIN built}
    IN  [signers      |-> UNION {b.signers : b \in parts},
         writable     |-> UNION {b.writable : b \in parts},
         instructions |-> [i \in DOMAIN built |-> built[i].ix]]

-----------------------------------------------------------------------------
create_community(authority, name) ==
    LET community == CommunityAddress(name)
    IN  Built([op |-> "CreateCommunity", name |-> name,
               accounts |-> <<authority, community, System, RentSysvar>>],
              {authority}, {authority, community})

\* newAuthority is << >> (None) or <<key>> (Some)
update_community(authority, newAuthority, name) ==
    LET community == CommunityAddress(name)
        handover  == {newAuthority[i] : i \in DOMAIN newAuthority}
    IN  Built([op |-> "UpdateCommunity",
               accounts |-> <<authority, community>> \o newAuthority],
              {authority}, {authority, community} \cup handover)

create_network(authority, communityName, name) ==
    LET community == CommunityAddress(communityName)
        network   == NetworkAddress(community, name)
    IN  Built([op |-> "CreateNetwork", name |-> name,
               accounts |-> <<authority, network, community, System,
                              RentSysvar>>],
              {authority}, {authority, network})

update_network(authority, communityName, name) ==
    LET community == CommunityAddress(communityName)
        network   == NetworkAddress(community, name)
    IN  Built([op |-> "UpdateNetwork",
               accounts |-> <<authority, community, network>>],
              {authority}, {network})

create_reporter(payer, communityName, name, key, type) ==
    LET community == CommunityAddress(communityName)
        reporter  == ReporterAddress(community, key)
    IN  Built([op |-> "CreateReporter", name |-> name, reporter_type |-> type,
               accounts |-> <<payer, community, key, reporter, System,
                              RentSysvar>>],
              {payer}, {payer, reporter})

update_reporter(authority, communityName, name, key, type) ==
    LET community == CommunityAddress(communityName)
        reporter  == ReporterAddress(community, key)
    IN  Built([op |-> "UpdateReporter", name |-> name, reporter_type |-> type,
               accounts |-> <<authority, community, reporter, key>>],
              {authority}, {reporter})

-----------------------------------------------------------------------------
create_case(reporter, communityName, id, name, status, categories) ==
    LET community == CommunityAddress(communityName)
        case      == CaseAddress(community, id)
    IN  Built([op |-> "CreateCase", case_id |-> id, name |-> name,
               status |-> status, categories |-> categories,
               accounts |-> <<reporter, community,
                              ReporterAddress(community, reporter), case,
                              System, RentSysvar>>],
              {reporter}, {reporter, community, case})

update_case(reporter, communityName, id, status, categories) ==
    LET community == CommunityAddress(communityName)
        case      == CaseAddress(community, id)
    IN  Built([op |-> "UpdateCase", status |-> status,
               categories |-> categories,
               accounts |-> <<reporter, community,
                              ReporterAddress(community, reporter), case>>],
              {reporter}, {reporter, case})

create_address(reporter, communityName, networkName, value, id, risk, category) ==
    LET community == CommunityAddress(communityName)
        network   == NetworkAddress(community, networkName)
        address   == AddressAddress(network, value)
    IN  Built([op |-> "CreateAddress", address |-> value, risk |-> risk,
               case_id |-> id, category |-> category,
               accounts |-> <<reporter, community, network,
                              ReporterAddress(community, reporter),
                              CaseAddress(community, id), address, System,
                              RentSysvar>>],
              {reporter}, {reporter, address})

\* The case is looked up under the network, not under the community, and the
\* address is not writable.
update_address(reporter, communityName, networkName, value, id, risk, category) ==
    LET community == CommunityAddress(communityName)
        network   == NetworkAddress(community, networkName)
    IN  Built([op |-> "UpdateAddress", risk |-> risk, case_id |-> id,
               category |-> category,
               accounts |-> <<reporter, community,
                              ReporterAddress(community, reporter),
                              CaseAddress(network, id),
                              AddressAddress(network, value)>>],
              {reporter}, {reporter})
=============================================================================
