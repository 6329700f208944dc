----------------------------- MODULE HapiReaders -----------------------------
(***************************************************************************)
(* Who reads the accounts: the commands that print one (cli/src/command/   *)
(* cmd_get_*.rs) or list them, and the ReaderClient of the library with  *)
(* the retrieve methods of its classes.  They derive the address, fetch    *)
(* the bytes and decode them by the layout of the kind they expect; none   *)
(* of them looks at what kind of account they have got.  They change       *)
(* nothing.                                                                *)
(***************************************************************************)
EXTENDS HapiWire

\* The request or the decoding fails: an error, or an exception.
NotShown == [shown |-> FALSE]
Shown(data) == [shown |-> TRUE, data |-> data]

\* rpc_client.get_account_data(&account)? and try_from_slice_unchecked(..)?
View(kind, a) ==
    IF a \notin DOMAIN cells THEN NotShown
    ELSE LET read == try_from_slice_unchecked(AccountLayout[kind], cells[a])
         IN  IF read.ok THEN Shown(read.struct) ELSE NotShown

cmd_get_community(community) ==
    View("Community", CommunityAddress(community))

cmd_get_network(community, network) ==
    View("Network", NetworkAddress(CommunityAddress(community), network))

cmd_get_reporter(community, key) ==
    View("Reporter", ReporterAddress(CommunityAddress(community), key))

cmd_get_case(community, id) ==
    View("Case", CaseAddress(CommunityAddress(community), id))

cmd_get_address(community, network, value) ==
    View("Address",
          AddressAddress(NetworkAddress(CommunityAddress(community), network),
                         value))

\* The listing reads an account as what its first byte says.  It has no branch
\* for communities, where it panics, and stops with an error at data that do not
\* decode.
EndsListing(a) ==
    \/ KindOf(cells[a]) \notin {"Reporter", "Network", "Case", "Address"}
    \/ ~View(KindOf(cells[a]), a).shown

\* What is printed when the node returns the accounts in this order: one after
\* the other, up to the first that ends the listing.
cmd_list_accounts(order) ==
    LET printed == {i \in DOMAIN order :
                        \A j \in 1 .. i : ~EndsListing(order[j])}
    IN  [i \in printed |-> View(KindOf(cells[order[i]]), order[i])]

-----------------------------------------------------------------------------
\* connection.getAccountInfo, an exception if there is none, deserialize
retrieve(kind, a) ==
    IF a \in DOMAIN cells THEN Shown(deserialize(kind, cells[a])) ELSE NotShown

getCommunity(community) == retrieve("Community", CommunityAddress(community))

getNetwork(network, community) ==
    retrieve("Network", NetworkAddress(CommunityAddress(community), network))

getReporter(key, community) ==
    retrieve("Reporter", ReporterAddress(CommunityAddress(community), key))

\* Case.getAddress takes whatever bytes the id turns itself into for a seed;
\* those that are no number of eight bytes lead to no account of the program.
getCase(id, community) ==
    LET seed == toBuffer(id)
    IN  IF Len(seed) = 8
        THEN retrieve("Case", CaseAddress(CommunityAddress(community),
                                          fromBuffer(seed)))
        ELSE NotShown

getAddress(value, network, community) ==
    retrieve("Address",
             AddressAddress(NetworkAddress(CommunityAddress(community),
                                           network), value))
===============================================================================
