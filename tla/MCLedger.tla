------------------------------ MODULE MCLedger ------------------------------
(***************************************************************************)
(* Instances of HapiLedger for TLC: the keys, the names and the            *)
(* transactions the authorities and the reporters submit.  Each .cfg picks *)
(* one set of transactions.                                                *)
(***************************************************************************)
EXTENDS HapiRefinement, HapiClaims, HapiBuilders, TLC

CONSTANTS auth, alice, bob,     \* wallets
          sys, rent,            \* the system program, the rent sysvar
          n, m, long,           \* names
          value                 \* a reported address

MCNameLen == (n :> 1) @@ (m :> 28) @@ (long :> 32)

\* The keys a set of transactions names, and the wallets.
Named(set) == {auth, alice, bob, sys, rent, value} \cup
              UNION {UNION {{ix.accounts[i] : i \in DOMAIN ix.accounts} :
                            ix \in {t.instructions[j] :
                                        j \in DOMAIN t.instructions}} :
                     t \in set}
MCPubkey == Named(Transactions)

Single(built) == {Message(<<b>>) : b \in built}

-----------------------------------------------------------------------------
(* One community, two reporters whose roles the authority changes, three   *)
(* case ids: the counter reaches its end.                                  *)

Reporters == {alice, bob}
Founding == {create_community(auth, n)}
Roles == {"Inactive", "Full", "Authority"}
Staffing == {create_reporter(auth, n, n, k, "Full") : k \in Reporters}
Restaffing == {update_reporter(auth, n, n, k, r) : k \in Reporters, r \in Roles}
Opening == {create_case(k, n, id, name, "Open", 0) :
                k \in Reporters, id \in CaseId, name \in {n, long}}
Closing == {update_case(k, n, id, st, 0) :
                k \in Reporters, id \in CaseId, st \in CaseStatus}

\* Several instructions in one transaction: two cases in a row, the same id
\* twice, a failure after a case was created, data that is no instruction.
Garbled == Built([op |-> "Malformed", accounts |-> <<alice>>], {alice}, {})
Batches ==
    {Message(<<create_case(alice, n, 0, n, "Open", 0), Garbled>>)} \cup
    {Message(<<create_case(alice, n, 0, n, "Open", 0),
               create_case(alice, n, i, x, "Open", 0)>>) :
         i \in {0, 1}, x \in {n, long}}

\* Bob signs with the reporter account of alice.
WithAccount(b, i, key) == [b EXCEPT !.ix.accounts[i] = key]
Borrowed == {WithAccount(create_case(bob, n, 0, n, "Open", 0), 3,
                         ReporterAddress(CommunityAddress(n), alice))}

CaseTransactions ==
    Single(Founding \cup Staffing \cup Restaffing \cup Opening \cup Closing
           \cup Borrowed)
    \cup Batches

-----------------------------------------------------------------------------
(* Two communities, n and m, with networks, addresses and a change of      *)
(* authority in n; alice reports in both.                                  *)

Authorities == {auth, bob}
Foundings == {create_community(auth, n), create_community(bob, m),
              create_community(auth, long)}
Handovers == {update_community(auth, <<bob>>, n),
              update_community(bob, <<auth>>, n),
              update_community(bob, << >>, n)}
Networks == {create_network(k, n, n) : k \in Authorities}
            \cup {create_network(bob, m, n), create_network(auth, n, long),
                  update_network(auth, n, n)}
Staff == {create_reporter(k, n, n, alice, "Full") : k \in Authorities}
         \cup {create_reporter(bob, m, n, alice, "Tracer"),
               create_reporter(bob, m, long, alice, "Tracer")}
         \cup {update_reporter(auth, n, n, alice, r) : r \in {"Inactive", "Full"}}
         \cup {update_reporter(bob, m, x, alice, "Authority") : x \in {n, long}}
Cases == {create_case(alice, x, 0, n, "Open", 0) : x \in {n, m}}

\* An address in an existing network, and one whose network path was never
\* created; alice cites the case of the community she reports in.
Reported == {create_address(alice, x, y, value, 0, 0, 0) :
                 x \in {n, m}, y \in {n}}
            \cup {create_address(alice, n, m, value, 0, 0, 0)}

\* UpdateAddress with the accounts the handler takes, in its order, and the
\* flags its documentation gives them (instruction/mod.rs:160-165).
documented_update_address(reporter, communityName, networkName, v, id, risk) ==
    LET community == CommunityAddress(communityName)
        network   == NetworkAddress(community, networkName)
        address   == AddressAddress(network, v)
    IN  Built([op |-> "UpdateAddress", risk |-> risk, case_id |-> id,
               category |-> 0,
               accounts |-> <<reporter, community,
                              ReporterAddress(community, reporter),
                              CaseAddress(community, id), address>>],
              {reporter}, {reporter, address})

\* Every flag is the sender's: alice alone may mark her own reporter's account
\* as one that is written.
Overwriting == [documented_update_address(alice, n, n, value, 0, 1)
                    EXCEPT !.writable =
                        @ \cup {ReporterAddress(CommunityAddress(n), alice)}]

Revised == {update_address(alice, n, n, value, 0, 0, 0),
            documented_update_address(alice, n, n, value, 0, 1), Overwriting}

\* Built for one community and edited for another: the reporter of m with the
\* case of n, with a case of n to cite, with a network of n; and a call for n
\* with the account that alice has in m as a reporter.
CrossedUpdate ==
    LET case == CaseAddress(CommunityAddress(n), 0)
    IN  [WithAccount(update_case(alice, m, 0, "Closed", 0), 4, case)
             EXCEPT !.writable = @ \cup {case}]

CrossedAddress ==
    LET network == NetworkAddress(CommunityAddress(n), n)
        address == AddressAddress(network, value)
    IN  [WithAccount(WithAccount(create_address(alice, m, n, value, 0, 0, 0),
                                 3, network), 6, address)
             EXCEPT !.writable = @ \cup {address}]

Crossed == {CrossedUpdate, CrossedAddress,
            WithAccount(update_case(alice, n, 0, "Closed", 0), 3,
                        ReporterAddress(CommunityAddress(m), alice)),
            WithAccount(create_address(alice, m, n, value, 0, 0, 0), 5,
                        CaseAddress(CommunityAddress(n), 0))}

\* Arguments that do not go with the accounts: a network under another name,
\* an address that cites a case with the account of another.
Mismatched ==
    {[WithAccount(create_network(bob, m, n), 2,
                  NetworkAddress(CommunityAddress(m), long))
         EXCEPT !.writable =
                    @ \cup {NetworkAddress(CommunityAddress(m), long)}],
     WithAccount(create_address(alice, n, n, value, 1, 0, 0), 5,
                 CaseAddress(CommunityAddress(n), 0))}

\* Ill-formed calls: an unsigned one, one with accounts missing, one with the
\* accounts of another program, one without the rent sysvar.
Malformed ==
    {[create_network(bob, n, n) EXCEPT !.signers = {}],
     [create_case(alice, n, 0, n, "Open", 0) EXCEPT
         !.ix.accounts = SubSeq(@, 1, 4)],
     WithAccount(create_case(alice, n, 0, n, "Open", 0), 6, sys),
     WithAccount(create_network(auth, n, n), 3, rent)}

\* The authority renames a reporter in the transaction in which the reporter
\* revises an address: the message may then write the reporter's account.
Renaming == {Message(<<update_reporter(auth, n, n, alice, "Full"),
                       documented_update_address(alice, n, n, value, 0, 1)>>)}

TwoCommunities ==
    Renaming \cup
    Single(Foundings \cup Handovers \cup Networks \cup Staff \cup Cases
           \cup Reported \cup Revised \cup Crossed \cup Mismatched
           \cup Malformed)

\* The same, the only crossing that is executed being that of UpdateCase.
CrossingUpdates == TwoCommunities \ Single({CrossedAddress})
=============================================================================
