-------------------------------- MODULE MCWire --------------------------------
(* An instance of HapiWire for TLC: requests of both clients, whose records  *)
(* grow and shrink, and one message that is no instruction.                  *)
EXTENDS HapiWireProperties, TLC
LOCAL INSTANCE FiniteSets
LOCAL INSTANCE SequencesExt
LOCAL INSTANCE FiniteSetsExt

CONSTANTS auth, alice,          \* wallets
          sys, rent,            \* the system program, the rent sysvar
          n, m, slashed,        \* names
          value                 \* a reported address

MCNameBytes == (n :> <<110>>) @@ (m :> SubSeq([i \in 1 .. 28 |-> 64 + i], 1, 28))
               @@ (slashed :> <<97, Slash, 98>>)
MCNameLen == [x \in Name |-> Len(MCNameBytes[x])]

MCCategory == ToSet(Categories)
MCCategorySet == SUBSET (MCCategory \ {"Safe"})

All == MCCategory
None == {"Safe"}

\* A message of one instruction, built by one of the clients; who signs pays.
SentBy(by, b) == [by |-> by,
                tx |-> Message(<<[b EXCEPT !.writable = @ \cup b.signers]>>)]

\* The library exports a class for UpdateCommunity, without a builder.
UpdateCommunityIx(b) == [b EXCEPT !.ix = [op |-> "UpdateCommunity", name |-> n,
                                          accounts |-> @.accounts]]

\* UpdateAddress with the accounts of the handler, in a message in which the
\* authority edits the reporter: the reporter's account may be written.
Revision ==
    LET community == CommunityAddress(n)
        network   == NetworkAddress(community, slashed)
    IN  Built([op |-> "UpdateAddress", risk |-> 255, case_id |-> 1,
               category |-> "ChildAbuse",
               accounts |-> <<alice, community,
                              ReporterAddress(community, alice),
                              CaseAddress(community, 1),
                              AddressAddress(network, value)>>],
              {alice}, {alice, AddressAddress(network, value)})
Renaming == update_reporter(auth, n, m, alice, "Full")

MCRequests ==
    {SentBy("js", createCommunityInstruction(auth, n)),
     SentBy("js", UpdateCommunityIx(update_community(auth, <<alice>>, n))),
     SentBy("rust", update_community(auth, << >>, n)),
     SentBy("rust", create_network(auth, n, slashed)),
     SentBy("js", createNetworkInstructions(auth, n, m)),
     SentBy("js", createReporterInstructions(auth, n, alice, "Authority", m)),
     SentBy("rust", update_reporter(auth, n, n, alice, "Tracer")),
     SentBy("rust", create_case(alice, n, 0, m, "Open", All)),
     SentBy("js", createCaseInstruction(alice, n, 1, n, "Closed", None)),
     SentBy("js", updateCaseInstruction(alice, n, 0, "Closed", None)),
     SentBy("rust", update_case(alice, n, 1, "Open", {"Gambling"})),
     SentBy("js", createAddressInstruction(alice, n, m, value, 0, 10, "Safe")),
     SentBy("rust", create_address(alice, n, slashed, value, 1, 255, "Gambling")),
     [by |-> "rust", tx |-> Message(<<Renaming, Revision>>)]}

MCTransactions == {Meant(r) : r \in MCRequests}

MCPubkey == {auth, alice, sys, rent, value} \cup
            UNION {UNION {{ix.accounts[i] : i \in DOMAIN ix.accounts} :
                          ix \in {r.tx.instructions[j] :
                                      j \in DOMAIN r.tx.instructions}} :
                   r \in MCRequests}

\* 32 equal bytes, another for each key.
MCKeyBytes ==
    FoldSet(LAMBDA k, f : f @@ (k :> SubSeq([i \in 1 .. 32 |->
                                                 Cardinality(DOMAIN f)], 1, 32)),
            << >>, MCPubkey)
===============================================================================
