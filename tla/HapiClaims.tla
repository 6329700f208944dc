----------------------------- MODULE HapiClaims -----------------------------
(***************************************************************************)
(* What the repository's comments and documents say of the program and the *)
(* program does not do.  Each claim has a run in which TLC refutes it.     *)
(***************************************************************************)
EXTENDS HapiProperties

\* An UpdateAddress whose accounts are all in order.
WellFormedUpdate(s, t, ix) == /\ ix.op = "UpdateAddress"
                              /\ UpdateAddressVerdict(s, t, ix) = Ok
                              /\ ix.accounts[5] \in t.writable

\* "Update an existing address": account 5 is "[writable] Address account"
\* (instruction/mod.rs:158-165).  A permitted reporter's update of an existing
\* address, with the documented flags, is executed.
AddressUpdateAccepted ==
    tx # NoTx /\ verdict # Ok => ~WellFormedUpdate(work, tx, Instr)

\* The only thing UpdateAddress changes is the address: the reporter account
\* is "[] Reporter account", read and not written (instruction/mod.rs:163), and
\* what sits at a reporter's address is a reporter.
ReporterAccountsStayReporters ==
    \A a \in DOMAIN accounts :
        a[1] = "reporter" => accounts[a].account_type = "Reporter"

\* "Case name must not exceed 32 bytes" (process_create_case.rs:42) and the
\* same for networks and reporters: a name of at most 32 bytes is accepted.
NamesWithin32Fit ==
    (/\ tx # NoTx /\ verdict = "BorshIoError"
     /\ Instr.op \in {"CreateNetwork", "CreateReporter", "UpdateReporter",
                      "CreateCase"})
    => NameLen[Instr.name] > 32
=============================================================================
