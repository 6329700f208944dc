--------------------------- MODULE HapiProperties ---------------------------
(***************************************************************************)
(* What the program keeps true of its accounts, and what a transaction may *)
(* do to them.  The state invariants are stated of a ledger s and hold of  *)
(* the committed ledger and of the working copy, that is, between any two  *)
(* instructions of a transaction as well.                                  *)
(***************************************************************************)
EXTENDS HapiLedger

IsLedger(s) == /\ DOMAIN s \subseteq Pubkey
               /\ s \in [DOMAIN s -> AccountData]

\* Every variable has its type; nothing is pending while no transaction runs.
TypeOK == /\ IsLedger(accounts)
          /\ IsLedger(work)
          /\ tx \in Transactions \cup {NoTx}
          /\ pc \in Nat \ {0}
          /\ verdict \in VerdictType
          /\ tx = NoTx => work = accounts /\ pc = 1 /\ verdict = Ok

-----------------------------------------------------------------------------
Holds(s, a, type) == a \in DOMAIN s /\ s[a].account_type = type

Communities(s) == {a \in DOMAIN s : s[a].account_type = "Community"}

CaseIds(s, c) == {id \in CaseId : CaseAddress(c, id) \in DOMAIN s}

CounterCountsCases(s) ==
    \A c \in Communities(s) :
        LET next == s[c].next_case_id
        IN  \/ CaseIds(s, c) = 0 .. next - 1
            \/ next = 0 /\ CaseIds(s, c) = CaseId

\* The cases of a community are numbered without gaps, below its counter:
\* case accounts exist for exactly the ids the counter has passed.  After the
\* last id the counter wraps to 0 with every id taken.  CreateCase writes the
\* counter first and creates the account next (process_create_case.rs:69-88),
\* and a failure in between must leave neither.
CaseIdsFollowCounter == CounterCountsCases(accounts) /\ CounterCountsCases(work)

OnItsOwnAddress(s, a) ==
    \/ s[a].account_type = "Community" /\ a = CommunityAddress(s[a].name)
    \/ s[a].account_type = "Network"
       /\ \E c \in Communities(s) : a = NetworkAddress(c, s[a].name)
    \/ s[a].account_type \in {"Reporter", "Address"}
       /\ \E c \in Communities(s), k \in Pubkey : a = ReporterAddress(c, k)
    \/ s[a].account_type = "Case"
       /\ \E c \in Communities(s), id \in CaseId : a = CaseAddress(c, id)
    \/ s[a].account_type = "Address"
       /\ \E n \in Pubkey, v \in Pubkey : a = AddressAddress(n, v)

\* Every account sits at a PDA of its own type, made from its own name and
\* from a community that exists: a network, a reporter or a case is never
\* orphaned and a stored name never differs from the seeds.  (The data of an
\* address can also sit in a reporter's account, where UpdateAddress writes
\* it, process_update_address.rs:55.)
AccountsOnTheirAddresses ==
    /\ \A a \in DOMAIN accounts : OnItsOwnAddress(accounts, a)
    /\ \A a \in DOMAIN work : OnItsOwnAddress(work, a)

AuthorsRegistered(s) ==
    \A c \in Communities(s) : \A id \in CaseIds(s, c) :
        LET author == s[CaseAddress(c, id)].reporter_key
        IN  ReporterAddress(c, author) \in DOMAIN s

\* The author of a case is a reporter of the case's own community, for ever:
\* the handler takes the key from the signature and the registration from the
\* reporter account, two different accounts (process_create_case.rs:53-75).
CaseAuthorsRegistered == AuthorsRegistered(accounts) /\ AuthorsRegistered(work)

\* A case creation whose id is behind the counter is told that the account
\* exists, never that the id does not match: InvalidInstruction means that
\* the id is ahead of the counter.  A client tells a lost race from a bad id
\* by this error (process_create_case.rs:60 before 65).
OnlyIdsAheadMismatch ==
    \A c \in Communities(work) :
        (/\ tx # NoTx /\ verdict = "InvalidInstruction"
         /\ Instr.op = "CreateCase"
         /\ Instr.accounts[2] = c
         /\ Instr.accounts[4] = CaseAddress(c, Instr.case_id))
        => Instr.case_id > work[c].next_case_id

-----------------------------------------------------------------------------
(* Action properties.                                                      *)

\* A step that ran an instruction of tx to success.
InstructionDone == tx # NoTx /\ tx' = tx /\ pc' = pc + 1

ReporterIn(s, c, k, types) ==
    LET r == ReporterAddress(c, k)
    IN  Holds(s, r, "Reporter") /\ s[r].reporter_type \in types

Written == Changed(work, work')
Created == DOMAIN work' \ DOMAIN work

\* A case is opened with the next number of its community and in the name of
\* a signer who is a Full or Authority reporter there.
CaseOpenedRightly(c, id) ==
    LET author == work'[CaseAddress(c, id)].reporter_key
    IN  /\ id = work[c].next_case_id
        /\ author \in tx.signers
        /\ ReporterIn(work, c, author, {"Full", "Authority"})

CasesOpenedByReporters ==
    [][InstructionDone =>
        \A c \in Communities(work), id \in CaseId :
            CaseAddress(c, id) \in Created => CaseOpenedRightly(c, id)]_vars

\* A case that exists is rewritten only by a signer who is an Authority reporter
\* of the community the call names, or the Full reporter of that community who
\* opened the case, and it keeps author and name.  Which community that is,
\* UpdateCase does not check (process_update_case.rs:47-52): a reporter of one
\* may rewrite the cases of another, see EnteredByOwnReporters.
CaseRewrittenRightly(a) ==
    LET key       == Instr.accounts[1]
        community == Instr.accounts[2]
    IN  /\ work'[a].account_type = "Case"
        /\ work'[a].reporter_key = work[a].reporter_key
        /\ work'[a].name = work[a].name
        /\ key \in tx.signers
        /\ \/ ReporterIn(work, community, key, {"Authority"})
           \/ /\ ReporterIn(work, community, key, {"Full"})
              /\ work[a].reporter_key = key

CasesRewrittenByReporters ==
    [][InstructionDone =>
        \A a \in Written \cap DOMAIN work :
            work[a].account_type = "Case" => CaseRewrittenRightly(a)]_vars

\* Everything a community's authority is responsible for, its own key, the
\* networks and the records of reporters, changes only with its signature.
\* (A reporter needs none to have its own record replaced by an address, which
\* is what UpdateAddress does, process_update_address.rs:55.)
Governed(c, a) ==
    \/ a = c /\ work'[c].authority # work[c].authority
    \/ \E name \in Name : a = NetworkAddress(c, name)
    \/ /\ \E k \in Pubkey : a = ReporterAddress(c, k)
       /\ work'[a].account_type = "Reporter"

AuthorityGoverns ==
    [][InstructionDone =>
        \A c \in Communities(work), a \in Written :
            Governed(c, a) => work[c].authority \in tx.signers]_vars

\* The data of an address are written, into its own account or into another,
\* only with the signature of somebody who is registered, and not inactive, in
\* a community that has the cited case.
AddressReportedRightly(a) ==
    \E c \in Communities(work), k \in tx.signers :
        /\ ReporterIn(work, c, k, ReporterType \ {"Inactive"})
        /\ Holds(work, CaseAddress(c, work'[a].case_id), "Case")

AddressesReportedByActive ==
    [][InstructionDone =>
        \A a \in Written : work'[a].account_type = "Address" =>
                               AddressReportedRightly(a)]_vars

\* What is entered in a community: its cases, the addresses of its networks.
EnteredIn(c, a) ==
    \/ a[1] = "case" /\ a[2] = c
    \/ a[1] = "address" /\ \E name \in Name : a[2] = NetworkAddress(c, name)

\* The record at a is written by a reporter of community c: a case by whoever
\* may open or update it there, an address by an active reporter, for a case
\* of c.
EnteredRightly(c, a) ==
    LET entry == work'[a]
    IN  \E k \in tx.signers :
            \/ /\ entry.account_type = "Case"
               /\ \/ ReporterIn(work, c, k, {"Authority"})
                  \/ /\ ReporterIn(work, c, k, {"Full"})
                     /\ entry.reporter_key = k
            \/ /\ entry.account_type = "Address"
               /\ ReporterIn(work, c, k, ReporterType \ {"Inactive"})
               /\ Holds(work, CaseAddress(c, entry.case_id), "Case")

\* Nobody enters anything in a community, or changes an entry, but its own
\* reporters, and no address cites another community's case: "3. `[writable]`
\* Case account. PDA seeds: ['case', community_account, case_id]", next to the
\* reporter of that community, and an address and its case "['case',
\* network_account, case_id]" share the network (instruction/mod.rs:120-123,
\* :139-140).  The program checks neither the case it updates nor the network
\* of an address against the community (process_update_case.rs:47-52,
\* process_create_address.rs:49-66), so this is not true of whatever is
\* submitted; it is true of what the two clients submit.
EnteredByOwnReporters ==
    [][InstructionDone =>
        \A c \in Communities(work), a \in Written :
            EnteredIn(c, a) => EnteredRightly(c, a)]_vars

\* What becomes of the account a of ledger s in a later ledger u: it is there,
\* a community keeps its name, a case its author and its name, and both, and
\* networks, stay what they are.
Kept(s, u, a) ==
    /\ a \in DOMAIN u
    /\ s[a].account_type \in {"Community", "Network", "Case"} =>
           /\ u[a].account_type = s[a].account_type
           /\ u[a].name = s[a].name
    /\ s[a].account_type = "Case" => u[a].reporter_key = s[a].reporter_key

\* The committed ledger only grows, whatever a transaction of any length has
\* done to the working copy before it is committed.
NothingIsLost ==
    [][\A a \in DOMAIN accounts : Kept(accounts, accounts', a)]_accounts
=============================================================================
