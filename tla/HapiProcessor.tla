--------------------------- MODULE HapiProcessor ---------------------------
(***************************************************************************)
(* The ten instruction handlers of the program (program/src/processor).    *)
(*                                                                         *)
(* A handler checks its accounts and arguments in a fixed order and writes *)
(* the ledger only when every check has passed.  It is two operators: the  *)
(* Verdict, Ok or the error of the first check that fails, and the Effect, *)
(* the ledger it leaves behind when the verdict is Ok.                     *)
(*                                                                         *)
(* s is the ledger the handler sees, t the transaction it runs in (who     *)
(* signed, what may be written), ix the instruction: its name op, its      *)
(* arguments, and its accounts in the order the handler takes them.        *)
(***************************************************************************)
EXTENDS HapiAccounts

Accounts == Seq(Pubkey)

Instruction ==
         [op : {"CreateCommunity", "CreateNetwork"}, accounts : Accounts,
          name : Name]
    \cup [op : {"UpdateCommunity", "UpdateNetwork"}, accounts : Accounts]
    \cup [op : {"CreateReporter", "UpdateReporter"}, accounts : Accounts,
          reporter_type : ReporterType, name : Name]
    \cup [op : {"CreateCase"}, accounts : Accounts, case_id : CaseId,
          categories : CategorySet, status : CaseStatus, name : Name]
    \cup [op : {"UpdateCase"}, accounts : Accounts,
          categories : CategorySet, status : CaseStatus]
    \cup [op : {"CreateAddress"}, accounts : Accounts, address : Pubkey,
          risk : Risk, case_id : CaseId, category : Category]
    \cup [op : {"UpdateAddress"}, accounts : Accounts,
          risk : Risk, case_id : CaseId, category : Category]
    \cup [op : {"Malformed"}, accounts : Accounts]

\* What the runtime is handed: the signatures and the write locks are those
\* of the whole message, shared by all of its instructions.
Transaction == [signers : SUBSET Pubkey, writable : SUBSET Pubkey,
                instructions : Seq(Instruction)]

TakesAccounts(ix, n) ==
    Require(Len(ix.accounts) >= n, "NotEnoughAccountKeys")
Rent(key) == Require(key = RentSysvar, "InvalidArgument")
Signed(t, key) == Require(key \in t.signers, "SignatureMissing")
NameWithin32(name) == Require(NameLen[name] <= 32, "NameTooLong")

\* Fault: any signer will do.
HasAuthority_AnySigner(s, community, key) ==
    ValidAccount(s, community, "Community")

\* The community exists and the key is its authority.
HasAuthority(s, community, key) ==
       ValidAccount(s, community, "Community")
    ?? Require(key = s[community].authority, "InvalidNetworkAuthority")

-----------------------------------------------------------------------------
CreateCommunityVerdict(s, t, ix) ==
    LET payer     == ix.accounts[1]
        community == ix.accounts[2]
    IN     TakesAccounts(ix, 4)
        ?? Rent(ix.accounts[4])
        ?? Signed(t, payer)
        ?? EmptyAccount(s, community)
        ?? SeedFits(ix.name)
        ?? CreateAccount(t, payer, community, CommunityAddress(ix.name),
                         ix.accounts[3])
        ?? Serializes("Community", ix.name)

CreateCommunityEffect(s, ix) ==
    Put(s, ix.accounts[2],
        [account_type |-> "Community", authority |-> ix.accounts[1],
         next_case_id |-> 0, name |-> ix.name])

UpdateCommunityVerdict(s, t, ix) ==
    LET authority == ix.accounts[1]
        community == ix.accounts[2]
    IN     TakesAccounts(ix, 2)
        ?? Signed(t, authority)
        ?? HasAuthority(s, community, authority)

\* The third account is optional: without it the authority stays.
UpdateCommunityEffect(s, ix) ==
    LET community == ix.accounts[2]
    IN  Put(s, community,
            [s[community] EXCEPT
                !.authority = IF Len(ix.accounts) >= 3
                              THEN ix.accounts[3] ELSE @])

CreateNetworkVerdict(s, t, ix) ==
    LET authority == ix.accounts[1]
        network   == ix.accounts[2]
        community == ix.accounts[3]
    IN     TakesAccounts(ix, 5)
        ?? Rent(ix.accounts[5])
        ?? NameWithin32(ix.name)
        ?? Signed(t, authority)
        ?? ValidAccount(s, community, "Community")
        ?? EmptyAccount(s, network)
        ?? HasAuthority(s, community, authority)
        ?? CreateAccount(t, authority, network,
                         NetworkAddress(community, ix.name), ix.accounts[4])
        ?? Serializes("Network", ix.name)

\* Fault: the account type of a community, taken over with the code.
CreateNetworkEffect_CopiedType(s, ix) ==
    Put(s, ix.accounts[2], [account_type |-> "Community", name |-> ix.name])

CreateNetworkEffect(s, ix) ==
    Put(s, ix.accounts[2], [account_type |-> "Network", name |-> ix.name])

\* Never Ok: the update itself is not implemented.
UpdateNetworkVerdict(s, t, ix) ==
    LET authority == ix.accounts[1]
        community == ix.accounts[2]
        network   == ix.accounts[3]
    IN     TakesAccounts(ix, 3)
        ?? Signed(t, authority)
        ?? HasAuthority(s, community, authority)
        ?? ValidAccount(s, network, "Network")
        ?? Require(network = NetworkAddress(community, s[network].name),
                   "InvalidReporter")
        ?? "NotImplemented"

-----------------------------------------------------------------------------
CreateReporterVerdict(s, t, ix) ==
    LET authority == ix.accounts[1]
        community == ix.accounts[2]
        key       == ix.accounts[3]
        reporter  == ix.accounts[4]
    IN     TakesAccounts(ix, 6)
        ?? Rent(ix.accounts[6])
        ?? NameWithin32(ix.name)
        ?? Signed(t, authority)
        ?? HasAuthority(s, community, authority)
        ?? EmptyAccount(s, reporter)
        ?? CreateAccount(t, authority, reporter,
                         ReporterAddress(community, key), ix.accounts[5])
        ?? Serializes("Reporter", ix.name)

CreateReporterEffect(s, ix) ==
    Put(s, ix.accounts[4],
        [account_type |-> "Reporter", reporter_type |-> ix.reporter_type,
         name |-> ix.name])

UpdateReporterVerdict(s, t, ix) ==
    LET authority == ix.accounts[1]
        community == ix.accounts[2]
        reporter  == ix.accounts[3]
        key       == ix.accounts[4]
    IN     TakesAccounts(ix, 4)
        ?? NameWithin32(ix.name)
        ?? Signed(t, authority)
        ?? HasAuthority(s, community, authority)
        ?? ReporterBelongs(s, reporter, community, key)
        ?? Serializes("Reporter", ix.name)

UpdateReporterEffect(s, ix) ==
    LET reporter == ix.accounts[3]
    IN  Put(s, reporter, [s[reporter] EXCEPT !.name = ix.name,
                              !.reporter_type = ix.reporter_type])

-----------------------------------------------------------------------------
\* Fault: the id is not compared with the counter.
CreateCaseVerdict_AnyId(s, t, ix) ==
    LET payer     == ix.accounts[1]
        community == ix.accounts[2]
        reporter  == ix.accounts[3]
        case      == ix.accounts[4]
    IN     TakesAccounts(ix, 6)
        ?? Rent(ix.accounts[6])
        ?? NameWithin32(ix.name)
        ?? Signed(t, payer)
        ?? Require(reporter = ReporterAddress(community, payer),
                   "InvalidReporter")
        ?? ValidAccount(s, community, "Community")
        ?? EmptyAccount(s, case)
        ?? CanCreateCase(s, reporter)
        ?? CreateAccount(t, payer, case, CaseAddress(community, ix.case_id),
                         ix.accounts[5])
        ?? Serializes("Case", ix.name)

\* Fault: the reporter account need not be the signer's.
CreateCaseVerdict_AnyReporter(s, t, ix) ==
    LET payer     == ix.accounts[1]
        community == ix.accounts[2]
        case      == ix.accounts[4]
    IN     TakesAccounts(ix, 6)
        ?? Rent(ix.accounts[6])
        ?? NameWithin32(ix.name)
        ?? Signed(t, payer)
        ?? ValidAccount(s, community, "Community")
        ?? EmptyAccount(s, case)
        ?? CanCreateCase(s, ix.accounts[3])
        ?? Require(ix.case_id = s[community].next_case_id,
                   "InvalidInstruction")
        ?? CreateAccount(t, payer, case, CaseAddress(community, ix.case_id),
                         ix.accounts[5])
        ?? Serializes("Case", ix.name)

\* Fault: the id is compared with the counter before the account is looked at.
CreateCaseVerdict_IdFirst(s, t, ix) ==
    LET payer     == ix.accounts[1]
        community == ix.accounts[2]
        reporter  == ix.accounts[3]
    IN     TakesAccounts(ix, 6)
        ?? Rent(ix.accounts[6])
        ?? NameWithin32(ix.name)
        ?? Signed(t, payer)
        ?? Require(reporter = ReporterAddress(community, payer),
                   "InvalidReporter")
        ?? ValidAccount(s, community, "Community")
        ?? Require(ix.case_id = s[community].next_case_id,
                   "InvalidInstruction")
        ?? EmptyAccount(s, ix.accounts[4])
        ?? CanCreateCase(s, reporter)
        ?? CreateAccount(t, payer, ix.accounts[4],
                         CaseAddress(community, ix.case_id), ix.accounts[5])
        ?? Serializes("Case", ix.name)

\* The community's counter is written before the case account is created:
\* CreateAccount and Serializes fail with the counter already advanced, and
\* the runtime then drops the whole transaction.
CreateCaseVerdict(s, t, ix) ==
    LET payer     == ix.accounts[1]
        community == ix.accounts[2]
        reporter  == ix.accounts[3]
        case      == ix.accounts[4]
    IN     TakesAccounts(ix, 6)
        ?? Rent(ix.accounts[6])
        ?? NameWithin32(ix.name)
        ?? Signed(t, payer)
        ?? Require(reporter = ReporterAddress(community, payer),
                   "InvalidReporter")
        ?? ValidAccount(s, community, "Community")
        ?? EmptyAccount(s, case)
        ?? CanCreateCase(s, reporter)
        ?? Require(ix.case_id = s[community].next_case_id,
                   "InvalidInstruction")
        ?? CreateAccount(t, payer, case, CaseAddress(community, ix.case_id),
                         ix.accounts[5])
        ?? Serializes("Case", ix.name)

\* Fault: the counter stays.
CreateCaseEffect_NotCounted(s, ix) ==
    Put(s, ix.accounts[4],
        [account_type |-> "Case", reporter_key |-> ix.accounts[1],
         categories |-> ix.categories, status |-> ix.status,
         name |-> ix.name])

CreateCaseEffect(s, ix) ==
    LET community == ix.accounts[2]
        counted   == [s[community] EXCEPT
                         !.next_case_id = (@ + 1) % CaseIdCount]
    IN  Put(Put(s, community, counted), ix.accounts[4],
            [account_type |-> "Case", reporter_key |-> ix.accounts[1],
             categories |-> ix.categories, status |-> ix.status,
             name |-> ix.name])

\* Fault: the reporter account need not be that of the signer in the community.
UpdateCaseVerdict_AnyReporter(s, t, ix) ==
    LET key      == ix.accounts[1]
        reporter == ix.accounts[3]
        case     == ix.accounts[4]
    IN     TakesAccounts(ix, 4)
        ?? Signed(t, key)
        ?? ValidAccount(s, reporter, "Reporter")
        ?? ValidAccount(s, case, "Case")
        ?? CanUpdateCase(s, key, reporter, s[case].reporter_key)

\* The case account is never compared with the community.
UpdateCaseVerdict(s, t, ix) ==
    LET key       == ix.accounts[1]
        community == ix.accounts[2]
        reporter  == ix.accounts[3]
        case      == ix.accounts[4]
    IN     TakesAccounts(ix, 4)
        ?? Signed(t, key)
        ?? Require(reporter = ReporterAddress(community, key),
                   "InvalidReporter")
        ?? ValidAccount(s, reporter, "Reporter")
        ?? ValidAccount(s, case, "Case")
        ?? CanUpdateCase(s, key, reporter, s[case].reporter_key)

\* Fault: the case is reassigned to whoever updates it.
UpdateCaseEffect_Reassigned(s, ix) ==
    LET case == ix.accounts[4]
    IN  Put(s, case, [s[case] EXCEPT !.categories = ix.categories,
                                     !.status = ix.status,
                                     !.reporter_key = ix.accounts[1]])

UpdateCaseEffect(s, ix) ==
    LET case == ix.accounts[4]
    IN  Put(s, case, [s[case] EXCEPT !.categories = ix.categories,
                                     !.status = ix.status])

-----------------------------------------------------------------------------
\* The network account is only a seed: nothing is read from it.
CreateAddressVerdict(s, t, ix) ==
    LET key       == ix.accounts[1]
        community == ix.accounts[2]
        network   == ix.accounts[3]
        reporter  == ix.accounts[4]
        case      == ix.accounts[5]
        address   == ix.accounts[6]
    IN     TakesAccounts(ix, 8)
        ?? Rent(ix.accounts[8])
        ?? Signed(t, key)
        ?? ReporterBelongs(s, reporter, community, key)
        ?? CanCreateAddress(s, reporter)
        ?? EmptyAccount(s, address)
        ?? ValidAccount(s, case, "Case")
        ?? Require(case = CaseAddress(community, ix.case_id), "CaseIDMismatch")
        ?? CreateAccount(t, key, address, AddressAddress(network, ix.address),
                         ix.accounts[7])

CreateAddressEffect(s, ix) ==
    Put(s, ix.accounts[6],
        [account_type |-> "Address", risk |-> ix.risk,
         case_id |-> ix.case_id, category |-> ix.category])

UpdateAddressVerdict(s, t, ix) ==
    LET key       == ix.accounts[1]
        community == ix.accounts[2]
        reporter  == ix.accounts[3]
        case      == ix.accounts[4]
        address   == ix.accounts[5]
    IN     TakesAccounts(ix, 5)
        ?? Signed(t, key)
        ?? ValidAccount(s, address, "Address")
        ?? ReporterBelongs(s, reporter, community, key)
        ?? CanCreateAddress(s, reporter)
        ?? ValidAccount(s, case, "Case")
        ?? Require(case = CaseAddress(community, ix.case_id), "CaseIDMismatch")

\* The new address data is serialized into the account of the reporter.
UpdateAddressEffect(s, ix) ==
    Put(s, ix.accounts[3],
        [s[ix.accounts[5]] EXCEPT !.risk = ix.risk, !.case_id = ix.case_id,
                                  !.category = ix.category])

=============================================================================
