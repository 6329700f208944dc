---------------------------- MODULE HapiAccounts ----------------------------
(***************************************************************************)
(* The accounts of the HAPI program: what each of them stores, the program *)
(* derived address (PDA) it lives at, and the checks that every handler is *)
(* put together from (program/src/state, program/src/tools/account.rs).    *)
(*                                                                         *)
(* A ledger s is a function: DOMAIN s is the set of addresses at which the *)
(* program has allocated an account, s[a] is that account's data.  Nothing *)
(* in the program frees an account, so the domain only grows.              *)
(*                                                                         *)
(* A PDA is the tuple of its seeds.  Pubkey::find_program_address hashes   *)
(* the seeds, and two different tuples are taken to have different hashes. *)
(***************************************************************************)
EXTENDS Naturals, Sequences

CONSTANTS
    Pubkey,         \* every key a transaction can name, PDAs included
    Foreign,        \* keys whose account holds data of another program
    SystemProgram,  \* system_program::id()
    RentSysvar,     \* sysvar::rent::id()
    Funded,         \* keys whose lamports cover the rent of a new account
    Name,           \* the names in use
    NameLen,        \* their lengths in bytes
    CaseIdCount,    \* how many case ids there are: 2^64 in the program
    Category,       \* the values of enum Category
    CategorySet,    \* bit masks of categories
    Risk            \* risk scores

ASSUME KeysAssumption == /\ SystemProgram \in Pubkey
                         /\ RentSysvar \in Pubkey
                         /\ Foreign \subseteq Pubkey
ASSUME NameAssumption == NameLen \in [Name -> Nat]
ASSUME CaseIdAssumption == CaseIdCount \in Nat \ {0}

CaseId == 0 .. CaseIdCount - 1

ReporterType == {"Inactive", "Tracer", "Full", "Authority"}
CaseStatus == {"Open", "Closed"}

-----------------------------------------------------------------------------
(* The data of each kind of account.                                       *)

Community == [account_type : {"Community"}, authority : Pubkey,
              next_case_id : CaseId, name : Name]
Network   == [account_type : {"Network"}, name : Name]
Reporter  == [account_type : {"Reporter"}, reporter_type : ReporterType,
              name : Name]
Case      == [account_type : {"Case"}, reporter_key : Pubkey,
              categories : CategorySet, status : CaseStatus, name : Name]
Address   == [account_type : {"Address"}, risk : Risk, case_id : CaseId,
              category : Category]

AccountData == Community \cup Network \cup Reporter \cup Case \cup Address

(***************************************************************************)
(* The addresses.  A case is numbered inside its community, a reporter is  *)
(* a key inside a community, an address is a key inside a network.         *)
(***************************************************************************)
CommunityAddress(name)            == <<"community", name>>
NetworkAddress(community, name)   == <<"network", community, name>>
ReporterAddress(community, key)   == <<"reporter", community, key>>
CaseAddress(community, id)        == <<"case", community, id>>
AddressAddress(network, value)    == <<"address", network, value>>

-----------------------------------------------------------------------------
(***************************************************************************)
(* A check returns Ok or the error the handler stops with; v ?? w is the   *)
(* check v followed, if it passes, by the check w: Rust's v?; w            *)
(***************************************************************************)
Ok == "Ok"
Require(condition, error) == IF condition THEN Ok ELSE error
v ?? w == IF v = Ok THEN w ELSE v

\* The errors a transaction can end with: the program's own (error.rs), the
\* ProgramErrors its handlers return, and those of the runtime.
Error ==
    {"InvalidInstruction", "SignatureMissing", "CaseIDMismatch",
     "InvalidNetworkAuthority", "InvalidReporter", "ReportingNotPermitted",
     "InvalidReporterPermissions", "NameTooLong", "NotImplemented",
     "InvalidAccountOwner", "InvalidAccountType", "InvalidInstructionData",
     "NotEnoughAccountKeys", "InvalidArgument", "AccountAlreadyInitialized",
     "UninitializedAccount", "InvalidSeeds", "BorshIoError",
     "MissingAccount", "PrivilegeEscalation", "InsufficientFunds",
     "ProgramFailedToComplete", "ReadonlyDataModified"}

VerdictType == Error \cup {Ok}

DataIsEmpty(s, a) == a \notin DOMAIN s /\ a \notin Foreign

\* Fault: an account that is in use is taken for a free one.
EmptyAccount_Unchecked(s, a) == Require(a \notin Foreign,
                                        "AccountAlreadyInitialized")

EmptyAccount(s, a) == Require(DataIsEmpty(s, a), "AccountAlreadyInitialized")

ValidAccount(s, a, type) ==
       Require(~DataIsEmpty(s, a), "UninitializedAccount")
    ?? Require(a \in DOMAIN s, "InvalidAccountOwner")
    ?? Require(s[a].account_type = type, "InvalidAccountType")

\* Data of another type does not deserialize or is not is_initialized: both
\* leave the caller without the account, and are told apart by no caller.
AccountDataIs(s, a, type) ==
       Require(~DataIsEmpty(s, a), "UninitializedAccount")
    ?? Require(a \in DOMAIN s, "InvalidAccountOwner")
    ?? Require(s[a].account_type = type, "UninitializedAccount")

-----------------------------------------------------------------------------
(***************************************************************************)
(* Sizes in bytes.  An account is allocated at its get_max_size and the    *)
(* data is serialized into it; a string takes 4 bytes and its contents.    *)
(***************************************************************************)
MaxSize == [Community |-> 1 + 32 + 8 + 32,
            Network   |-> 1 + 32,
            Reporter  |-> 1 + 1 + 32,
            Case      |-> 1 + 1 + 32 + 4 + 1 + 32,
            Address   |-> 1 + 1 + 8 + 1]

SizeWithoutName == [Community |-> 1 + 32 + 8 + 4,
                    Network   |-> 1 + 4,
                    Reporter  |-> 1 + 1 + 4,
                    Case      |-> 1 + 32 + 4 + 1 + 4]

Serializes(type, name) ==
    Require(SizeWithoutName[type] + NameLen[name] <= MaxSize[type],
            "BorshIoError")

\* find_program_address panics on a seed of more than 32 bytes.
SeedFits(name) == Require(NameLen[name] <= 32, "ProgramFailedToComplete")

\* Fault: the requested account is not compared with the PDA.
CreateAccount_AnyAddress(t, payer, a, pda, system) ==
       Require(system = SystemProgram, "MissingAccount")
    ?? Require({payer, a} \subseteq t.writable /\ payer \in t.signers,
               "PrivilegeEscalation")
    ?? Require(payer \in Funded, "InsufficientFunds")

(***************************************************************************)
(* create_and_serialize_account_signed: the PDA check and the cross-program*)
(* invocation of the system program that allocates the account.  The       *)
(* transaction t says which keys signed it and which it may write.         *)
(***************************************************************************)
CreateAccount(t, payer, a, pda, system) ==
       Require(a = pda, "InvalidSeeds")
    ?? Require(system = SystemProgram, "MissingAccount")
    ?? Require({payer, a} \subseteq t.writable /\ payer \in t.signers,
               "PrivilegeEscalation")
    ?? Require(payer \in Funded, "InsufficientFunds")

\* The ledger s with data d at address a, allocated or overwritten.
Put(s, a, d) == [x \in DOMAIN s \cup {a} |-> IF x = a THEN d ELSE s[x]]

-----------------------------------------------------------------------------
\* assert_reporter_belongs_to_community
ReporterBelongs(s, reporter, community, key) ==
       ValidAccount(s, reporter, "Reporter")
    ?? Require(reporter = ReporterAddress(community, key), "InvalidReporter")

\* Fault: inactive reporters may report addresses.
CanCreateAddress_Inactive(s, reporter) == AccountDataIs(s, reporter, "Reporter")

\* assert_reporter_can_create_address
CanCreateAddress(s, reporter) ==
       AccountDataIs(s, reporter, "Reporter")
    ?? Require(s[reporter].reporter_type # "Inactive", "ReportingNotPermitted")

\* Fault: whoever is registered may open cases.
CanCreateCase_Anyone(s, reporter) == AccountDataIs(s, reporter, "Reporter")

\* assert_reporter_can_create_case
CanCreateCase(s, reporter) ==
       AccountDataIs(s, reporter, "Reporter")
    ?? Require(s[reporter].reporter_type \in {"Authority", "Full"},
               "InvalidReporterPermissions")

\* Fault: a Full reporter may update the cases of others.
CanUpdateCase_AnyCase(s, key, reporter, caseReporter) ==
       AccountDataIs(s, reporter, "Reporter")
    ?? Require(s[reporter].reporter_type \in {"Authority", "Full"},
               "InvalidReporterPermissions")

\* assert_reporter_can_update_case
CanUpdateCase(s, key, reporter, caseReporter) ==
       AccountDataIs(s, reporter, "Reporter")
    ?? Require(\/ s[reporter].reporter_type = "Authority"
               \/ s[reporter].reporter_type = "Full" /\ caseReporter = key,
               "InvalidReporterPermissions")
=============================================================================
