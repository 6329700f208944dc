# A formal model of the HAPI core program and its clients

HAPI is a Solana program (`src/program`) with which communities keep a shared
register of suspicious addresses. This directory holds TLA+ models of the program
and of the two client programs that drive it, the TLC configurations that check
them on small instances, and TLAPS proofs for every value of the constants.

    tlc -workers 2 -config MCCases.cfg MCLedger     # likewise the other .cfg files
    tlapm HapiProofs.tla                            # likewise the other *Proofs.tla

`PROJECT.json` lists components, runs, mutants, findings, hazards and theorems, and
maps every definition to the lines it models.

## 1. The system

### Components

| Component | State | Operations |
|---|---|---|
| **Program** `src/program/src/processor`, `state`, `tools/account.rs` | none of its own: the accounts it owns on the ledger (communities, networks, reporters, cases, addresses), each at an address derived from its seeds (PDA) | ten instructions: create and update each kind of account (`UpdateNetwork` checks everything and then returns `NotImplemented`) |
| **Runtime** (Solana, external) | the committed ledger; the working copy of the running transaction | runs a transaction's instructions in order, all or nothing; enforces signatures and write locks |
| **Rust builders** `src/program/src/instruction` | none | one function per instruction: derives the accounts, lists them, sets the flags |
| **JS library** `src/js/src` | per call: the counter it read, the transaction it waits for | `AuthorityClient` (community, network, reporter), `ReporterClient` (case, address), `ReaderClient` (one getter per kind of account); its own instruction builders |
| **Command line tool** `src/cli/src` | per command: the same | eight commands that write, six that print |
| **Entry point, Borsh** `entrypoint.rs`, `processor/mod.rs`, `state/*.rs` | the bytes of an account: allocated once, overwritten from the beginning | decode an instruction or refuse it; decode and encode a record |
| **JS data encoding** `utils.ts`, `state/*.ts`, `instructions.ts` | none | integers, bit masks, structs to and from bytes, declared a second time |

### How they interact

A client reads accounts over RPC, decides, builds a message from one or more
instructions, signs and sends it, waits for confirmation and (JS) reads the account
back. Clients share nothing but the ledger. The network may delay, reorder or lose a
message. The runtime executes one transaction at a time against the accounts; the
program's handlers check their accounts and arguments in a fixed order and then write.
There are no locks, no callbacks and no persistence beyond the ledger.

### What is hard

* *Check-then-act over the network.* A client picks the id of a new case from a counter
  it read earlier, possibly from finalized data that lags behind; every other reporter
  may read the same number.
* *Doubt.* A time-out, a failed request for the status of a transaction, or a failed
  read-back after it was confirmed, leaves the caller not knowing whether its case
  exists; repeating the call opens another one.
* *Partial failure.* `CreateCase` advances the counter before it creates the account;
  the creation and the serialization can both fail.
* *Shared messages.* Signatures and write locks are those of the whole transaction: an
  instruction can write what another instruction of the message made writable.
* *Accounts that belong together only if the caller says so:* `UpdateCase` relates the
  reporter to the community but not the case, `CreateAddress` the case but not the
  network.
* *Three hand-written account lists* for each instruction (handler, Rust builder, JS
  builder), which must agree.
* *The same bytes declared twice*, in Rust and in TypeScript: enumerations, bit masks
  (a category is a bit in a case and a position in an address), layouts, ids as seeds.
* *Accounts of one size for records of many:* a shorter record leaves the end of a longer
  one behind it, and `UpdateAddress` may put a record of another kind over a reporter's.
* *Long sequences of legal calls:* roles and authorities change between opening and
  updating a case; the counter wraps (`u64`, release build).

### What makes each part correct

* Program: cases are numbered without gaps below the counter; every account sits at its
  own PDA under an existing community; authors are reporters of the community; addresses
  are reported only for cases that exist; only the authority changes networks and
  reporters, only entitled reporters open, rewrite and report; nothing that was entered
  is lost or altered.
* Clients: what they answer is true; a refused call did nothing; what they did not learn
  of is accounted for by doubts; addresses are reported only in existing networks; what
  they enter stays in the community of its reporter, which the program does not see to;
  every call ends; a patient reporter gets through.
* Encoding: both clients write an instruction alike and the program reads it as it was
  meant; whoever reads an account reads the record last written, whatever it overwrote.

## 2. The modules

| Module | Models | Uses |
|---|---|---|
| `HapiAccounts` | account data, PDAs, sizes, the checks of `tools/account.rs` and `state/reporter.rs` | |
| `HapiProcessor` | the ten handlers, each as `XVerdict` (Ok or the first error) and `XEffect` (the ledger it leaves) | `HapiAccounts` |
| `HapiBuilders` | the Rust builders and messages | `HapiProcessor` |
| `HapiLedger` | the state machine: transactions run instruction by instruction on a working copy | `HapiProcessor` |
| `HapiProperties` | what the program keeps true, on the ledger and on the working copy | `HapiLedger` |
| `CaseRegister` | *abstract specification*: an append-only register of cases per community | |
| `HapiRefinement` | the mapping from accounts to registers | both |
| `HapiClaims` | what comments and documents say and the program does not do | `HapiProperties` |
| `HapiJsBuilders` | the JS builders | `HapiBuilders` |
| `HapiCalls` | the plan of each JS method and each command: look-ups in order, own checks, message, account | `HapiJsBuilders` |
| `HapiClients` | clients and chain together: any number of clients, each working through a script of calls | `HapiCalls`, `HapiLedger` |
| `HapiClientProperties` | what a client may rely on; fairness | `HapiClients` |
| `CaseService` | *abstract specification*: what somebody who opens cases may rely on | |
| `HapiService` | the mapping from clients and chain to the service | `HapiClientProperties`, `CaseService` |
| `HapiClientClaims` | what the library's comments say and the library does not do | `HapiClientProperties` |
| `HapiEncoding` | Borsh as the Rust side uses it: enumerations, category bits, layouts, `Unpack`, network paths | `HapiJsBuilders` |
| `HapiJsEncoding` | the same bytes in the library: integers, masks, schemas, `encode`, `fromState` | `HapiEncoding` |
| `HapiWire` | the program on bytes: instruction data in, accounts as cells of fixed size | `HapiJsEncoding`, `HapiLedger` |
| `HapiReaders` | the commands that show accounts and the `ReaderClient` | `HapiWire` |
| `HapiWireProperties` | what the bytes keep; the wire implements the ledger | `HapiReaders` |
| `MCLedger`, `MCClients`, `MCWire` | instances for TLC | |
| `HapiProofs` | proofs: the ledger's inductive invariant | `HapiProperties` |
| `HapiActionProofs` | proofs: what an instruction that succeeds has done, and by whose right; the ledger implements the register | `HapiProofs`, `HapiRefinement` |
| `HapiClientProofs` | proofs: clients and chain implement the ledger; what the clients send, and what becomes of it | `HapiActionProofs`, `HapiClientProperties` |
| `HapiAnswerProofs` | proofs: whose outcome a client sees; its answers are true | `HapiClientProofs`, `HapiService` |
| `HapiAccountingProofs` | proofs: cases and doubts accounted for | `HapiAnswerProofs` |
| `HapiServiceProofs` | proofs: clients and chain implement the service | `HapiAccountingProofs` |
| `HapiByteProofs` | lemmas: what is encoded, by either side, is decoded as it was meant | `HapiWireProperties`, `HapiProofs` |
| `HapiWireProofs` | proofs: the bytes implement the ledger; cells, readers and clients agree | `HapiByteProofs` |

### The ledger

State: `accounts` (a function from addresses to data; its domain are the accounts that
exist), `work` (the working copy), `tx`, `pc`, `verdict` (the running transaction, its
next instruction, how it is going). `Begin` takes any transaction of the constant set
`Transactions`, again and again, in any order: whatever reporters and authorities
submit and however the network orders it. One action per instruction runs the whole
handler; `Reject` ends a transaction whose instruction data do not decode. In Rust
terms, `a ?? b` is `a?; b`. A successful handler's writes go to `work`; if they touch an account outside the message's write set the runtime refuses them
(`ReadonlyDataModified`). `Commit` makes `work` the ledger, `Abort` drops it, which is
what undoes a counter that was advanced before a failing account creation.

A PDA is the tuple of its seeds. Names are model values with a length in bytes, which is
all that seeds (at most 32 bytes) and allocation sizes tell apart. Case ids are
`0 .. CaseIdCount - 1` and the counter wraps at `CaseIdCount`, which stands for 2^64.

### Clients

Each client has a `session` (idle, or the phase of its call, how many look-ups it has
made and the id it read), its `answers`, its `doubts`; `flying` are the messages on their
way, `outcome` how the current one ended, `finalAccounts` and `finalOutcome` the
finalized part of the chain.

    Call -> Check (one request each, in the code's order) -> Send -> Confirm -> ReadBack
               |  CheckFails, Refuse                       |  TimeOut, GiveUp  |  ReadBackFails

Every look-up is a step of its own, so everybody else moves between any two. `Land`
starts the transaction of a message at any later time, also after its sender gave up;
`Expire` loses it. `CheckFails` is any request that fails before something is sent, the
one for the recent blockhash included, which comes last; where an account should be
missing the commands take the failure for that (`cli/src/tools.rs:13`) and go on.
`TimeOut` is whatever makes a client, library or command, stop waiting while its
transaction has been executed or can still land: the time-out of
`confirmTransaction`, or, in `send_and_confirm_transaction_with_spinner`, a status request
that fails or a transaction that is not final in time. `GiveUp` is the end of the wait
for a message that is lost. The JS clients read what their
connection reads, finalized data by default (`Lag`); `AuthorityClient` waits for
"confirmed" all the same. A call is repeated until it is answered: that is what its user
does. `by` and `turn` of a message stand for its signature: a call repeated after a
doubt has a new blockhash.

### Bytes

`HapiWire` is the ledger once more, on bytes. A request says which client built its
message (`rust` or `js`); the program receives `Unpack(Data(by, ix))`: what the client's
encoder writes and the program's decoder makes of it. An account is a *cell*, a sequence
of bytes of `get_max_size` allocated at creation (`Allocated`). `Receive` starts the
message of a request; `Handle` runs the handler of its next instruction, which either
stops with an error (`Stop`) or encodes the records it has changed over the beginning of
their cells (`Store`, `Overwrite`), and what a longer record had behind it stays; `Keep`
and `Drop` are the runtime's `Commit` and `Abort`. Checks and effects are those of
`HapiProcessor`, applied to what the cells decode to (`Records`).

A bit mask is a sum of powers of two and a layout a list of at most five fields, each
read where the ones before it end: written without recursion, so that the encodings can
be proved about. Numbers keep their width: four bytes for a length, eight for an id.

A category set is a set of categories in records and a bit mask in bytes, so `Safe`,
whose bit is 0, is lost on the way: `Meant` says so, and that the library's
`UpdateCommunityIx`, which carries a name too many, is no instruction at all. Apart from
these two nothing may change. `accounts`, `work` and `tx` are history: the decoded
`cells`, `scratch` and `request`, kept as variables because decoding inside a refinement
mapping takes TLC too long; no guard and no other variable reads them.

The readers (`HapiReaders`) derive an address from the names they are given, decode the
cell by the layout of the kind they expect and never ask which kind it is.

## 3. What is checked

Every property has a *mutant*, a plausible bug written next to the definition it
changes (comment "Fault: ..."), under which TLC finds the property violated.

| Run | Instance | Checks |
|---|---|---|
| `cases` | one community, two reporters in three changing roles, three ids, names of 1 and 32 bytes, transactions of one and two instructions | `CaseIdsFollowCounter`, `CaseAuthorsRegistered`, `OnlyIdsAheadMismatch`, `CasesOpenedByReporters`, `CasesRewrittenByReporters`, `NothingIsLost`, and that the ledger implements `CaseRegister` (`ImplementsRegister`) |
| `communities` | two communities, networks, addresses, a community that changes hands; calls crossing communities, mismatched or malformed calls, a reporter who has its own record overwritten | `TypeOK`, `AccountsOnTheirAddresses`, `AuthorityGoverns`, `AddressesReportedByActive`, `CasesRewrittenByReporters` (by reporters of the community that the call names, also where the case is another's) |
| `race` | an authority on the command line founds two communities and, in one, hires itself and a reporter on the JS library with finalized reads; the two race for the same number, report addresses and close cases; one failure | `AnswersAreTrue`, `CasesAccountedFor`, `DoubtsComeFromFaults`, `ClientsReportInNetworks`, `LosersAreBehind`, `EnteredByOwnReporters` |
| `wire` | fourteen requests of both clients: records that grow and shrink (names of 1, 3 and 28 bytes), every category or `Safe` alone, a handover, a reporter overwritten with address data, a message that is no instruction | `WireTypeOK` (cells keep their size), `ReadersAgree` (the commands that show one account, and the library, read the record last written, of every account that their names lead to and that is of the kind asked for), `ClientsEncodeAlike`, and that the wire implements the ledger (`ImplementsLedger`) |
| `patience` | two clients, the race and closing cases, under fairness; one failure | `ClientTypeOK`, `CallsEnd`, `PatienceIsRewarded`, and that clients and chain implement `CaseService` (`ImplementsService`): a call opens one case at most and is told of that one, a refused call opens none, ever, and what lands after a doubt is never taken for the next call's |

### Bounds

* Case ids: three in `cases`, so that the counter reaches its end, wraps and refuses
  from then on; four in `race` and `patience`, more than calls and repetitions can use
  up, so that the wrap does not hide a race.
* Two communities suffice for "the account of another community"; two reporters for a
  race, a stranger and a borrowed account.
* `MaxFaults = 1`: one failed request (a look-up, the blockhash, a status request, the
  read-back), lost message or time-out, of either client, at any point. A second one
  would repeat a doubt, and `CasesAccountedFor` counts doubts.
* Transactions of at most two instructions: enough for an instruction to see, and to be
  undone with, the effect of another, and to share its write locks.
* `wire` has three case ids and one community. Numbers are those about the ends of each
  byte below 2^31, TLC's integers; every category occurs in a mask, and the encoders are
  compared on every category and every pair of them. The category a request names, the
  network and the name vary with the kind of request rather than in all combinations:
  fields are encoded independently.
* The scripts are finite, so the clients' runs end: `CHECK_DEADLOCK FALSE` there, and
  only there. The ledger's runs and `wire` check deadlock.

### Fairness

Only `patience` has any. Every step of a client other than a failure is weakly fair
(`Diligent`): requests are answered, and the user repeats an unanswered call. That
patience is an assumption about people; the properties say what it earns. `Land` is
strongly fair per client, because a message that is not lost is taken up between other
transactions although each of them disables it for a while. The runtime finishes what it
has begun (`Run`, `Settle`), and slots become final. Failures are never fair and are
bounded by `MaxFaults`; a message may be lost, not every message. `CallsEnd` does not
need messages to arrive: a lost one expires.

### Findings

Seven runs end in a violation: each states what a comment or document says of the code.

| Run | The code | The text |
|---|---|---|
| `claim_update` | `UpdateAddress` serializes the address into the *reporter's* account; with the documented flags the runtime refuses it | "Update an existing address", `[writable] Address account` |
| `claim_reporter` | the same, with the reporter's account writable through another instruction: the reporter's record is replaced by address data | `[] Reporter account` |
| `claim_names` | a name of 32 bytes passes the check and does not fit into the account | "Case name must not exceed 32 bytes" |
| `claim_readback` | confirmed, then read at the finalized commitment: the method throws after success | "@returns Transaction hash, account address and entity data" |
| `claim_editing` | neither client can edit a reporter or an address: account lists and derived addresses do not fit the handlers | "@returns ... updated entity data" |
| `claim_crossing` | `UpdateCase` never compares the case with the community: an Authority reporter of one community rewrites the cases of another | "Case account. PDA seeds: ['case', community_account, case_id]" |
| `claim_listing` | `list` panics on the first community and shows nothing of what comes after it | "List all program accounts" |

`claim_editing` stops at the first edit that fails, `updateReporter`. With a script that
makes one of the other three edits only, it fails too: `cmd_update_reporter` and
`updateAddress` are refused by the program, `cmd_update_address` by its own look-up.
`claim_readback` is about `AuthorityClient`, which only this run and `claim_editing` have at
work; `DoubtsComeFromFaults` shows in `race` that
`ReporterClient` and the commands, which read as far as they have waited, never doubt
without a failure.

`claim_crossing` and the run `race` check one property, `EnteredByOwnReporters`: nobody but
a community's own reporters enters or revises a case there, or an address in one of its
networks, and an address cites a case of its own community. The program does not see to
it. `UpdateCase` asks for a reporter of the community the call names and for any case
(`CasesRewrittenByReporters` says no more than that); `CreateAddress` never reads the
network account (with `CrossedAddress` alone of the crossing calls, the run fails as
well, at an address that a reporter of one community enters in the network of another).
`race` and `OwnReportersEnter` show that the clients do, for whatever scripts: they derive
every account of a call from one community. For the same reason, and because they look
first and no account is ever removed, they report addresses only in networks that exist
(`ClientsReportInNetworks`), while `communities` has one in a network that was never
created.

`claim_listing` says of every order in which the node may return the accounts that each
account is listed. The commands that show one account are part of `ReadersAgree`, the
listing is not.

Two more disagreements were met while modelling and are not run: `Case.retrieve` returns
the community's address as the account of the case (`js/src/state/case.ts:111`), and
`Address.fromState` hands out the case id as a plain big number, whose bytes are no seed
of a case (`js/src/state/address.ts:68`).

## 4. What is proved

For every set of keys, names, requests and transactions, every number of case ids, every
set of clients, scripts and failures (`tlapm`, no step left open). Every invariant and
every action property that a passing run checks is a theorem, and so are the four
refinements:

| Theorem | Says | Module |
|---|---|---|
| `TypeCorrect` | `Spec => []TypeOK` | `HapiProofs` |
| `CounterIsExact` | `Spec => []CaseIdsFollowCounter` | |
| `NoOrphans` | `Spec => []AccountsOnTheirAddresses` | |
| `AuthorsAreReporters` | `Spec => []CaseAuthorsRegistered` | |
| `OpenedByReporters` | `Spec => CasesOpenedByReporters` | `HapiActionProofs` |
| `RewrittenByReporters` | `Spec => CasesRewrittenByReporters` | |
| `GovernedByAuthority` | `Spec => AuthorityGoverns` | |
| `ReportedByActive` | `Spec => AddressesReportedByActive` | |
| `NothingLost` | `Spec => NothingIsLost` | |
| `MismatchesAreAhead` | `Spec => []OnlyIdsAheadMismatch` | |
| `LedgerImplementsRegister` | `Spec => ImplementsRegister` | |
| `ClientsTypeCorrect` | `ClientsSpec => []ClientTypeOK` | `HapiClientProofs` |
| `ClientsImplementLedger` | `ClientsSpec => Spec` | |
| `CounterIsExactUnderClients` | `ClientsSpec => []CaseIdsFollowCounter` | |
| `LosersLoseToAccounts` | `ClientsSpec => []LosersAreBehind` | |
| `ReportedInNetworks` | `ClientsSpec => []ClientsReportInNetworks` | |
| `OwnReportersEnter` | `ClientsSpec => EnteredByOwnReporters` | |
| `TrueAnswers` | `ClientsSpec => []AnswersAreTrue` | `HapiAnswerProofs` |
| `CasesAccounted` | `ClientsSpec => []CasesAccountedFor` | `HapiAccountingProofs` |
| `DoubtsCostFailures` | `ClientsSpec => []DoubtsComeFromFaults` | |
| `ClientsImplementService` | `ClientsSpec => ImplementsService` | `HapiServiceProofs` |
| `BytesImplementLedger` | `WireSpec => ImplementsLedger` | `HapiWireProofs` |
| `CellsAreRecords` | `WireSpec => []WireTypeOK` | |
| `ClientsAreAlike` | `WireSpec => []ClientsEncodeAlike` | |
| `ReadersReadRecords` | `WireSpec => []ReadersAgree` | |

**Assumptions.** Of the ledger: `KeysAssumption`, `NameAssumption`, `CaseIdAssumption`
(there is at least one id), `TransactionsAssumption` (transactions are well typed,
nothing about who signs or what is listed). Of the clients: `ClientsAssumption` (what the
scripts can send is among the transactions), `MethodsAssumption` (a script is made of
the methods and commands there are), `MessageAssumption` (`NoMessage` is no message) and
`NetworksAssumption`: nobody sends lamports to the address of a network. The last one is
about the world: anybody can send lamports to any address, and `cmd_create_address`,
which asks only whether there is an account (`cli/src/tools.rs:19`), then finds one. The
library decodes what it fetches and needs no such assumption. Of the bytes:
`BytesAssumption` (a key has 32 bytes and a name as many as its length says, different
ones differ in them, lengths fit into four bytes, ids into eight, a risk into one),
`RequestsAssumption` (each instruction of a request is one its client can encode, and
`Transactions` are what the requests mean) and `CategoryAssumption` (categories are those
of the enumeration, sets of them have no `Safe`). TLC evaluates all of them in the runs.
That different seeds give different PDAs is part of the model: an address is its seeds.

**The ledger's invariant.** `HapiProofs!Inv` is `TypeOK` and, of the committed ledger
*and* of the working copy, `LedgerOK`: typed, counter exact, every account on its own
address, authors registered. None of these is inductive alone. That a
fresh community has no cases, which the counter needs, follows from every case lying
under an existing community; that opening a case disturbs no other counter needs PDAs to
differ; that `UpdateAddress`, which replaces a reporter's record, breaks no authorship
needs the account to stay, whatever is in it; and after the wrap the counter argument
needs the empty-account check. Two lemmas, `Allocate` and `Rewrite`, say
what a new and a changed account do to `LedgerOK`; `XKeeps` applies them to each handler;
`ExecuteInv` handles success, failure and the runtime's refusal once for all ten;
`Commit` and `Abort` copy one ledger over the other.

**What an instruction has done.** `HapiActionProofs` says of each handler that succeeds
what it has changed and which checks that took (`Founds`, `HandsOver`, `Staffs`,
`OpensCase` and so on: one lemma each), and `SuccessHasEffect` that a step of `Next` with
`InstructionDone` has one of these effects. Each action property follows from the effects
by `XRightly`. Everything that only grows does so through `Later(s, u)`: what is in `s` is
kept in `u`. It is reflexive and transitive, each effect is a case of it, so that
`Later(accounts, work)` is an invariant of any transaction, and `Commit` loses nothing.
`AuthorityGoverns` used to claim every record of a reporter; the attempt to prove it
showed that `UpdateAddress` needs only the reporter's signature to put an address in its
place. The property now excepts that, and the run `communities` has the transaction.

**The register.** A step of the register is a transaction, so its proof relates two
ledgers of any distance: `RegistersGrow` derives from `LedgerOK` of both and `Later`
between them that the registers of the second extend those of the first, with authors
admitted, the capacity kept and no entry altered, the wrap of the counter included
(`Opened`).

**Clients and chain.** `ClientInv` adds `ClientTypeOK` and `LedgerOK(finalAccounts)`: a
client copies the counter of a ledger it read, confirmed or finalized, so that the id it
sends is an id, hence its message is one of `Transactions`, hence `Land` is a `Begin`.

`MessageInv` follows a message from its look-ups to its execution. `Saw(k)`: what client
`k` has seen while it prepares a call still holds, because it was seen in an earlier
ledger and `Later` keeps it: the counter is at least what was read, the network exists.
`SentRightly(m)`: a message is what some call of the script builds, and the call was
`Prepared`. `OneStep`: the running transaction is a message, of one instruction, whose
effect, once executed, is `Executed(accounts, ix, work)`. `OwnReportersEnter` needs of it
that what runs is built by a call (`SentFor`): the case of an update, and the network of
an address, are those of the community that the call names, hence of the reporter whose
signature and record the handler has checked (`SuccessEntersRightly`).

`TurnInv` says whose outcome a client sees. Messages of calls that ended in doubt may land
at any later time; they carry an earlier `turn` than the client's present one, and of the
present turn there is one message at most, the one the client waits for. So an outcome of
Ok is that of its own call. `AnswerInv` adds what Ok means: the case the call was to open
is the client's own and in no answer yet. That it is in no answer needs the address to
have been empty before, that it stays the client's own needs `Later`, and that the answer
with finalized data names the same case needs both.

`CountInv` is a balance: the cases of a client and the messages on their way that can
open one (`Spent`) are no more than its answers, its doubts and the attempt it waits for
(`Owed`). `CasesAccountedFor` alone is not inductive: a message in flight may open a case
long after its doubt. `FoundInv` says that the account a method of `ReporterClient`
returns exists in the state from which its outcome was read, finalized or not; `DoubtInv`
charges a failure also for a client whose message has expired and who has not yet given
it up, since the failure comes before the doubt. TLC found these invariants to
hold of every state of the run `race`, too.

**The service.** `CaseService` knows no accounts, messages or commitments: somebody asks,
a case is opened, at once or late, and somebody is told. `ServiceInv` is the conjunction
of the invariants above, and no new one was needed. `ClientStepServes` shows that a step
of a client asks, tells, refuses or doubts, or changes nothing the service sees; that a
call is told of its own case is `AnswerInv`, that a refused call has opened nothing and
has no message on its way is `TurnInv`. `ChainStepServes` shows the same of the chain:
what is committed is opened, at once if its sender still waits and late if not; what
expires or fails late is lost. `Belated` counts messages, so these lemmas are about how
the cardinality of a finite set changes by one message. The other clients are `Quiet`
throughout.

**Encoder and decoder.** `HapiByteProofs` does with `At(c, k, b)`: the bytes `b` are found
in `c` after the first `k`. Concatenation puts each part where the ones before it end
(`AtParts`), so a struct of at most five fields has each field at its offset
(`Serialized`); each type is read back from where it is found, whatever follows
(`ValueRead`); so a struct is read back from any bytes that begin with it (`StructRead`).
The numbers rest on division (`U32Round`, `U64Round`), the masks on taking the bits of a
sum of powers of two one by one from the lowest (`Peel`, `OrBits`, `MaskRound`). That the
record or instruction at hand fits its layout (`WellFormed`, `Fitting`) is a lemma per
kind and per operation. `Arrives` puts it together: what either client writes of an
instruction the program reads as `MeantInstruction`. `EncodedAlike` and `JsRead` go
through the schemas and states of the library field by field (`SameArgument`,
`SchemasMatch`, `SameValue`, `StatesMatch`).

**The bytes.** `WireInv` is the ledger's `Inv`, that `tx` is what `request` means, and
that `cells` hold `accounts` and `scratch` holds `work` (`CellsHold`: each cell has the
size of its address and begins with the record of its account). From it cells are read as
the ledger (`RecordsAre`), so a handler decides alike on both (`VerdictIs`, `EffectIs`).
It is inductive only because no handler whose verdict is Ok (which a name too long for
its account prevents) writes a record for which its cell has no room (`RoomFor`; `XRoom`
for each handler). The one that could is `UpdateAddress`, which
writes an address into a cell that was allocated for a reporter: it fits since 11 bytes
are fewer than 34. So what a longer record leaves behind can never be read
(`Overwritten`), and `WireStep` maps each step to the ledger's.
`ReadersAgree` used to claim every account; its proof stopped at `CreateAddress`, which
takes any key for a network: the address is then filed under a key that no two names
lead to, and no reader, being given names, ever derives it. The property now excepts
those (`IsNamed`), and accounts whose record is of another kind than their address, which
only `UpdateAddress` makes. `IdsAgree` is proved of the numbers it lists.

**Only model-checked.** `CallsEnd` and `PatienceIsRewarded`, since liveness under fairness
is out of the prover's reach, and the seven claims, which are false.

## 5. What is not modelled

* Lamports, rent and fees beyond "the payer can pay"; hash collisions; `dispose_account`,
  which nothing calls.
* What a failing serialization has written before it fails: the runtime drops it.
* Parsing of arguments other than categories and network paths. A community whose name
  contains a slash is looked up under one name and built under another; which names are
  allowed is nowhere said.
* JavaScript that nothing calls: `u8.fromBuffer` (which converts to base 4 and from base
  16), `mapToBuffer`, `setToBuffer`, `hexToPublicKey`, `createAccountInstruction`,
  `toState` and `serialize` of the classes. `mappings.ts`, names for display. The order
  in which `Case.fromState` sorts the categories (as strings): they are a set here.
* Rollback of confirmed data when the cluster forks.
* Client messages of several instructions: both clients send one. The ledger's runs
  have two.

## 6. Plan

Done, in this order: accounts and handlers; the ledger and its properties; the register
and the refinement; builders and claims; the proofs about the ledger; JS builders, calls,
clients, their properties and claims; the proofs about the clients.

Then the encodings, the wire, its readers and the refinement of the ledger.

Then the proofs of the remaining safety properties: what an instruction has done, the
register, messages, answers, cases and doubts.

Then the service that the clients offer and its proof, and the proofs about the bytes, for
which the encodings were rewritten without recursion.

What could follow:

1. Liveness by hand: `PatienceIsRewarded` rests on a variant (calls left, repetitions
   left, look-ups left) of which the safety half could be proved: that no step of anyone
   raises it except a failure.
2. Messages of several instructions from clients, if the clients come to send them: the
   ledger, its proofs and the bytes have them already, `OneStep` and `Spent` have not.
3. The wire under clients: `HapiClients` over `HapiWire` instead of `HapiLedger`. Both
   implement the ledger; what joins them is that the messages of `HapiCalls` are requests
   (`ClientsAssumption` with `RequestsAssumption`).
