----------------------------- MODULE HapiLedger -----------------------------
(***************************************************************************)
(* The program on the chain.  The runtime executes one transaction at a    *)
(* time against a working copy of the accounts, instruction by             *)
(* instruction; the copy becomes the ledger when the last instruction has  *)
(* succeeded and is dropped as soon as one fails.  Which transaction comes *)
(* next is up to the environment: reporters and authorities submit them    *)
(* independently and the network orders them as it likes, so any           *)
(* transaction of the set Transactions may come at any time, and again.    *)
(***************************************************************************)
EXTENDS HapiProcessor, FiniteSets

CONSTANTS
    Transactions,   \* what the authorities and reporters submit
    NoTx            \* no transaction is running

ASSUME TransactionsAssumption == /\ Transactions \subseteq Transaction
                                 /\ NoTx \notin Transactions

VARIABLES
    accounts,       \* the ledger
    work,           \* the working copy of the running transaction
    tx,             \* the running transaction, or NoTx
    pc,             \* its next instruction
    verdict         \* Ok, or the error that ends it

vars == <<accounts, work, tx, pc, verdict>>

Init == /\ accounts = << >>     \* nothing is allocated
        /\ work = accounts
        /\ tx = NoTx
        /\ pc = 1
        /\ verdict = Ok

Begin(t) == /\ tx = NoTx
            /\ tx' = t
            /\ UNCHANGED <<accounts, work, pc, verdict>>

-----------------------------------------------------------------------------
(***************************************************************************)
(* One instruction: the runtime refuses an instruction that has changed    *)
(* an account the transaction may not write.                               *)
(***************************************************************************)
Changed(old, new) ==
    {a \in DOMAIN new : a \notin DOMAIN old \/ new[a] # old[a]}

\* The instruction the handler runs; its op selects the handler.
Instr == tx.instructions[pc]

Running(op) == /\ tx # NoTx
               /\ verdict = Ok
               /\ pc <= Len(tx.instructions)
               /\ Instr.op = op

Succeed(effect) == /\ work' = effect
                   /\ pc' = pc + 1
                   /\ UNCHANGED <<accounts, tx, verdict>>

Fail(error) == /\ verdict' = error
               /\ UNCHANGED <<accounts, work, tx, pc>>

Execute(checks, effect) ==
    LET result == checks ?? Require(Changed(work, effect) \subseteq tx.writable,
                                    "ReadonlyDataModified")
    IN  IF result = Ok THEN Succeed(effect) ELSE Fail(result)

CreateCommunity == /\ Running("CreateCommunity")
                   /\ Execute(CreateCommunityVerdict(work, tx, Instr),
                              CreateCommunityEffect(work, Instr))

UpdateCommunity == /\ Running("UpdateCommunity")
                   /\ Execute(UpdateCommunityVerdict(work, tx, Instr),
                              UpdateCommunityEffect(work, Instr))

CreateNetwork == /\ Running("CreateNetwork")
                 /\ Execute(CreateNetworkVerdict(work, tx, Instr),
                            CreateNetworkEffect(work, Instr))

UpdateNetwork == /\ Running("UpdateNetwork")
                 /\ Fail(UpdateNetworkVerdict(work, tx, Instr))

CreateReporter == /\ Running("CreateReporter")
                  /\ Execute(CreateReporterVerdict(work, tx, Instr),
                             CreateReporterEffect(work, Instr))

UpdateReporter == /\ Running("UpdateReporter")
                  /\ Execute(UpdateReporterVerdict(work, tx, Instr),
                             UpdateReporterEffect(work, Instr))

CreateCase == /\ Running("CreateCase")
              /\ Execute(CreateCaseVerdict(work, tx, Instr),
                         CreateCaseEffect(work, Instr))

UpdateCase == /\ Running("UpdateCase")
              /\ Execute(UpdateCaseVerdict(work, tx, Instr),
                         UpdateCaseEffect(work, Instr))

CreateAddress == /\ Running("CreateAddress")
                 /\ Execute(CreateAddressVerdict(work, tx, Instr),
                            CreateAddressEffect(work, Instr))

UpdateAddress == /\ Running("UpdateAddress")
                 /\ Execute(UpdateAddressVerdict(work, tx, Instr),
                            UpdateAddressEffect(work, Instr))

\* Data that is no instruction reaches no handler.
Reject == /\ Running("Malformed")
          /\ Fail("InvalidInstructionData")

Process == \/ Reject
           \/ CreateCommunity \/ UpdateCommunity
           \/ CreateNetwork   \/ UpdateNetwork
           \/ CreateReporter  \/ UpdateReporter
           \/ CreateCase      \/ UpdateCase
           \/ CreateAddress   \/ UpdateAddress

-----------------------------------------------------------------------------
\* Back to idle, the working copy in step with the ledger again.
Finish == /\ tx' = NoTx
          /\ pc' = 1
          /\ verdict' = Ok

Commit == /\ tx # NoTx
          /\ verdict = Ok
          /\ pc > Len(tx.instructions)
          /\ accounts' = work
          /\ UNCHANGED work
          /\ Finish

Abort == /\ tx # NoTx
         /\ verdict # Ok
         /\ work' = accounts
         /\ UNCHANGED accounts
         /\ Finish

Next == \/ \E t \in Transactions : Begin(t)
        \/ Process
        \/ Commit
        \/ Abort

Spec == Init /\ [][Next]_vars
=============================================================================
