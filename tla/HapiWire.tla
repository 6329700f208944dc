------------------------------- MODULE HapiWire -------------------------------
(***************************************************************************)
(* The program on bytes.  A message carries the data of its instructions   *)
(* as one of the clients has encoded it, an account is a cell: a run of    *)
(* bytes allocated once, at the size of the largest record of its kind,    *)
(* and overwritten from its beginning ever after.  The program decodes     *)
(* what it is given, decides as in HapiProcessor, and encodes what it      *)
(* writes; whatever a shorter record leaves of a longer one stays behind   *)
(* it in the cell.                                                         *)
(*                                                                         *)
(* Decoded, this is HapiLedger: no client sends what it does not mean, and *)
(* nothing the program has written is ever read as something else.         *)
(***************************************************************************)
EXTENDS HapiJsEncoding, HapiLedger

CONSTANT Requests       \* [by : {"rust", "js"}, tx : a transaction]

VARIABLES
    cells,          \* address -> the bytes of its account
    scratch,        \* the working copy of the running transaction
    request         \* the request whose message is running, or NoTx

\* The instruction and how it goes are pc and verdict of the ledger.  What
\* cells, scratch and request decode to is kept in its accounts, work and tx,
\* which nothing else depends on.
wireVars == <<cells, scratch, request, vars>>

-----------------------------------------------------------------------------
(* Messages.                                                               *)

Data(by, ix) == IF by = "js" THEN encode(ix) ELSE try_to_vec(ix)

Received(by, ix) == Unpack(Data(by, ix), ix.accounts)

\* A request as the program sees it.
Decoded(r) ==
    [r.tx EXCEPT !.instructions =
        [i \in DOMAIN @ |-> Received(r.by, @[i])]]

\* A set of categories cannot have Safe for a member: it is the mask 0.
\* The library's UpdateCommunity is no instruction of the program.
MeantInstruction(by, ix) ==
    IF by = "js" /\ ix.op = "UpdateCommunity" THEN Malformed(ix.accounts)
    ELSE IF "categories" \in DOMAIN ix
         THEN [ix EXCEPT !.categories = @ \ {"Safe"}] ELSE ix

Meant(r) ==
    [r.tx EXCEPT !.instructions =
        [i \in DOMAIN @ |-> MeantInstruction(r.by, @[i])]]

\* What a client can encode.  The library has no UpdateNetwork.
Encodable(by, ix) ==
    /\ ix.op # "Malformed"
    /\ by = "js" => ix.op # "UpdateNetwork"
    /\ by = "js" /\ ix.op = "UpdateCommunity" =>
           "name" \in DOMAIN ix /\ ix.name \in Name
    /\ "categories" \in DOMAIN ix => ix.categories \subseteq Category
    /\ MeantInstruction(by, ix) \in Instruction

IsSequence(s) == s \in Seq({s[i] : i \in DOMAIN s})

ASSUME RequestsAssumption ==
    /\ NoTx \notin Requests
    /\ \A r \in Requests :
           /\ r.by \in {"js", "rust"}
           /\ IsSequence(r.tx.instructions)
           /\ \A i \in DOMAIN r.tx.instructions :
                  Encodable(r.by, r.tx.instructions[i])
    /\ Transactions = {Meant(r) : r \in Requests}

\* The categories there are, and sets of them as they are read from a mask.
ASSUME CategoryAssumption ==
    /\ Category \subseteq {Categories[i] : i \in DOMAIN Categories}
    /\ \A c \in CategorySet : c \subseteq Category \ {"Safe"}

-----------------------------------------------------------------------------
(* Accounts.                                                               *)

KindOf(cell) == HapiAccountType[cell[1] + 1]

Record(cell) ==
    try_from_slice_unchecked(AccountLayout[KindOf(cell)], cell).struct

Records(m) == [a \in DOMAIN m |-> Record(m[a])]

try_record_to_vec(d) == serialize(AccountLayout[d.account_type], d)

Zeroed(size) == [i \in 1 .. size |-> 0]

\* Fault: an account is allocated at the size of its first record.
Allocated_Exact(d) == Zeroed(Len(try_record_to_vec(d)))

Allocated(d) == Zeroed(MaxSize[d.account_type])

Cell(m, a, d) == IF a \in DOMAIN m THEN m[a] ELSE Allocated(d)

Fits(m, a, d) == Len(try_record_to_vec(d)) <= Len(Cell(m, a, d))

\* account_data.serialize(&mut *account_info.data.borrow_mut())
Overwrite(cell, bytes) ==
    [i \in DOMAIN cell |-> IF i \in DOMAIN bytes THEN bytes[i] ELSE cell[i]]

-----------------------------------------------------------------------------
(* process: the handler that goes with the instruction.                    *)

VerdictOf(s, t, ix) ==
    CASE ix.op = "Malformed"       -> "InvalidInstructionData"
      [] ix.op = "CreateCommunity" -> CreateCommunityVerdict(s, t, ix)
      [] ix.op = "UpdateCommunity" -> UpdateCommunityVerdict(s, t, ix)
      [] ix.op = "CreateNetwork"   -> CreateNetworkVerdict(s, t, ix)
      [] ix.op = "UpdateNetwork"   -> UpdateNetworkVerdict(s, t, ix)
      [] ix.op = "CreateReporter"  -> CreateReporterVerdict(s, t, ix)
      [] ix.op = "UpdateReporter"  -> UpdateReporterVerdict(s, t, ix)
      [] ix.op = "CreateCase"      -> CreateCaseVerdict(s, t, ix)
      [] ix.op = "UpdateCase"      -> UpdateCaseVerdict(s, t, ix)
      [] ix.op = "CreateAddress"   -> CreateAddressVerdict(s, t, ix)
      [] ix.op = "UpdateAddress"   -> UpdateAddressVerdict(s, t, ix)

EffectOf(s, ix) ==
    CASE ix.op = "CreateCommunity" -> CreateCommunityEffect(s, ix)
      [] ix.op = "UpdateCommunity" -> UpdateCommunityEffect(s, ix)
      [] ix.op = "CreateNetwork"   -> CreateNetworkEffect(s, ix)
      [] ix.op = "CreateReporter"  -> CreateReporterEffect(s, ix)
      [] ix.op = "UpdateReporter"  -> UpdateReporterEffect(s, ix)
      [] ix.op = "CreateCase"      -> CreateCaseEffect(s, ix)
      [] ix.op = "UpdateCase"      -> UpdateCaseEffect(s, ix)
      [] ix.op = "CreateAddress"   -> CreateAddressEffect(s, ix)
      [] ix.op = "UpdateAddress"   -> UpdateAddressEffect(s, ix)

-----------------------------------------------------------------------------
WireInit == /\ cells = << >>
            /\ scratch = cells
            /\ request = NoTx
            /\ Init

Receive(r) == /\ request = NoTx
              /\ request' = r
              /\ tx' = Decoded(r)
              /\ UNCHANGED <<cells, scratch, pc, verdict, accounts, work>>

Incoming == Received(request.by, request.tx.instructions[pc])

InProgress == /\ request # NoTx
              /\ verdict = Ok
              /\ pc <= Len(request.tx.instructions)

Stop(error) == /\ Fail(error)
               /\ UNCHANGED <<cells, scratch, request>>

\* The accounts that are not as they were are encoded and written.
Store(s, new) ==
    LET written == Changed(s, new)
        result  ==    Require(\A a \in written : Fits(scratch, a, new[a]),
                              "BorshIoError")
                   ?? Require(written \subseteq request.tx.writable,
                              "ReadonlyDataModified")
    IN  IF result # Ok THEN Stop(result)
        ELSE /\ scratch' = [a \in DOMAIN new |->
                   IF a \in written
                   THEN Overwrite(Cell(scratch, a, new[a]),
                                  try_record_to_vec(new[a]))
                   ELSE scratch[a]]
             /\ work' = Records(scratch')
             /\ pc' = pc + 1
             /\ UNCHANGED <<cells, request, verdict, accounts, tx>>

Handle == /\ InProgress
          /\ LET s      == Records(scratch)
                 checks == VerdictOf(s, request.tx, Incoming)
             IN  IF checks # Ok THEN Stop(checks)
                 ELSE Store(s, EffectOf(s, Incoming))

Keep == /\ request # NoTx
        /\ verdict = Ok
        /\ pc > Len(request.tx.instructions)
        /\ cells' = scratch
        /\ accounts' = Records(cells')
        /\ request' = NoTx
        /\ UNCHANGED <<scratch, work>>
        /\ Finish

Drop == /\ request # NoTx
        /\ verdict # Ok
        /\ scratch' = cells
        /\ work' = Records(scratch')
        /\ request' = NoTx
        /\ UNCHANGED <<cells, accounts>>
        /\ Finish

WireNext == \/ \E r \in Requests : Receive(r)
            \/ Handle
            \/ Keep
            \/ Drop

WireSpec == WireInit /\ [][WireNext]_wireVars
===============================================================================
