-------------------------- MODULE HapiWireProperties --------------------------
(***************************************************************************)
(* What the bytes have to keep: cells of the right size, the same reading  *)
(* of them by everybody, the same writing of instructions by both clients, *)
(* and the ledger of HapiLedger behind them.                               *)
(***************************************************************************)
EXTENDS HapiReaders

KindAt == [community |-> "Community", network |-> "Network",
           reporter |-> "Reporter", case |-> "Case", address |-> "Address"]

\* What was allocated for the account at address a.
SizeAt(a) == MaxSize[KindAt[a[1]]]

LengthOf(d) == IF "name" \in DOMAIN d
               THEN SizeWithoutName[d.account_type] + NameLen[d.name]
               ELSE MaxSize[d.account_type]

BeginsWith(cell, bytes) == /\ Len(bytes) <= Len(cell)
                           /\ \A i \in DOMAIN bytes : cell[i] = bytes[i]

CellOK(a, cell) ==
    LET d == Record(cell)
    IN  /\ cell \in [1 .. SizeAt(a) -> Byte]
        /\ LengthOf(d) = Len(try_record_to_vec(d))
        /\ BeginsWith(cell, try_record_to_vec(d))

\* An account has the size of the largest record of its kind from its creation
\* on, whichever record it has held since, and begins with an encoded record
\* as long as the sizes of HapiAccounts say (tools/account.rs:44-86).
WireTypeOK ==
    /\ request \in Requests \cup {NoTx}
    /\ pc \in Nat \ {0}
    /\ verdict \in VerdictType
    /\ \A a \in DOMAIN cells : CellOK(a, cells[a])
    /\ \A a \in DOMAIN scratch : CellOK(a, scratch[a])

-----------------------------------------------------------------------------
(* Readers.                                                                *)

\* The values of the library for those of the program.
InJs(f, v) ==
    CASE f = "account_type"  -> JsEnum.HapiAccountType[v]
      [] f = "reporter_type" -> JsEnum.ReporterType[v]
      [] f = "status"        -> JsEnum.CaseStatus[v]
      [] f = "categories"    -> {CategoryValue[c] : c \in v}
      [] f = "category"      -> CategoryValue[v]
      [] f = "next_case_id"  -> u64(v)
      [] f = "case_id"       -> BN(v)
      [] OTHER               -> v

RecordInJs(d) == [f \in DOMAIN d |-> InJs(f, d[f])]

\* What the command and the method for the account at address a show.
CommandShows(a) ==
    CASE a[1] = "community" -> cmd_get_community(a[2])
      [] a[1] = "network"   -> cmd_get_network(a[2][2], a[3])
      [] a[1] = "reporter"  -> cmd_get_reporter(a[2][2], a[3])
      [] a[1] = "case"      -> cmd_get_case(a[2][2], a[3])
      [] a[1] = "address"   -> cmd_get_address(a[2][2][2], a[2][3], a[3])

LibraryShows(a) ==
    CASE a[1] = "community" -> getCommunity(a[2])
      [] a[1] = "network"   -> getNetwork(a[3], a[2][2])
      [] a[1] = "reporter"  -> getReporter(a[3], a[2][2])
      [] a[1] = "case"      -> getCase(u64(a[3]), a[2][2])
      [] a[1] = "address"   -> getAddress(a[3], a[2][3], a[2][2][2])

\* The readers are given names.  CreateAddress takes any key for a network
\* (process_create_address.rs:62-66): what is filed under one that is no
\* network's address is out of their reach.
IsNamed(a) == a[1] = "address" =>
    \E c, n \in Name : a[2] = NetworkAddress(CommunityAddress(c), n)

\* Whoever reads an account reads the record the program keeps in it, in spite
\* of what longer records have left behind it: the commands with the layouts
\* of the program, the library with its own (state/*.ts), whose sizes are
\* those of the program, too.  An account whose record is of another kind, the
\* reporter's that UpdateAddress has overwritten, is excepted.
ReadersAgree ==
    \A a \in DOMAIN cells :
        LET d == Record(cells[a])
        IN  d.account_type = KindAt[a[1]] /\ IsNamed(a) =>
                /\ CommandShows(a) = Shown(d)
                /\ LibraryShows(a) = Shown(RecordInJs(d))
                /\ StateOf[d.account_type].size = Len(cells[a])

-----------------------------------------------------------------------------
(* Clients.                                                                *)

\* Numbers about the ends of each byte, as far as TLC counts.
Numbers == {0, 1, 255, 256, 65535, 65536, 16777215, 16777216, 2147483647}

\* The library's ids as seeds, its categories, and the path by which the Rust
\* builders are told of a network.
IdsAgree == \A n \in Numbers : /\ toBuffer(u64(n)) = U64Bytes(n)
                               /\ fromBuffer(bnToBuffer(n, 8)) = n

CategoriesAgree ==
    \A c \in Category :
        /\ categoryToBinary(CategoryValue[c]) = IndexOf(Categories, c)
        /\ \A d \in Category :
               categoriesToBitmask({CategoryValue[c], CategoryValue[d]})
                   = Bitmask({c, d})

HasNoSlash(name) ==
    \A i \in DOMAIN NameBytes[name] : NameBytes[name][i] # Slash

PathLeadsTo(a) ==
    parse_network_path(NetworkPath(a[2][2], a[3]))
        = <<NameBytes[a[2][2]], NameBytes[a[3]]>>

\* The library writes every instruction it has a builder for as the Rust
\* builders do, although it declares the enumerations, the bit masks and the
\* structs anew ("This enum must match the order of a smart contract enum",
\* enums.ts:1, :15, :25, :33); both make the same seeds of an id; and every
\* network of a community without a slash is found by its path
\* (tools/mod.rs:19-34).
ClientsEncodeAlike ==
    /\ request # NoTx =>
           \A i \in DOMAIN request.tx.instructions :
               LET ix == request.tx.instructions[i]
               IN  ix.op \notin {"UpdateCommunity", "UpdateNetwork"} =>
                       encode(ix) = try_to_vec(ix)
    /\ IdsAgree
    /\ CategoriesAgree
    /\ \A a \in DOMAIN cells :
           a[1] = "network" /\ HasNoSlash(a[2][2]) => PathLeadsTo(a)

-----------------------------------------------------------------------------
\* Decoded, the program on bytes is the program on records: each message
\* arrives as what its sender meant, and each record is read as it was last
\* written.
ImplementsLedger == Spec

-----------------------------------------------------------------------------
(* A claim that TLC refutes.                                               *)

\* The orders in which the node may return the accounts.
Orders == {order \in [1 .. Cardinality(DOMAIN cells) -> DOMAIN cells] :
               \A i, j \in DOMAIN order : order[i] = order[j] => i = j}

\* "List all program accounts" (cli/src/main.rs:252): whatever the order, every
\* account is printed.
EverythingIsListed ==
    \A order \in Orders : DOMAIN cmd_list_accounts(order) = DOMAIN order
===============================================================================
