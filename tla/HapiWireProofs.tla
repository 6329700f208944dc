--------------------------- MODULE HapiWireProofs ---------------------------
(***************************************************************************)
(* The program on bytes implements the ledger, so that every theorem about *)
(* the ledger holds of it; every cell has room for whatever is written     *)
(* into it; and whoever reads a cell reads the record that the program     *)
(* keeps in it.  For any requests of the two clients.                      *)
(***************************************************************************)
EXTENDS HapiByteProofs

-----------------------------------------------------------------------------
(* Requests.                                                               *)

\* What the program sees of a request is what its sender means.
LEMMA RequestIs ==
  ASSUME NEW r \in Requests
  PROVE  /\ Decoded(r) = Meant(r)
         /\ Meant(r) \in Transactions /\ Meant(r) # NoTx /\ r # NoTx
         /\ Meant(r).signers = r.tx.signers
         /\ Meant(r).writable = r.tx.writable
         /\ Len(Meant(r).instructions) \in Nat
         /\ Len(Meant(r).instructions) = Len(r.tx.instructions)
         /\ \A i \in 1 .. Len(r.tx.instructions) :
                /\ Encodable(r.by, r.tx.instructions[i])
                /\ Meant(r).instructions[i]
                       = Received(r.by, r.tx.instructions[i])
<1>1. PICK s : s = r.tx.instructions
  OBVIOUS
<1>2. /\ r.by \in {"js", "rust"}
      /\ s \in Seq({s[i] : i \in DOMAIN s})
      /\ \A i \in DOMAIN s : Encodable(r.by, s[i])
  BY <1>1, RequestsAssumption DEF IsSequence
<1>3. Len(s) \in Nat /\ DOMAIN s = 1 .. Len(s)
  BY <1>2
<1>4. \A i \in DOMAIN s : Received(r.by, s[i]) = MeantInstruction(r.by, s[i])
  BY <1>2, Arrives
<1>5. PICK t : t = [i \in DOMAIN s |-> MeantInstruction(r.by, s[i])]
  OBVIOUS
<1>6. t = [i \in DOMAIN s |-> Received(r.by, s[i])]
  BY <1>4, <1>5
<1>7. Meant(r) = [r.tx EXCEPT !.instructions = t]
  BY <1>1, <1>5, Zenon DEF Meant
<1>8. Decoded(r) = [r.tx EXCEPT !.instructions = t]
  BY <1>1, <1>6, Zenon DEF Decoded
<1>9. /\ Meant(r) \in Transactions
      /\ Meant(r) # NoTx /\ r # NoTx
  BY RequestsAssumption, TransactionsAssumption
<1>10. DOMAIN Meant(r) = {"signers", "writable", "instructions"}
  BY <1>9, TransactionsAssumption DEF Transaction
<1>11. DOMAIN r.tx = {"signers", "writable", "instructions"}
  BY <1>7, <1>10
<1>12. /\ Meant(r).signers = r.tx.signers
       /\ Meant(r).writable = r.tx.writable
       /\ Meant(r).instructions = t
  BY <1>7, <1>11
<1>13. Len(t) = Len(s)
  BY <1>3, <1>5
<1>. QED
  BY <1>1, <1>2, <1>3, <1>6, <1>7, <1>8, <1>9, <1>12, <1>13

-----------------------------------------------------------------------------
(* Cells.                                                                  *)

CellHolds(a, c, d) == /\ c \in [1 .. SizeAt(a) -> Byte]
                      /\ At(c, 0, try_record_to_vec(d))

CellsHold(m, s) == /\ DOMAIN m = DOMAIN s
                   /\ \A a \in DOMAIN s : CellHolds(a, m[a], s[a])

\* What the addresses of the ledger say of their accounts.
LEMMA AddressKinds ==
  /\ KindAt["community"] = "Community" /\ KindAt["network"] = "Network"
  /\ KindAt["reporter"] = "Reporter" /\ KindAt["case"] = "Case"
  /\ KindAt["address"] = "Address"
  /\ MaxSize.Community = 73 /\ MaxSize.Network = 33 /\ MaxSize.Reporter = 34
  /\ MaxSize.Case = 71 /\ MaxSize.Address = 11
  /\ \A x, y : /\ CommunityAddress(x)[1] = "community"
               /\ NetworkAddress(x, y)[1] = "network"
               /\ ReporterAddress(x, y)[1] = "reporter"
               /\ CaseAddress(x, y)[1] = "case"
               /\ AddressAddress(x, y)[1] = "address"
<1>1. /\ KindAt["community"] = "Community" /\ KindAt["network"] = "Network"
      /\ KindAt["reporter"] = "Reporter" /\ KindAt["case"] = "Case"
      /\ KindAt["address"] = "Address"
  BY DEF KindAt
<1>2. /\ MaxSize.Community = 73 /\ MaxSize.Network = 33
      /\ MaxSize.Reporter = 34 /\ MaxSize.Case = 71 /\ MaxSize.Address = 11
  BY SMT DEF MaxSize
<1>3. \A x, y : /\ CommunityAddress(x)[1] = "community"
                /\ NetworkAddress(x, y)[1] = "network"
                /\ ReporterAddress(x, y)[1] = "reporter"
                /\ CaseAddress(x, y)[1] = "case"
                /\ AddressAddress(x, y)[1] = "address"
  BY DEF CommunityAddress, NetworkAddress, ReporterAddress, CaseAddress,
         AddressAddress
<1>. QED
  BY <1>1, <1>2, <1>3

\* Only an address in a reporter's account is of another kind than its PDA.
LEMMA OwnKind ==
  ASSUME NEW s, LedgerOK(s), NEW a \in DOMAIN s
  PROVE  /\ s[a] \in AccountData
         /\ SizeAt(a) \in Nat
         /\ \/ KindAt[a[1]] = s[a].account_type
            \/ s[a].account_type = "Address" /\ a[1] = "reporter"
<1>1. s[a] \in AccountData /\ OnItsOwnAddress(s, a)
  BY DEF LedgerOK, IsLedger
<1>2. \/ s[a].account_type = "Community" /\ a[1] = "community"
      \/ s[a].account_type = "Network" /\ a[1] = "network"
      \/ s[a].account_type \in {"Reporter", "Address"} /\ a[1] = "reporter"
      \/ s[a].account_type = "Case" /\ a[1] = "case"
      \/ s[a].account_type = "Address" /\ a[1] = "address"
  BY <1>1, AddressKinds DEF OnItsOwnAddress
<1>3. a[1] \in {"community", "network", "reporter", "case", "address"}
  BY <1>2
<1>4. SizeAt(a) \in Nat
  BY <1>3, AddressKinds DEF SizeAt
<1>. QED
  BY <1>1, <1>2, <1>4, AddressKinds

\* Cells that hold a ledger are read as that ledger.
LEMMA CellRead ==
  ASSUME NEW s, LedgerOK(s), NEW m, CellsHold(m, s), NEW a \in DOMAIN s
  PROVE  /\ m[a] \in Seq(Byte) /\ Len(m[a]) = SizeAt(a)
         /\ At(m[a], 0, try_record_to_vec(s[a]))
         /\ Record(m[a]) = s[a]
         /\ KindOf(m[a]) = s[a].account_type
         /\ LengthOf(s[a]) <= SizeAt(a)
         /\ CellOK(a, m[a])
<1>1. PICK c : c = m[a]
  OBVIOUS
<1>2. PICK d \in AccountData : d = s[a]
  BY OwnKind
<1>3. PICK n \in Nat : n = SizeAt(a)
  BY OwnKind
<1>4. c \in [1 .. n -> Byte] /\ At(c, 0, try_record_to_vec(d))
  BY <1>1, <1>2, <1>3 DEF CellsHold, CellHolds
<1>5. c \in Seq(Byte) /\ Len(c) = n
  BY <1>4, FunctionIsSequence
<1>6. Record(c) = d /\ KindOf(c) = d.account_type
  BY <1>4, <1>5, RecordRead
<1>7. PICK r \in Seq(Byte) : /\ r = try_record_to_vec(d)
                             /\ LengthOf(d) = Len(r)
  BY RecordBytes
<1>8. At(c, 0, r)
  BY <1>4, <1>7
<1>9. Len(r) <= n /\ BeginsWith(c, r)
  BY <1>5, <1>8 DEF At, BeginsWith
<1>10. CellOK(a, c)
  BY <1>3, <1>4, <1>6, <1>7, <1>9 DEF CellOK
<1>. QED
  BY <1>1, <1>2, <1>3, <1>4, <1>5, <1>6, <1>7, <1>9, <1>10

LEMMA RecordsAre ==
  ASSUME NEW s, LedgerOK(s), NEW m, CellsHold(m, s)
  PROVE  Records(m) = s
<1>1. \A a \in DOMAIN s : Record(m[a]) = s[a]
  BY CellRead
<1>2. DOMAIN m = DOMAIN s /\ s = [a \in DOMAIN s |-> s[a]]
  BY DEF CellsHold, LedgerOK, IsLedger
<1>. QED
  BY <1>1, <1>2 DEF Records

\* A record written over a cell that is long enough lies in it.
LEMMA Overwritten ==
  ASSUME NEW n \in Nat, NEW c \in [1 .. n -> Byte],
         NEW b \in Seq(Byte), Len(b) <= n
  PROVE  /\ Overwrite(c, b) \in [1 .. n -> Byte]
         /\ At(Overwrite(c, b), 0, b)
<1>1. PICK o : o = Overwrite(c, b)
  OBVIOUS
<1>2. \A i \in DOMAIN b : i \in 1 .. Len(b) /\ b[i] \in Byte
  OBVIOUS
<1>3. o = [i \in 1 .. n |-> IF i \in DOMAIN b THEN b[i] ELSE c[i]]
  BY <1>1 DEF Overwrite
<1>4. o \in [1 .. n -> Byte]
  BY <1>2, <1>3
<1>5. Len(o) = n
  BY <1>4, FunctionIsSequence
<1>6. \A i \in 1 .. Len(b) : o[0 + i] = b[i]
  BY <1>3
<1>. QED
  BY <1>1, <1>4, <1>5, <1>6 DEF At

-----------------------------------------------------------------------------
(* No handler writes a record its cell has no room for.                    *)

HasRoom(s) == \A a \in DOMAIN s : LengthOf(s[a]) <= SizeAt(a)

RoomFor(s, u) ==
    /\ DOMAIN s \subseteq DOMAIN u
    /\ \A a \in Changed(s, u) :
           /\ LengthOf(u[a]) <= SizeAt(a)
           /\ a \notin DOMAIN s => KindAt[a[1]] = u[a].account_type

\* A ledger has room for one more record that fits.
LEMMA PutRoom ==
  ASSUME NEW s, NEW a, NEW d, LengthOf(d) <= SizeAt(a),
         a \notin DOMAIN s => KindAt[a[1]] = d.account_type
  PROVE  RoomFor(s, Put(s, a, d))
<1>1. PICK u : u = Put(s, a, d)
  OBVIOUS
<1>2. /\ DOMAIN u = DOMAIN s \cup {a} /\ u[a] = d
      /\ \A x \in DOMAIN s : x # a => u[x] = s[x]
  BY <1>1 DEF Put
<1>3. Changed(s, u) \subseteq {a}
  BY <1>2 DEF Changed
<1>. QED
  BY <1>1, <1>2, <1>3 DEF RoomFor

\* The sizes that are not those of a name.
LEMMA NamedSizes ==
  /\ \A kind \in {"Community", "Network", "Reporter", "Case"} :
         SizeWithoutName[kind] \in Nat /\ MaxSize[kind] \in Nat
  /\ \A kind, name : Serializes(kind, name) = Ok =>
         SizeWithoutName[kind] + NameLen[name] <= MaxSize[kind]
<1>1. \A kind \in {"Community", "Network", "Reporter", "Case"} :
          SizeWithoutName[kind] \in Nat /\ MaxSize[kind] \in Nat
  BY SMT DEF SizeWithoutName, MaxSize
<1>2. \A kind, name : Serializes(kind, name) = Ok =>
          SizeWithoutName[kind] + NameLen[name] <= MaxSize[kind]
  BY DEF Serializes, Require, Ok
<1>. QED
  BY <1>1, <1>2

\* A record with a name that serializes fits into the cell of its kind.
LEMMA NamedFits ==
  ASSUME NEW d, "name" \in DOMAIN d, NEW a, NEW kind,
         d.account_type = kind, KindAt[a[1]] = kind,
         Serializes(kind, d.name) = Ok
  PROVE  LengthOf(d) <= SizeAt(a)
<1>1. LengthOf(d) = SizeWithoutName[kind] + NameLen[d.name]
  BY Zenon DEF LengthOf
<1>2. SizeAt(a) = MaxSize[kind]
  BY DEF SizeAt
<1>. QED
  BY <1>1, <1>2, NamedSizes, Zenon

\* A record that keeps its name keeps its length.
LEMMA SameLength ==
  ASSUME NEW d, NEW e, DOMAIN d = DOMAIN e, d.account_type = e.account_type,
         d.name = e.name
  PROVE  LengthOf(d) = LengthOf(e)
BY Zenon DEF LengthOf

LEMMA AddressLength ==
  ASSUME NEW d \in Address
  PROVE  LengthOf(d) = 11 /\ d.account_type = "Address"
<1>1. "name" \notin DOMAIN d /\ d.account_type = "Address"
  BY DEF Address
<1>2. LengthOf(d) = MaxSize[d.account_type]
  BY <1>1, Zenon DEF LengthOf
<1>. QED
  BY <1>1, <1>2, AddressKinds

\* Each handler writes only what there is room for.
LEMMA CreateCommunityRoom ==
  ASSUME NEW s, LedgerOK(s), HasRoom(s), NEW t, NEW ix \in Instruction,
         ix.op = "CreateCommunity", CreateCommunityVerdict(s, t, ix) = Ok
  PROVE  RoomFor(s, CreateCommunityEffect(s, ix))
<1>. DEFINE a == ix.accounts[2]
            d == [account_type |-> "Community", authority |-> ix.accounts[1],
                  next_case_id |-> 0, name |-> ix.name]
<1>1. a = CommunityAddress(ix.name) /\ Serializes("Community", ix.name) = Ok
  <2>1. /\ CreateAccount(t, ix.accounts[1], a, CommunityAddress(ix.name),
                         ix.accounts[3]) = Ok
        /\ Serializes("Community", ix.name) = Ok
    BY ThenOk DEF CreateCommunityVerdict
  <2>. QED
    BY <2>1, CallPasses
<1>2. KindAt[a[1]] = "Community"
  BY <1>1, AddressKinds
<1>3. "name" \in DOMAIN d /\ d.name = ix.name /\ d.account_type = "Community"
  OBVIOUS
<1>. HIDE DEF d
<1>4. LengthOf(d) <= SizeAt(a)
  BY <1>1, <1>2, <1>3, NamedFits
<1>. QED
  BY <1>2, <1>3, <1>4, PutRoom DEF CreateCommunityEffect, d

LEMMA UpdateCommunityRoom ==
  ASSUME NEW s, LedgerOK(s), HasRoom(s), NEW t, NEW ix \in Instruction,
         ix.op = "UpdateCommunity", UpdateCommunityVerdict(s, t, ix) = Ok
  PROVE  RoomFor(s, UpdateCommunityEffect(s, ix))
<1>. DEFINE a == ix.accounts[2]
            d == [s[a] EXCEPT !.authority = IF Len(ix.accounts) >= 3
                                            THEN ix.accounts[3] ELSE @]
<1>1. Holds(s, a, "Community")
  <2>1. HasAuthority(s, a, ix.accounts[1]) = Ok
    BY ThenOk DEF UpdateCommunityVerdict
  <2>. QED
    BY <2>1, ChecksPass
<1>2. a \in DOMAIN s /\ s[a] \in Community
  BY <1>1, DataFields DEF Holds, LedgerOK, IsLedger
<1>3. /\ DOMAIN d = DOMAIN s[a] /\ d.account_type = s[a].account_type
      /\ d.name = s[a].name
  BY <1>2 DEF Community
<1>. HIDE DEF d
<1>4. LengthOf(d) <= SizeAt(a)
  BY <1>2, <1>3, SameLength DEF HasRoom
<1>. QED
  BY <1>2, <1>4, PutRoom DEF UpdateCommunityEffect, d

LEMMA CreateNetworkRoom ==
  ASSUME NEW s, LedgerOK(s), HasRoom(s), NEW t, NEW ix \in Instruction,
         ix.op = "CreateNetwork", CreateNetworkVerdict(s, t, ix) = Ok
  PROVE  RoomFor(s, CreateNetworkEffect(s, ix))
<1>. DEFINE a == ix.accounts[2]
            d == [account_type |-> "Network", name |-> ix.name]
<1>1. /\ a = NetworkAddress(ix.accounts[3], ix.name)
      /\ Serializes("Network", ix.name) = Ok
  <2>1. /\ CreateAccount(t, ix.accounts[1], a,
                         NetworkAddress(ix.accounts[3], ix.name),
                         ix.accounts[4]) = Ok
        /\ Serializes("Network", ix.name) = Ok
    BY ThenOk DEF CreateNetworkVerdict
  <2>. QED
    BY <2>1, CallPasses
<1>2. KindAt[a[1]] = "Network"
  BY <1>1, AddressKinds
<1>3. "name" \in DOMAIN d /\ d.name = ix.name /\ d.account_type = "Network"
  OBVIOUS
<1>. HIDE DEF d
<1>4. LengthOf(d) <= SizeAt(a)
  BY <1>1, <1>2, <1>3, NamedFits
<1>. QED
  BY <1>2, <1>3, <1>4, PutRoom DEF CreateNetworkEffect, d

LEMMA CreateReporterRoom ==
  ASSUME NEW s, LedgerOK(s), HasRoom(s), NEW t, NEW ix \in Instruction,
         ix.op = "CreateReporter", CreateReporterVerdict(s, t, ix) = Ok
  PROVE  RoomFor(s, CreateReporterEffect(s, ix))
<1>. DEFINE a == ix.accounts[4]
            d == [account_type |-> "Reporter",
                  reporter_type |-> ix.reporter_type, name |-> ix.name]
<1>1. /\ a = ReporterAddress(ix.accounts[2], ix.accounts[3])
      /\ Serializes("Reporter", ix.name) = Ok
  <2>1. /\ CreateAccount(t, ix.accounts[1], a,
                         ReporterAddress(ix.accounts[2], ix.accounts[3]),
                         ix.accounts[5]) = Ok
        /\ Serializes("Reporter", ix.name) = Ok
    BY ThenOk DEF CreateReporterVerdict
  <2>. QED
    BY <2>1, CallPasses
<1>2. KindAt[a[1]] = "Reporter"
  BY <1>1, AddressKinds
<1>3. "name" \in DOMAIN d /\ d.name = ix.name /\ d.account_type = "Reporter"
  OBVIOUS
<1>. HIDE DEF d
<1>4. LengthOf(d) <= SizeAt(a)
  BY <1>1, <1>2, <1>3, NamedFits
<1>. QED
  BY <1>2, <1>3, <1>4, PutRoom DEF CreateReporterEffect, d

LEMMA UpdateReporterRoom ==
  ASSUME NEW s, LedgerOK(s), HasRoom(s), NEW t, NEW ix \in Instruction,
         ix.op = "UpdateReporter", UpdateReporterVerdict(s, t, ix) = Ok
  PROVE  RoomFor(s, UpdateReporterEffect(s, ix))
<1>. DEFINE a == ix.accounts[3]
            d == [s[a] EXCEPT !.name = ix.name,
                              !.reporter_type = ix.reporter_type]
<1>1. /\ Holds(s, a, "Reporter")
      /\ a = ReporterAddress(ix.accounts[2], ix.accounts[4])
      /\ Serializes("Reporter", ix.name) = Ok
  <2>1. /\ ReporterBelongs(s, a, ix.accounts[2], ix.accounts[4]) = Ok
        /\ Serializes("Reporter", ix.name) = Ok
    BY ThenOk DEF UpdateReporterVerdict
  <2>. QED
    BY <2>1, ChecksPass
<1>2. a \in DOMAIN s /\ s[a] \in Reporter
  BY <1>1, DataFields DEF Holds, LedgerOK, IsLedger
<1>3. KindAt[a[1]] = "Reporter"
  BY <1>1, AddressKinds
<1>4. "name" \in DOMAIN d /\ d.name = ix.name /\ d.account_type = "Reporter"
  BY <1>2 DEF Reporter
<1>. HIDE DEF d
<1>5. LengthOf(d) <= SizeAt(a)
  BY <1>1, <1>3, <1>4, NamedFits
<1>. QED
  BY <1>2, <1>5, PutRoom DEF UpdateReporterEffect, d

LEMMA CreateCaseRoom ==
  ASSUME NEW s, LedgerOK(s), HasRoom(s), NEW t, NEW ix \in Instruction,
         ix.op = "CreateCase", CreateCaseVerdict(s, t, ix) = Ok
  PROVE  RoomFor(s, CreateCaseEffect(s, ix))
<1>. DEFINE c == ix.accounts[2]
            a == ix.accounts[4]
            b == [s[c] EXCEPT !.next_case_id = (@ + 1) % CaseIdCount]
            d == [account_type |-> "Case", reporter_key |-> ix.accounts[1],
                  categories |-> ix.categories, status |-> ix.status,
                  name |-> ix.name]
            v == Put(s, c, b)
<1>1. /\ Holds(s, c, "Community")
      /\ a = CaseAddress(c, ix.case_id)
      /\ Serializes("Case", ix.name) = Ok
  <2>1. /\ ValidAccount(s, c, "Community") = Ok
        /\ CreateAccount(t, ix.accounts[1], a, CaseAddress(c, ix.case_id),
                         ix.accounts[5]) = Ok
        /\ Serializes("Case", ix.name) = Ok
    BY ThenOk DEF CreateCaseVerdict
  <2>. QED
    BY <2>1, ChecksPass, CallPasses
<1>2. c \in DOMAIN s /\ s[c] \in Community
  BY <1>1, DataFields DEF Holds, LedgerOK, IsLedger
<1>3. /\ DOMAIN b = DOMAIN s[c] /\ b.account_type = s[c].account_type
      /\ b.name = s[c].name
  BY <1>2 DEF Community
<1>4. KindAt[a[1]] = "Case"
  BY <1>1, AddressKinds
<1>5. "name" \in DOMAIN d /\ d.name = ix.name /\ d.account_type = "Case"
  OBVIOUS
<1>. HIDE DEF b, d
<1>6. LengthOf(b) <= SizeAt(c)
  BY <1>2, <1>3, SameLength DEF HasRoom
<1>7. LengthOf(d) <= SizeAt(a)
  BY <1>1, <1>4, <1>5, NamedFits
<1>8. RoomFor(s, v)
  BY <1>2, <1>6, PutRoom
<1>9. DOMAIN v = DOMAIN s
  BY <1>2 DEF Put
<1>. HIDE DEF v
<1>10. RoomFor(v, Put(v, a, d))
  BY <1>4, <1>5, <1>7, PutRoom
<1>11. Changed(s, Put(v, a, d)) \subseteq Changed(s, v) \cup {a}
  BY <1>9 DEF Changed, Put
<1>12. ASSUME NEW x \in Changed(s, Put(v, a, d))
       PROVE  /\ LengthOf(Put(v, a, d)[x]) <= SizeAt(x)
              /\ x \notin DOMAIN s =>
                     KindAt[x[1]] = Put(v, a, d)[x].account_type
  <2>1. CASE x = a
    BY <2>1, <1>4, <1>5, <1>7 DEF Put
  <2>2. CASE x # a
    BY <2>2, <1>8, <1>11 DEF Put, RoomFor, Changed
  <2>. QED
    BY <2>1, <2>2
<1>13. RoomFor(s, Put(v, a, d))
  BY <1>9, <1>10, <1>12 DEF RoomFor
<1>. QED
  BY <1>13 DEF CreateCaseEffect, v, b, d

LEMMA UpdateCaseRoom ==
  ASSUME NEW s, LedgerOK(s), HasRoom(s), NEW t, NEW ix \in Instruction,
         ix.op = "UpdateCase", UpdateCaseVerdict(s, t, ix) = Ok
  PROVE  RoomFor(s, UpdateCaseEffect(s, ix))
<1>. DEFINE a == ix.accounts[4]
            d == [s[a] EXCEPT !.categories = ix.categories,
                              !.status = ix.status]
<1>1. Holds(s, a, "Case")
  <2>1. ValidAccount(s, a, "Case") = Ok
    BY ThenOk DEF UpdateCaseVerdict
  <2>. QED
    BY <2>1, ChecksPass
<1>2. a \in DOMAIN s /\ s[a] \in Case
  BY <1>1, DataFields DEF Holds, LedgerOK, IsLedger
<1>3. /\ DOMAIN d = DOMAIN s[a] /\ d.account_type = s[a].account_type
      /\ d.name = s[a].name
  BY <1>2 DEF Case
<1>. HIDE DEF d
<1>4. LengthOf(d) <= SizeAt(a)
  BY <1>2, <1>3, SameLength DEF HasRoom
<1>. QED
  BY <1>2, <1>4, PutRoom DEF UpdateCaseEffect, d

LEMMA CreateAddressRoom ==
  ASSUME NEW s, LedgerOK(s), HasRoom(s), NEW t, NEW ix \in Instruction,
         ix.op = "CreateAddress", CreateAddressVerdict(s, t, ix) = Ok
  PROVE  RoomFor(s, CreateAddressEffect(s, ix))
<1>. DEFINE a == ix.accounts[6]
            d == [account_type |-> "Address", risk |-> ix.risk,
                  case_id |-> ix.case_id, category |-> ix.category]
<1>1. a = AddressAddress(ix.accounts[3], ix.address)
  <2>1. CreateAccount(t, ix.accounts[1], a,
                      AddressAddress(ix.accounts[3], ix.address),
                      ix.accounts[7]) = Ok
    BY ThenOk DEF CreateAddressVerdict
  <2>. QED
    BY <2>1, CallPasses
<1>2. d \in Address
  BY DEF Instruction, Address
<1>. HIDE DEF d
<1>3. LengthOf(d) = 11 /\ d.account_type = "Address"
  BY <1>2, AddressLength
<1>4. KindAt[a[1]] = "Address" /\ SizeAt(a) = 11
  BY <1>1, AddressKinds DEF SizeAt
<1>. QED
  BY <1>3, <1>4, PutRoom DEF CreateAddressEffect, d

\* The reporter's cell that UpdateAddress writes an address into is the larger
\* one.
LEMMA UpdateAddressRoom ==
  ASSUME NEW s, LedgerOK(s), HasRoom(s), NEW t, NEW ix \in Instruction,
         ix.op = "UpdateAddress", UpdateAddressVerdict(s, t, ix) = Ok
  PROVE  RoomFor(s, UpdateAddressEffect(s, ix))
<1>. DEFINE a == ix.accounts[3]
            e == ix.accounts[5]
            d == [s[e] EXCEPT !.risk = ix.risk, !.case_id = ix.case_id,
                              !.category = ix.category]
<1>1. /\ Holds(s, a, "Reporter")
      /\ a = ReporterAddress(ix.accounts[2], ix.accounts[1])
      /\ Holds(s, e, "Address")
  <2>1. /\ ValidAccount(s, e, "Address") = Ok
        /\ ReporterBelongs(s, a, ix.accounts[2], ix.accounts[1]) = Ok
    BY ThenOk DEF UpdateAddressVerdict
  <2>. QED
    BY <2>1, ChecksPass
<1>2. a \in DOMAIN s /\ s[e] \in Address
  BY <1>1, DataFields DEF Holds, LedgerOK, IsLedger
<1>3. d \in Address
  BY <1>2 DEF Instruction, Address
<1>. HIDE DEF d
<1>4. LengthOf(d) = 11
  BY <1>3, AddressLength
<1>5. SizeAt(a) = 34
  BY <1>1, AddressKinds DEF SizeAt
<1>6. LengthOf(d) <= SizeAt(a)
  BY <1>4, <1>5
<1>. QED
  BY <1>2, <1>6, PutRoom DEF UpdateAddressEffect, d

-----------------------------------------------------------------------------
(* The steps.                                                              *)

\* What is encoded and written into cells is held by them.
LEMMA StoreHolds ==
  ASSUME NEW s, LedgerOK(s), NEW m, CellsHold(m, s),
         NEW u, LedgerOK(u), RoomFor(s, u), NEW w, w = Changed(s, u),
         NEW n, n = [a \in DOMAIN u |->
                         IF a \in w THEN Overwrite(Cell(m, a, u[a]),
                                                   try_record_to_vec(u[a]))
                         ELSE m[a]]
  PROVE  (\A a \in w : Fits(m, a, u[a])) /\ CellsHold(n, u)
<1>1. ASSUME NEW a \in w
      PROVE  Fits(m, a, u[a]) /\ CellHolds(a, n[a], u[a])
  <2>1. a \in DOMAIN u
    BY <1>1 DEF Changed
  <2>2. PICK d \in AccountData : d = u[a]
    BY <2>1, OwnKind
  <2>3. PICK k \in Nat : k = SizeAt(a)
    BY <2>1, OwnKind
  <2>4. PICK b \in Seq(Byte) : /\ b = try_record_to_vec(d)
                               /\ LengthOf(d) = Len(b)
    BY RecordBytes
  <2>5. Len(b) <= k
    BY <1>1, <2>2, <2>3, <2>4 DEF RoomFor
  <2>6. PICK c : c = Cell(m, a, d)
    OBVIOUS
  <2>7. c \in [1 .. k -> Byte]
    <3>1. CASE a \in DOMAIN s
      <4>1. c = m[a]
        BY <2>6, <3>1 DEF Cell, CellsHold
      <4>. QED
        BY <3>1, <4>1, <2>3 DEF CellsHold, CellHolds
    <3>2. CASE a \notin DOMAIN s
      <4>1. KindAt[a[1]] = d.account_type
        BY <1>1, <2>2, <3>2 DEF RoomFor
      <4>2. MaxSize[d.account_type] = k
        BY <2>3, <4>1 DEF SizeAt
      <4>3. c = Zeroed(k)
        BY <2>6, <3>2, <4>2 DEF Cell, CellsHold, Allocated
      <4>4. 0 \in Byte
        BY SMT DEF Byte
      <4>. QED
        BY <4>3, <4>4 DEF Zeroed
    <3>. QED
      BY <3>1, <3>2
  <2>8. Len(c) = k
    BY <2>7, FunctionIsSequence
  <2>9. Fits(m, a, d)
    BY <2>4, <2>5, <2>6, <2>8 DEF Fits
  <2>10. n[a] = Overwrite(c, b)
    <3>1. n[a] = Overwrite(Cell(m, a, u[a]), try_record_to_vec(u[a]))
      BY <1>1, <2>1
    <3>. QED
      BY <2>2, <2>4, <2>6, <3>1, Zenon
  <2>11. n[a] \in [1 .. k -> Byte] /\ At(n[a], 0, b)
    <3>1. Overwrite(c, b) \in [1 .. k -> Byte] /\ At(Overwrite(c, b), 0, b)
      BY <2>5, <2>7, Overwritten
    <3>. QED
      BY <2>10, <3>1
  <2>. QED
    BY <2>2, <2>3, <2>4, <2>9, <2>11 DEF CellHolds
<1>2. ASSUME NEW a \in DOMAIN u, a \notin w
      PROVE  CellHolds(a, n[a], u[a])
  BY <1>2 DEF Changed, CellsHold
<1>. QED
  BY <1>1, <1>2 DEF CellsHold

\* What the verdicts of the handlers know of a message.
LEMMA SameVerdict ==
  ASSUME NEW s, NEW t, NEW u, t.signers = u.signers, t.writable = u.writable,
         NEW ix
  PROVE  VerdictOf(s, t, ix) = VerdictOf(s, u, ix)
<1>1. \A key : Signed(t, key) = Signed(u, key)
  BY DEF Signed
<1>2. \A payer, a, pda, system : CreateAccount(t, payer, a, pda, system)
                                     = CreateAccount(u, payer, a, pda, system)
  BY DEF CreateAccount
<1>3. CreateCommunityVerdict(s, t, ix) = CreateCommunityVerdict(s, u, ix)
  BY <1>1, <1>2 DEF CreateCommunityVerdict
<1>4. UpdateCommunityVerdict(s, t, ix) = UpdateCommunityVerdict(s, u, ix)
  BY <1>1, <1>2 DEF UpdateCommunityVerdict
<1>5. CreateNetworkVerdict(s, t, ix) = CreateNetworkVerdict(s, u, ix)
  BY <1>1, <1>2 DEF CreateNetworkVerdict
<1>6. CreateReporterVerdict(s, t, ix) = CreateReporterVerdict(s, u, ix)
  BY <1>1, <1>2 DEF CreateReporterVerdict
<1>7. UpdateReporterVerdict(s, t, ix) = UpdateReporterVerdict(s, u, ix)
  BY <1>1, <1>2 DEF UpdateReporterVerdict
<1>8. CreateCaseVerdict(s, t, ix) = CreateCaseVerdict(s, u, ix)
  BY <1>1, <1>2 DEF CreateCaseVerdict
<1>9. UpdateCaseVerdict(s, t, ix) = UpdateCaseVerdict(s, u, ix)
  BY <1>1, <1>2 DEF UpdateCaseVerdict
<1>10. CreateAddressVerdict(s, t, ix) = CreateAddressVerdict(s, u, ix)
  BY <1>1, <1>2 DEF CreateAddressVerdict
<1>11. UpdateAddressVerdict(s, t, ix) = UpdateAddressVerdict(s, u, ix)
  BY <1>1, <1>2 DEF UpdateAddressVerdict
<1>12. UpdateNetworkVerdict(s, t, ix) = UpdateNetworkVerdict(s, u, ix)
  BY <1>1, <1>2 DEF UpdateNetworkVerdict
<1>. QED
  BY <1>3, <1>4, <1>5, <1>6, <1>7, <1>8, <1>9, <1>10, <1>11, <1>12 DEF VerdictOf

\* The CASEs on instructions, one by one.
LEMMA VerdictIs ==
  ASSUME NEW s, NEW t, NEW ix
  PROVE  /\ ix.op = "Malformed" =>
                VerdictOf(s, t, ix) = "InvalidInstructionData"
         /\ ix.op = "CreateCommunity" =>
                VerdictOf(s, t, ix) = CreateCommunityVerdict(s, t, ix)
         /\ ix.op = "UpdateCommunity" =>
                VerdictOf(s, t, ix) = UpdateCommunityVerdict(s, t, ix)
         /\ ix.op = "CreateNetwork" =>
                VerdictOf(s, t, ix) = CreateNetworkVerdict(s, t, ix)
         /\ ix.op = "CreateReporter" =>
                VerdictOf(s, t, ix) = CreateReporterVerdict(s, t, ix)
         /\ ix.op = "UpdateReporter" =>
                VerdictOf(s, t, ix) = UpdateReporterVerdict(s, t, ix)
         /\ ix.op = "CreateCase" =>
                VerdictOf(s, t, ix) = CreateCaseVerdict(s, t, ix)
         /\ ix.op = "UpdateCase" =>
                VerdictOf(s, t, ix) = UpdateCaseVerdict(s, t, ix)
         /\ ix.op = "CreateAddress" =>
                VerdictOf(s, t, ix) = CreateAddressVerdict(s, t, ix)
         /\ ix.op = "UpdateAddress" =>
                VerdictOf(s, t, ix) = UpdateAddressVerdict(s, t, ix)
         /\ ix.op = "UpdateNetwork" =>
                VerdictOf(s, t, ix) = UpdateNetworkVerdict(s, t, ix)
BY DEF VerdictOf

LEMMA EffectIs ==
  ASSUME NEW s, NEW ix
  PROVE  /\ ix.op = "CreateCommunity" =>
                EffectOf(s, ix) = CreateCommunityEffect(s, ix)
         /\ ix.op = "UpdateCommunity" =>
                EffectOf(s, ix) = UpdateCommunityEffect(s, ix)
         /\ ix.op = "CreateNetwork" =>
                EffectOf(s, ix) = CreateNetworkEffect(s, ix)
         /\ ix.op = "CreateReporter" =>
                EffectOf(s, ix) = CreateReporterEffect(s, ix)
         /\ ix.op = "UpdateReporter" =>
                EffectOf(s, ix) = UpdateReporterEffect(s, ix)
         /\ ix.op = "CreateCase" =>
                EffectOf(s, ix) = CreateCaseEffect(s, ix)
         /\ ix.op = "UpdateCase" =>
                EffectOf(s, ix) = UpdateCaseEffect(s, ix)
         /\ ix.op = "CreateAddress" =>
                EffectOf(s, ix) = CreateAddressEffect(s, ix)
         /\ ix.op = "UpdateAddress" =>
                EffectOf(s, ix) = UpdateAddressEffect(s, ix)
BY DEF EffectOf

\* The ledger behind the bytes: the cells are its records, and the running
\* transaction is what the sender of the message means.
WireInv == /\ Inv
           /\ request \in Requests \cup {NoTx}
           /\ request = NoTx => tx = NoTx
           /\ request # NoTx => tx = Meant(request)
           /\ CellsHold(cells, accounts)
           /\ CellsHold(scratch, work)

\* A running transaction has its request's signatures, locks and length.
LEMMA InTransaction ==
  ASSUME WireInv, request # NoTx
  PROVE  /\ tx \in Transactions /\ tx # NoTx
         /\ tx.signers = request.tx.signers
         /\ tx.writable = request.tx.writable
         /\ Len(tx.instructions) = Len(request.tx.instructions)
         /\ Len(tx.instructions) \in Nat /\ pc \in Nat
         /\ pc \in 1 .. Len(tx.instructions) => Incoming = Instr
<1>1. request \in Requests /\ tx = Meant(request) /\ pc \in Nat
  BY DEF WireInv, Inv, TypeOK
<1>. QED
  BY <1>1, RequestIs DEF Incoming, Instr

\* What is stored of an instruction is what the ledger writes.
LEMMA StoreStep ==
  ASSUME WireInv, request # NoTx, NEW checks, NEW effect,
         checks = Ok => LedgerOK(effect) /\ RoomFor(work, effect),
         IF checks # Ok THEN Stop(checks) ELSE Store(work, effect)
  PROVE  /\ Execute(checks, effect)
         /\ CellsHold(scratch', work')
         /\ cells' = cells /\ request' = request
<1>1. CASE checks # Ok
  <2>1. Fail(checks) /\ UNCHANGED <<cells, scratch, request>>
    BY <1>1 DEF Stop
  <2>2. Execute(checks, effect)
    BY <1>1, <2>1 DEF Execute, ??
  <2>. QED
    BY <2>1, <2>2 DEF Fail, WireInv
<1>2. CASE checks = Ok
  <2>1. PICK w : w = Changed(work, effect)
    OBVIOUS
  <2>2. PICK writes : writes = Require(w \subseteq tx.writable,
                                       "ReadonlyDataModified")
    OBVIOUS
  <2>3. PICK n : n = [a \in DOMAIN effect |->
                          IF a \in w
                          THEN Overwrite(Cell(scratch, a, effect[a]),
                                         try_record_to_vec(effect[a]))
                          ELSE scratch[a]]
    OBVIOUS
  <2>4. /\ LedgerOK(work) /\ CellsHold(scratch, work)
        /\ LedgerOK(effect) /\ RoomFor(work, effect)
    BY <1>2 DEF WireInv, Inv
  <2>5. (\A a \in w : Fits(scratch, a, effect[a])) /\ CellsHold(n, effect)
    BY <2>1, <2>3, <2>4, StoreHolds
  <2>6. Require(\A a \in w : Fits(scratch, a, effect[a]), "BorshIoError") = Ok
    BY <2>5, Zenon DEF Require
  <2>7. request.tx.writable = tx.writable
    BY InTransaction
  <2>8. Store(work, effect)
    BY <1>2
  <2>9. \/ writes # Ok /\ Stop(writes)
        \/ /\ writes = Ok /\ scratch' = n /\ work' = Records(scratch')
           /\ pc' = pc + 1
           /\ UNCHANGED <<cells, request, verdict, accounts, tx>>
    BY <2>1, <2>2, <2>3, <2>6, <2>7, <2>8, Zenon DEF Store, ??
  <2>10. CASE writes # Ok /\ Stop(writes)
    <3>1. Fail(writes) /\ UNCHANGED <<cells, scratch, request>>
      BY <2>10 DEF Stop
    <3>2. Execute(checks, effect)
      BY <1>2, <2>1, <2>2, <2>10, <3>1 DEF Execute, ??
    <3>. QED
      BY <3>1, <3>2 DEF Fail, WireInv
  <2>11. CASE /\ writes = Ok /\ scratch' = n /\ work' = Records(scratch')
              /\ pc' = pc + 1
              /\ UNCHANGED <<cells, request, verdict, accounts, tx>>
    <3>1. Records(n) = effect
      BY <2>4, <2>5, RecordsAre
    <3>2. work' = effect
      BY <2>11, <3>1
    <3>3. Execute(checks, effect)
      BY <1>2, <2>1, <2>2, <2>11, <3>2 DEF Execute, Succeed, ??
    <3>. QED
      BY <2>5, <2>11, <3>2, <3>3
  <2>. QED
    BY <2>9, <2>10, <2>11
<1>. QED
  BY <1>1, <1>2

\* A handler on bytes is that handler on records.
LEMMA HandleStep ==
  ASSUME WireInv, Handle
  PROVE  /\ Process
         /\ CellsHold(scratch', work')
         /\ cells' = cells /\ request' = request
<1>1. /\ request # NoTx /\ verdict = Ok
      /\ pc \in 1 .. Len(tx.instructions) /\ tx # NoTx
      /\ Incoming = Instr
  BY InTransaction DEF Handle, InProgress, WireInv, Inv, TypeOK
<1>2. \A op : Instr.op = op => Running(op)
  BY <1>1 DEF Running
<1>3. Instr \in Instruction
  BY <1>2, RunningInstruction DEF WireInv, Inv
<1>4. LedgerOK(work) /\ HasRoom(work) /\ Records(scratch) = work
  BY CellRead, RecordsAre DEF WireInv, Inv, HasRoom
<1>5. PICK checks : checks = VerdictOf(work, tx, Instr)
  OBVIOUS
<1>6. VerdictOf(work, request.tx, Instr) = checks
  BY <1>1, <1>5, InTransaction, SameVerdict
<1>7. PICK effect : effect = EffectOf(work, Instr)
  OBVIOUS
<1>8. IF checks # Ok THEN Stop(checks) ELSE Store(work, effect)
  BY <1>1, <1>4, <1>6, <1>7 DEF Handle
<1>9. CASE Instr.op = "CreateCommunity"
  <2>1. /\ checks = CreateCommunityVerdict(work, tx, Instr)
        /\ effect = CreateCommunityEffect(work, Instr)
    BY <1>9, <1>5, <1>7, VerdictIs, EffectIs
  <2>2. checks = Ok => LedgerOK(effect) /\ RoomFor(work, effect)
    BY <1>9, <1>3, <1>4, <2>1, CreateCommunityKeeps, CreateCommunityRoom
  <2>3. /\ Execute(checks, effect)
        /\ CellsHold(scratch', work')
        /\ cells' = cells /\ request' = request
    BY <1>1, <1>8, <2>2, StoreStep
  <2>. QED
    BY <1>9, <1>2, <2>1, <2>3 DEF Process, CreateCommunity
<1>10. CASE Instr.op = "UpdateCommunity"
  <2>1. /\ checks = UpdateCommunityVerdict(work, tx, Instr)
        /\ effect = UpdateCommunityEffect(work, Instr)
    BY <1>10, <1>5, <1>7, VerdictIs, EffectIs
  <2>2. checks = Ok => LedgerOK(effect) /\ RoomFor(work, effect)
    BY <1>10, <1>3, <1>4, <2>1, UpdateCommunityKeeps, UpdateCommunityRoom
  <2>3. /\ Execute(checks, effect)
        /\ CellsHold(scratch', work')
        /\ cells' = cells /\ request' = request
    BY <1>1, <1>8, <2>2, StoreStep
  <2>. QED
    BY <1>10, <1>2, <2>1, <2>3 DEF Process, UpdateCommunity
<1>11. CASE Instr.op = "CreateNetwork"
  <2>1. /\ checks = CreateNetworkVerdict(work, tx, Instr)
        /\ effect = CreateNetworkEffect(work, Instr)
    BY <1>11, <1>5, <1>7, VerdictIs, EffectIs
  <2>2. checks = Ok => LedgerOK(effect) /\ RoomFor(work, effect)
    BY <1>11, <1>3, <1>4, <2>1, CreateNetworkKeeps, CreateNetworkRoom
  <2>3. /\ Execute(checks, effect)
        /\ CellsHold(scratch', work')
        /\ cells' = cells /\ request' = request
    BY <1>1, <1>8, <2>2, StoreStep
  <2>. QED
    BY <1>11, <1>2, <2>1, <2>3 DEF Process, CreateNetwork
<1>12. CASE Instr.op = "CreateReporter"
  <2>1. /\ checks = CreateReporterVerdict(work, tx, Instr)
        /\ effect = CreateReporterEffect(work, Instr)
    BY <1>12, <1>5, <1>7, VerdictIs, EffectIs
  <2>2. checks = Ok => LedgerOK(effect) /\ RoomFor(work, effect)
    BY <1>12, <1>3, <1>4, <2>1, CreateReporterKeeps, CreateReporterRoom
  <2>3. /\ Execute(checks, effect)
        /\ CellsHold(scratch', work')
        /\ cells' = cells /\ request' = request
    BY <1>1, <1>8, <2>2, StoreStep
  <2>. QED
    BY <1>12, <1>2, <2>1, <2>3 DEF Process, CreateReporter
<1>13. CASE Instr.op = "UpdateReporter"
  <2>1. /\ checks = UpdateReporterVerdict(work, tx, Instr)
        /\ effect = UpdateReporterEffect(work, Instr)
    BY <1>13, <1>5, <1>7, VerdictIs, EffectIs
  <2>2. checks = Ok => LedgerOK(effect) /\ RoomFor(work, effect)
    BY <1>13, <1>3, <1>4, <2>1, UpdateReporterKeeps, UpdateReporterRoom
  <2>3. /\ Execute(checks, effect)
        /\ CellsHold(scratch', work')
        /\ cells' = cells /\ request' = request
    BY <1>1, <1>8, <2>2, StoreStep
  <2>. QED
    BY <1>13, <1>2, <2>1, <2>3 DEF Process, UpdateReporter
<1>14. CASE Instr.op = "CreateCase"
  <2>1. /\ checks = CreateCaseVerdict(work, tx, Instr)
        /\ effect = CreateCaseEffect(work, Instr)
    BY <1>14, <1>5, <1>7, VerdictIs, EffectIs
  <2>2. checks = Ok => LedgerOK(effect) /\ RoomFor(work, effect)
    BY <1>14, <1>3, <1>4, <2>1, CreateCaseKeeps, CreateCaseRoom
  <2>3. /\ Execute(checks, effect)
        /\ CellsHold(scratch', work')
        /\ cells' = cells /\ request' = request
    BY <1>1, <1>8, <2>2, StoreStep
  <2>. QED
    BY <1>14, <1>2, <2>1, <2>3 DEF Process, CreateCase
<1>15. CASE Instr.op = "UpdateCase"
  <2>1. /\ checks = UpdateCaseVerdict(work, tx, Instr)
        /\ effect = UpdateCaseEffect(work, Instr)
    BY <1>15, <1>5, <1>7, VerdictIs, EffectIs
  <2>2. checks = Ok => LedgerOK(effect) /\ RoomFor(work, effect)
    BY <1>15, <1>3, <1>4, <2>1, UpdateCaseKeeps, UpdateCaseRoom
  <2>3. /\ Execute(checks, effect)
        /\ CellsHold(scratch', work')
        /\ cells' = cells /\ request' = request
    BY <1>1, <1>8, <2>2, StoreStep
  <2>. QED
    BY <1>15, <1>2, <2>1, <2>3 DEF Process, UpdateCase
<1>16. CASE Instr.op = "CreateAddress"
  <2>1. /\ checks = CreateAddressVerdict(work, tx, Instr)
        /\ effect = CreateAddressEffect(work, Instr)
    BY <1>16, <1>5, <1>7, VerdictIs, EffectIs
  <2>2. checks = Ok => LedgerOK(effect) /\ RoomFor(work, effect)
    BY <1>16, <1>3, <1>4, <2>1, CreateAddressKeeps, CreateAddressRoom
  <2>3. /\ Execute(checks, effect)
        /\ CellsHold(scratch', work')
        /\ cells' = cells /\ request' = request
    BY <1>1, <1>8, <2>2, StoreStep
  <2>. QED
    BY <1>16, <1>2, <2>1, <2>3 DEF Process, CreateAddress
<1>17. CASE Instr.op = "UpdateAddress"
  <2>1. /\ checks = UpdateAddressVerdict(work, tx, Instr)
        /\ effect = UpdateAddressEffect(work, Instr)
    BY <1>17, <1>5, <1>7, VerdictIs, EffectIs
  <2>2. checks = Ok => LedgerOK(effect) /\ RoomFor(work, effect)
    BY <1>17, <1>3, <1>4, <2>1, UpdateAddressKeeps, UpdateAddressRoom
  <2>3. /\ Execute(checks, effect)
        /\ CellsHold(scratch', work')
        /\ cells' = cells /\ request' = request
    BY <1>1, <1>8, <2>2, StoreStep
  <2>. QED
    BY <1>17, <1>2, <2>1, <2>3 DEF Process, UpdateAddress
<1>18. ASSUME checks # Ok
      PROVE  /\ Fail(checks) /\ CellsHold(scratch', work')
             /\ cells' = cells /\ request' = request
  BY <1>18, <1>8 DEF Stop, Fail, WireInv
<1>19. CASE Instr.op = "UpdateNetwork"
  <2>1. checks = UpdateNetworkVerdict(work, tx, Instr)
    BY <1>19, <1>5, VerdictIs
  <2>2. checks # Ok
    BY <2>1, ThenOk DEF UpdateNetworkVerdict, Ok
  <2>. QED
    BY <1>18, <1>19, <1>2, <2>1, <2>2 DEF Process, UpdateNetwork
<1>20. CASE Instr.op = "Malformed"
  <2>1. checks = "InvalidInstructionData"
    BY <1>20, <1>5, VerdictIs
  <2>2. checks # Ok
    BY <2>1 DEF Ok
  <2>. QED
    BY <1>18, <1>20, <1>2, <2>1, <2>2 DEF Process, Reject
<1>21. Instr.op \in {"Malformed", "CreateCommunity", "UpdateCommunity",
                  "CreateNetwork", "UpdateNetwork", "CreateReporter",
                  "UpdateReporter", "CreateCase", "UpdateCase",
                  "CreateAddress", "UpdateAddress"}
  BY <1>3 DEF Instruction
<1>. QED
  BY <1>9, <1>10, <1>11, <1>12, <1>13, <1>14, <1>15, <1>16, <1>17,
     <1>19, <1>20, <1>21

-----------------------------------------------------------------------------
(* The program on bytes implements the program on records.                 *)

\* At the beginning there are no cells and no records.
LEMMA WireInitInv == WireInit => Init /\ WireInv
<1>. SUFFICES ASSUME WireInit PROVE Init /\ WireInv
  OBVIOUS
<1>1. Init /\ Inv
  BY InitInv DEF WireInit
<1>2. DOMAIN cells = {} /\ DOMAIN accounts = {}
  BY DEF WireInit, Init
<1>3. CellsHold(cells, accounts)
  BY <1>2 DEF CellsHold
<1>. QED
  BY <1>1, <1>3 DEF WireInit, Init, WireInv

\* Every step on bytes is one of the ledger, and the cells go on holding its
\* records.
LEMMA WireStep ==
  ASSUME WireInv, [WireNext]_wireVars
  PROVE  [Next]_vars /\ WireInv'
<1>1. ASSUME NEW r \in Requests, Receive(r)
      PROVE  Next /\ CellsHold(cells', accounts') /\ CellsHold(scratch', work')
             /\ request' \in Requests
             /\ request' # NoTx /\ tx' = Meant(request')
  <2>1. /\ Decoded(r) = Meant(r) /\ Meant(r) \in Transactions /\ r # NoTx
    BY RequestIs
  <2>2. Begin(Meant(r))
    BY <1>1, <2>1 DEF Receive, Begin, WireInv
  <2>. QED
    BY <1>1, <2>1, <2>2 DEF Next, Receive, WireInv
<1>2. ASSUME Handle
      PROVE  Next /\ CellsHold(cells', accounts') /\ CellsHold(scratch', work')
             /\ request' = request /\ tx' = tx
  <2>1. /\ Process /\ CellsHold(scratch', work')
        /\ cells' = cells /\ request' = request
    BY <1>2, HandleStep
  <2>2. accounts' = accounts /\ tx' = tx
    BY <2>1 DEF Process, Reject, CreateCommunity, UpdateCommunity,
                CreateNetwork, UpdateNetwork, CreateReporter, UpdateReporter,
                CreateCase, UpdateCase, CreateAddress, UpdateAddress,
                Execute, Succeed, Fail
  <2>. QED
    BY <2>1, <2>2 DEF Next, WireInv
<1>3. ASSUME Keep
      PROVE  Next /\ CellsHold(cells', accounts') /\ CellsHold(scratch', work')
             /\ request' = NoTx /\ tx' = NoTx
  <2>1. Records(scratch) = work
    BY RecordsAre DEF WireInv, Inv
  <2>2. /\ accounts' = work /\ work' = work
        /\ cells' = scratch /\ scratch' = scratch
    BY <1>3, <2>1 DEF Keep
  <2>3. Commit
    BY <1>3, <2>2, InTransaction DEF Keep, Commit
  <2>. QED
    BY <1>3, <2>2, <2>3 DEF Next, Keep, Finish, WireInv
<1>4. ASSUME Drop
      PROVE  Next /\ CellsHold(cells', accounts') /\ CellsHold(scratch', work')
             /\ request' = NoTx /\ tx' = NoTx
  <2>1. Records(cells) = accounts
    BY RecordsAre DEF WireInv, Inv
  <2>2. work' = accounts /\ accounts' = accounts /\ scratch' = cells
        /\ cells' = cells
    BY <1>4, <2>1 DEF Drop
  <2>3. Abort
    BY <1>4, <2>2, InTransaction DEF Drop, Abort
  <2>. QED
    BY <1>4, <2>2, <2>3 DEF Next, Drop, Finish, WireInv
<1>5. ASSUME UNCHANGED wireVars
      PROVE  UNCHANGED vars /\ UNCHANGED <<cells, scratch, request>>
  BY <1>5 DEF wireVars
<1>6. [Next]_vars
  BY <1>1, <1>2, <1>3, <1>4, <1>5 DEF WireNext
<1>7. Inv'
  BY <1>6, NextInv DEF WireInv
<1>8. CASE UNCHANGED wireVars
  BY <1>5, <1>6, <1>7, <1>8 DEF WireInv, vars
<1>9. CASE WireNext
  <2>1. request' \in Requests \cup {NoTx}
    BY <1>1, <1>2, <1>3, <1>4, <1>9 DEF WireNext, WireInv
  <2>2. request' = NoTx => tx' = NoTx
    BY <1>1, <1>2, <1>3, <1>4, <1>9 DEF WireNext, WireInv
  <2>3. request' # NoTx => tx' = Meant(request')
    BY <1>1, <1>2, <1>3, <1>4, <1>9 DEF WireNext, WireInv
  <2>4. CellsHold(cells', accounts') /\ CellsHold(scratch', work')
    BY <1>1, <1>2, <1>3, <1>4, <1>9 DEF WireNext
  <2>. QED
    BY <1>6, <1>7, <2>1, <2>2, <2>3, <2>4 DEF WireInv
<1>. QED
  BY <1>6, <1>8, <1>9

\* WireInv holds for ever.
LEMMA WireInvariance == WireSpec => []WireInv
<1>1. WireInit => WireInv
  BY WireInitInv
<1>2. WireInv /\ [WireNext]_wireVars => WireInv'
  BY WireStep
<1>. QED
  BY <1>1, <1>2, PTL DEF WireSpec

\* Decoded, the program on bytes is the ledger: every message arrives as what
\* its sender means, every record is read as it was written, and none is
\* refused because its account has no room for it.
THEOREM BytesImplementLedger == WireSpec => ImplementsLedger
<1>1. WireInit => Init
  BY WireInitInv
<1>2. WireInv /\ [WireNext]_wireVars => [Next]_vars
  BY WireStep
<1>. QED
  BY <1>1, <1>2, WireInvariance, PTL DEF WireSpec, ImplementsLedger, Spec

\* Every cell keeps the size of the largest record of its kind and begins with
\* the bytes of a record (tools/account.rs:44-86).
THEOREM CellsAreRecords == WireSpec => []WireTypeOK
<1>1. WireInv => WireTypeOK
  BY CellRead DEF WireInv, Inv, TypeOK, CellsHold, WireTypeOK
<1>. QED
  BY <1>1, WireInvariance, PTL

-----------------------------------------------------------------------------
(* Clients and readers.                                                    *)

\* A community is at the address of its name, and a network at that of its
\* name in one.
LEMMA NamedAddresses ==
  ASSUME NEW s, LedgerOK(s)
  PROVE  /\ \A c \in Communities(s) : \E x \in Name : c = CommunityAddress(x)
         /\ \A a \in DOMAIN s : a[1] = "network" =>
                \E x, y \in Name : a = NetworkAddress(CommunityAddress(x), y)
<1>1. \A a \in DOMAIN s : s[a] \in AccountData /\ OnItsOwnAddress(s, a)
  BY DEF LedgerOK, IsLedger
<1>2. \A a \in DOMAIN s : s[a].account_type \in {"Community", "Network"} =>
          s[a].name \in Name
  BY <1>1 DEF AccountData, Community, Network, Reporter, Case, Address
<1>3. ASSUME NEW c \in Communities(s)
      PROVE  \E x \in Name : c = CommunityAddress(x)
  <2>1. c \in DOMAIN s /\ s[c].account_type = "Community"
    BY <1>3 DEF Communities
  <2>2. c = CommunityAddress(s[c].name)
    BY <1>1, <2>1 DEF OnItsOwnAddress
  <2>. QED
    BY <1>2, <2>1, <2>2
<1>4. ASSUME NEW a \in DOMAIN s, a[1] = "network"
      PROVE  \E x, y \in Name : a = NetworkAddress(CommunityAddress(x), y)
  <2>1. /\ s[a].account_type = "Network"
        /\ \E c \in Communities(s) : a = NetworkAddress(c, s[a].name)
    BY <1>1, <1>4, AddressKinds DEF OnItsOwnAddress
  <2>. QED
    BY <1>2, <1>3, <2>1
<1>. QED
  BY <1>3, <1>4

\* The library writes every instruction it has a builder for as the Rust
\* builders do, makes the same seeds of an id, and a network of a community
\* without a slash is found by its path (tools/mod.rs:19-34).
THEOREM ClientsAreAlike == WireSpec => []ClientsEncodeAlike
<1>1. ASSUME WireInv
      PROVE  ClientsEncodeAlike
  <2>1. ASSUME request # NoTx, NEW i \in DOMAIN request.tx.instructions,
               NEW ix, ix = request.tx.instructions[i],
               ix.op \notin {"UpdateCommunity", "UpdateNetwork"}
        PROVE  encode(ix) = try_to_vec(ix)
    <3>1. request \in Requests
      BY <1>1, <2>1 DEF WireInv
    <3>2. Encodable(request.by, ix)
      BY <2>1, <3>1, RequestsAssumption
    <3>. QED
      BY <2>1, <3>2, EncodedAlike
  <2>2. ASSUME NEW a \in DOMAIN cells, a[1] = "network", HasNoSlash(a[2][2])
        PROVE  PathLeadsTo(a)
    <3>1. a \in DOMAIN accounts /\ LedgerOK(accounts)
      BY <1>1 DEF WireInv, Inv, CellsHold
    <3>2. PICK x, y \in Name : a = NetworkAddress(CommunityAddress(x), y)
      BY <2>2, <3>1, NamedAddresses
    <3>3. a[2][2] = x /\ a[3] = y
      BY <3>2 DEF NetworkAddress, CommunityAddress
    <3>. QED
      BY <2>2, <3>3, PathParts DEF PathLeadsTo
  <2>. QED
    BY <2>1, <2>2, Ids, CategoryNumbers DEF ClientsEncodeAlike
<1>. QED
  BY <1>1, WireInvariance, PTL

\* A reader who is given the names gets at an account by its address.
LEMMA ShownAt ==
  ASSUME NEW s, LedgerOK(s), NEW a \in DOMAIN s, IsNamed(a),
         s[a].account_type = KindAt[a[1]]
  PROVE  /\ CommandShows(a) = View(s[a].account_type, a)
         /\ LibraryShows(a) = retrieve(s[a].account_type, a)
<1>1. s[a] \in AccountData /\ OnItsOwnAddress(s, a)
  BY DEF LedgerOK, IsLedger
<1>2. \A c \in Communities(s) : \E x \in Name : c = CommunityAddress(x)
  BY NamedAddresses
<1>3. CASE s[a].account_type = "Community" /\ a = CommunityAddress(s[a].name)
  <2>1. a[1] = "community" /\ CommunityAddress(a[2]) = a
    BY <1>3 DEF CommunityAddress
  <2>. QED
    BY <1>3, <2>1 DEF CommandShows, LibraryShows, cmd_get_community,
                      getCommunity
<1>4. CASE /\ s[a].account_type = "Network"
           /\ \E c \in Communities(s) : a = NetworkAddress(c, s[a].name)
  <2>1. PICK x : a = NetworkAddress(CommunityAddress(x), s[a].name)
    BY <1>2, <1>4
  <2>2. a[1] = "network" /\ NetworkAddress(CommunityAddress(a[2][2]), a[3]) = a
    BY <2>1 DEF CommunityAddress, NetworkAddress
  <2>. QED
    BY <1>4, <2>2 DEF CommandShows, LibraryShows, cmd_get_network, getNetwork
<1>5. CASE /\ s[a].account_type \in {"Reporter", "Address"}
           /\ \E c \in Communities(s), k \in Pubkey : a = ReporterAddress(c, k)
  <2>1. PICK x, k : a = ReporterAddress(CommunityAddress(x), k)
    BY <1>2, <1>5
  <2>2. /\ a[1] = "reporter"
        /\ ReporterAddress(CommunityAddress(a[2][2]), a[3]) = a
    BY <2>1 DEF CommunityAddress, ReporterAddress
  <2>3. s[a].account_type = "Reporter"
    BY <2>2, AddressKinds
  <2>. QED
    BY <2>2, <2>3 DEF CommandShows, LibraryShows, cmd_get_reporter, getReporter
<1>6. CASE /\ s[a].account_type = "Case"
           /\ \E c \in Communities(s), id \in CaseId : a = CaseAddress(c, id)
  <2>1. PICK x \in Name, id \in CaseId :
            a = CaseAddress(CommunityAddress(x), id)
    BY <1>2, <1>6
  <2>2. /\ a[1] = "case" /\ a[3] = id
        /\ CaseAddress(CommunityAddress(a[2][2]), id) = a
    BY <2>1 DEF CommunityAddress, CaseAddress
  <2>3. IsU64(id)
    BY HoldableIds, HoldableIs
  <2>4. PICK seed : seed = bnToBuffer(id, 8)
    OBVIOUS
  <2>5. toBuffer(u64(id)) = seed
    BY <2>4 DEF toBuffer, u64
  <2>6. Len(seed) = 8 /\ fromBuffer(seed) = id
    BY <2>3, <2>4, BufferIs
  <2>7. getCase(u64(id), a[2][2]) = retrieve("Case", a)
    BY <2>2, <2>5, <2>6 DEF getCase
  <2>. QED
    BY <1>6, <2>2, <2>7 DEF CommandShows, LibraryShows, cmd_get_case
<1>7. CASE /\ s[a].account_type = "Address"
           /\ \E n \in Pubkey, v \in Pubkey : a = AddressAddress(n, v)
  <2>1. PICK n, v : a = AddressAddress(n, v)
    BY <1>7
  <2>2. a[1] = "address" /\ a[2] = n /\ a[3] = v
    BY <2>1 DEF AddressAddress
  <2>3. PICK x, y : n = NetworkAddress(CommunityAddress(x), y)
    BY <2>2 DEF IsNamed
  <2>4. n[2][2] = x /\ n[3] = y
    BY <2>3 DEF NetworkAddress, CommunityAddress
  <2>5. AddressAddress(NetworkAddress(CommunityAddress(a[2][2][2]), a[2][3]),
                       a[3]) = a
    BY <2>1, <2>2, <2>3, <2>4
  <2>. QED
    BY <1>7, <2>2, <2>5 DEF CommandShows, LibraryShows, cmd_get_address,
                            getAddress
<1>. QED
  BY <1>1, <1>3, <1>4, <1>5, <1>6, <1>7 DEF OnItsOwnAddress

\* The commands that show an account and the library read the record that the
\* program keeps in it, whatever longer records left behind it, where the record
\* is of the account's own kind and the names lead to it (cli/src/command,
\* state/*.ts).
THEOREM ReadersReadRecords == WireSpec => []ReadersAgree
<1>1. ASSUME WireInv
      PROVE  ReadersAgree
  <2>. SUFFICES ASSUME NEW a \in DOMAIN cells, NEW d, d = Record(cells[a])
                PROVE  d.account_type = KindAt[a[1]] /\ IsNamed(a) =>
                           /\ CommandShows(a) = Shown(d)
                           /\ LibraryShows(a) = Shown(RecordInJs(d))
                           /\ StateOf[d.account_type].size = Len(cells[a])
    BY DEF ReadersAgree
  <2>1. LedgerOK(accounts) /\ CellsHold(cells, accounts)
    BY <1>1 DEF WireInv, Inv
  <2>2. a \in DOMAIN accounts
    BY <2>1 DEF CellsHold
  <2>3. PICK c : c = cells[a]
    OBVIOUS
  <2>4. /\ c \in Seq(Byte) /\ Len(c) = SizeAt(a)
        /\ At(c, 0, try_record_to_vec(accounts[a]))
        /\ Record(c) = accounts[a] /\ KindOf(c) = accounts[a].account_type
    BY <2>1, <2>2, <2>3, CellRead
  <2>5. d = accounts[a] /\ d \in AccountData
    BY <2>1, <2>2, <2>3, <2>4, OwnKind
  <2>6. PICK kind : kind = d.account_type
    OBVIOUS
  <2>7. View(kind, a) = Shown(d)
    <3>1. PICK read : read = try_from_slice_unchecked(AccountLayout[kind], c)
      OBVIOUS
    <3>2. read.ok
      BY <2>4, <2>5, <2>6, <3>1, RecordRead
    <3>3. read.struct = d
      BY <2>4, <2>5, <2>6, <3>1 DEF Record
    <3>. QED
      BY <2>3, <3>1, <3>2, <3>3 DEF View
  <2>8. retrieve(kind, a) = Shown(RecordInJs(d))
    BY <2>3, <2>4, <2>5, <2>6, JsRead DEF retrieve
  <2>9. ASSUME kind = KindAt[a[1]], IsNamed(a)
        PROVE  /\ CommandShows(a) = Shown(d)
               /\ LibraryShows(a) = Shown(RecordInJs(d))
               /\ StateOf[kind].size = Len(c)
    <3>1. CommandShows(a) = View(kind, a) /\ LibraryShows(a) = retrieve(kind, a)
      BY <2>1, <2>2, <2>5, <2>6, <2>9, ShownAt
    <3>2. kind \in DOMAIN AccountLayout
      BY <2>5, <2>6, DataFits
    <3>3. StateOf[kind].size = MaxSize[kind]
      BY <3>2, StatesMatch DEF SameState
    <3>4. Len(c) = MaxSize[kind]
      BY <2>4, <2>9 DEF SizeAt
    <3>. QED
      BY <2>7, <2>8, <3>1, <3>3, <3>4
  <2>. QED
    BY <2>3, <2>6, <2>9
<1>. QED
  BY <1>1, WireInvariance, PTL
=============================================================================
