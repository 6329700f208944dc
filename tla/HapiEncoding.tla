----------------------------- MODULE HapiEncoding -----------------------------
(***************************************************************************)
(* The bytes of instructions and accounts, as the program, the Rust crate  *)
(* and the command line read and write them: Borsh, a struct being the     *)
(* bytes of its fields one after the other.                                *)
(*                                                                         *)
(* A layout is the sequence of a struct's fields, each with its type.  In  *)
(* the values a category set is the set of its members; in the bytes it is *)
(* a bit mask.                                                             *)
(***************************************************************************)
EXTENDS HapiJsBuilders, Integers

CONSTANTS
    KeyBytes,       \* the 32 bytes of each key
    NameBytes       \* the bytes of each name

Byte == 0 .. 255

\* n fits into four bytes, into eight.
IsU32(n) == n \in Nat /\ n \div 16777216 < 256
IsU64(n) == n \in Nat /\ (n \div 16777216) \div 16777216 < 65536

ASSUME BytesAssumption ==
    /\ \A k \in Pubkey : KeyBytes[k] \in [1 .. 32 -> Byte]
    /\ \A k1, k2 \in Pubkey : KeyBytes[k1] = KeyBytes[k2] => k1 = k2
    /\ \A n \in Name : /\ NameBytes[n] \in [1 .. NameLen[n] -> Byte]
                       /\ IsU32(NameLen[n])
    /\ \A n1, n2 \in Name : NameBytes[n1] = NameBytes[n2] => n1 = n2
    /\ Risk \subseteq Byte
    /\ IsU64(CaseIdCount - 1)

-----------------------------------------------------------------------------
(* Enumerations: Borsh writes the position of the variant.                 *)

HapiAccountType == <<"Uninitialized", "Community", "Network", "Reporter",
                     "Case", "Address">>

Categories == <<"Safe", "WalletService", "MerchantService", "MiningPool",
                "LowRiskExchange", "MediumRiskExchange", "DeFi", "OTCBroker",
                "ATM", "Gambling", "IllicitOrganization", "Mixer",
                "DarknetService", "Scam", "Ransomware", "Theft", "Counterfeit",
                "TerroristFinancing", "Sanctions", "ChildAbuse">>

Variants == [HapiAccountType |-> HapiAccountType,
             ReporterType    |-> <<"Inactive", "Tracer", "Full", "Authority">>,
             CaseStatus      |-> <<"Open", "Closed">>,
             Category        |-> Categories]

\* The position of x in s, counted from 0; -1 if it is not there.
IndexOf(s, x) == IF \E i \in DOMAIN s : s[i] = x
                 THEN (CHOOSE i \in DOMAIN s : s[i] = x) - 1 ELSE -1

\* The value of each category, category as u32: a bit of its own, or none.
CategoryBit ==
    [Safe |-> 0, WalletService |-> 1, MerchantService |-> 2, MiningPool |-> 4,
     LowRiskExchange |-> 8, MediumRiskExchange |-> 16, DeFi |-> 32,
     OTCBroker |-> 64, ATM |-> 128, Gambling |-> 256,
     IllicitOrganization |-> 512, Mixer |-> 1024, DarknetService |-> 2048,
     Scam |-> 4096, Ransomware |-> 8192, Theft |-> 16384,
     Counterfeit |-> 32768, TerroristFinancing |-> 65536,
     Sanctions |-> 131072, ChildAbuse |-> 262144]

\* The values of categories, or-ed, and whether a mask has the bit of a value.
Has(values, v) == IF v \in values THEN 1 ELSE 0

Or(values) ==
    LET bit(v, higher) == Has(values, v) + 2 * higher
    IN  bit(1, bit(2, bit(4, bit(8, bit(16, bit(32, bit(64, bit(128, bit(256,
        bit(512, bit(1024, bit(2048, bit(4096, bit(8192, bit(16384, bit(32768,
        bit(65536, bit(131072, bit(262144, 0)))))))))))))))))))

HasBit(mask, v) == v # 0 /\ (mask \div v) % 2 = 1

\* parse_arg_categories: the categories named on the command line, or-ed.
Bitmask(categories) == Or({CategoryBit[c] : c \in categories})

\* CategorySet::contains
Members(mask) == {c \in Category : HasBit(mask, CategoryBit[c])}

-----------------------------------------------------------------------------
(* Numbers and fields.                                                     *)

\* to_le_bytes: the digits to the base 256, the lowest first.
U32Bytes(n) == <<n % 256, (n \div 256) % 256, (n \div 65536) % 256,
                 (n \div 16777216) % 256>>
U64Bytes(n) == U32Bytes(n) \o U32Bytes((n \div 65536) \div 65536)

U32(b) == b[1] + 256 * b[2] + 65536 * b[3] + 16777216 * b[4]
U64(b) == U32(b) + 65536 * (65536 * U32(SubSeq(b, 5, 8)))

KeyOf(b) == CHOOSE k \in Pubkey : KeyBytes[k] = b
NameOf(b) == CHOOSE n \in Name : NameBytes[n] = b

BytesOf(type, v) ==
    CASE type = "u8"               -> <<v>>
      [] type = "u32"              -> U32Bytes(v)
      [] type = "u64"              -> U64Bytes(v)
      [] type = "CategorySet"      -> U32Bytes(Bitmask(v))
      [] type = "Pubkey"           -> KeyBytes[v]
      [] type = "String"           -> U32Bytes(Len(NameBytes[v])) \o NameBytes[v]
      [] type \in DOMAIN Variants  -> <<IndexOf(Variants[type], v)>>

\* The bytes a value takes, of those b that it is at the beginning of.
Size(type) == CASE type \in {"u32", "CategorySet"} -> 4
                [] type = "u64"                    -> 8
                [] type = "Pubkey"                 -> 32
                [] OTHER                           -> 1

Width(type, b) ==
    IF type # "String" THEN Size(type)
    ELSE IF Len(b) < 4 THEN 4 ELSE 4 + U32(b)

IsValue(type, b) ==
    /\ Len(b) >= Width(type, b)
    /\ type \in DOMAIN Variants => b[1] < Len(Variants[type])

ValueOf(type, b) ==
    CASE type = "u8"               -> b[1]
      [] type = "u32"              -> U32(b)
      [] type = "u64"              -> U64(b)
      [] type = "CategorySet"      -> Members(U32(b))
      [] type = "Pubkey"           -> KeyOf(b)
      [] type = "String"           -> NameOf(SubSeq(b, 5, Len(b)))
      [] type \in DOMAIN Variants  -> Variants[type][b[1] + 1]

FieldBytes(layout, struct, i) ==
    IF i \in DOMAIN layout
    THEN BytesOf(layout[i].type, struct[layout[i].name]) ELSE << >>

\* No struct has more than five fields.
serialize(layout, struct) ==
    LET field(i) == FieldBytes(layout, struct, i)
    IN  field(1) \o field(2) \o field(3) \o field(4) \o field(5)

\* Where the i-th field begins: only the last can have a length of its own.
Offset(layout, i) ==
    LET before(j) == IF j < i THEN Size(layout[j].type) ELSE 0
    IN  before(1) + before(2) + before(3) + before(4)

\* The bytes from the i-th field on, and the value of that field.
From(layout, bytes, i) ==
    SubSeq(bytes, Offset(layout, i) + 1, Len(bytes))

FieldValue(layout, bytes, i) ==
    LET from == From(layout, bytes, i)
    IN  ValueOf(layout[i].type,
                SubSeq(from, 1, Width(layout[i].type, from)))

Position(layout, f) == CHOOSE i \in DOMAIN layout : layout[i].name = f

\* Accounts are longer than what they hold: bytes that follow are ignored.
try_from_slice_unchecked(layout, bytes) ==
    LET last == Len(layout)
    IN  [ok     |-> \A i \in DOMAIN layout :
                        IsValue(layout[i].type, From(layout, bytes, i)),
         struct |-> [f \in {layout[i].name : i \in DOMAIN layout} |->
                        FieldValue(layout, bytes, Position(layout, f))],
         length |-> IF last = 0 THEN 0
                    ELSE Offset(layout, last)
                         + Width(layout[last].type, From(layout, bytes, last))]

\* Instructions have to be used up to the last byte.
try_from_slice(layout, bytes) ==
    LET read == try_from_slice_unchecked(layout, bytes)
    IN  [read EXCEPT !.ok = @ /\ read.length = Len(bytes)]

-----------------------------------------------------------------------------
(* The layouts.                                                            *)

Field(name, type) == [name |-> name, type |-> type]

AccountLayout ==
    [Community |-> <<Field("account_type", "HapiAccountType"),
                     Field("authority", "Pubkey"),
                     Field("next_case_id", "u64"), Field("name", "String")>>,
     Network   |-> <<Field("account_type", "HapiAccountType"),
                     Field("name", "String")>>,
     Reporter  |-> <<Field("account_type", "HapiAccountType"),
                     Field("reporter_type", "ReporterType"),
                     Field("name", "String")>>,
     Case      |-> <<Field("account_type", "HapiAccountType"),
                     Field("reporter_key", "Pubkey"),
                     Field("categories", "CategorySet"),
                     Field("status", "CaseStatus"), Field("name", "String")>>,
     Address   |-> <<Field("account_type", "HapiAccountType"),
                     Field("risk", "u8"), Field("case_id", "u64"),
                     Field("category", "Category")>>]

Op(name, fields) == [name |-> name, fields |-> fields]

\* The instructions in the order of their tags.
HapiInstruction ==
    <<Op("CreateCommunity", <<Field("name", "String")>>),
      Op("UpdateCommunity", << >>),
      Op("CreateNetwork",   <<Field("name", "String")>>),
      Op("UpdateNetwork",   << >>),
      Op("CreateReporter",  <<Field("reporter_type", "ReporterType"),
                              Field("name", "String")>>),
      Op("UpdateReporter",  <<Field("reporter_type", "ReporterType"),
                              Field("name", "String")>>),
      Op("CreateCase",      <<Field("case_id", "u64"),
                              Field("categories", "CategorySet"),
                              Field("status", "CaseStatus"),
                              Field("name", "String")>>),
      Op("UpdateCase",      <<Field("categories", "CategorySet"),
                              Field("status", "CaseStatus")>>),
      Op("CreateAddress",   <<Field("address", "Pubkey"), Field("risk", "u8"),
                              Field("case_id", "u64"),
                              Field("category", "Category")>>),
      Op("UpdateAddress",   <<Field("risk", "u8"), Field("case_id", "u64"),
                              Field("category", "Category")>>)>>

Tag(op) == (CHOOSE i \in DOMAIN HapiInstruction :
                HapiInstruction[i].name = op) - 1

\* instruction.try_to_vec() of the builders
try_to_vec(ix) ==
    <<Tag(ix.op)>> \o serialize(HapiInstruction[Tag(ix.op) + 1].fields, ix)

Malformed(keys) == [op |-> "Malformed", accounts |-> keys]

WithArguments(op, keys, struct) ==
    [f \in {"op", "accounts"} \cup DOMAIN struct |->
        CASE f = "op"       -> op
          [] f = "accounts" -> keys
          [] OTHER          -> struct[f]]

\* Fault: bytes that follow the arguments are ignored.
Unpack_Trailing(data, keys) ==
    IF data = << >> \/ data[1] >= Len(HapiInstruction) THEN Malformed(keys)
    ELSE LET o    == HapiInstruction[data[1] + 1]
             args == try_from_slice_unchecked(o.fields, Tail(data))
         IN  IF args.ok THEN WithArguments(o.name, keys, args.struct)
             ELSE Malformed(keys)

\* The instruction the program makes of the bytes: HapiInstruction::
\* try_from_slice at the beginning of process.
Unpack(data, keys) ==
    IF data = << >> \/ data[1] >= Len(HapiInstruction) THEN Malformed(keys)
    ELSE LET o    == HapiInstruction[data[1] + 1]
             args == try_from_slice(o.fields, Tail(data))
         IN  IF args.ok THEN WithArguments(o.name, keys, args.struct)
             ELSE Malformed(keys)

-----------------------------------------------------------------------------
(* Network paths: "community/network".                                     *)

Slash == 47

NetworkPath(community, network) ==
    NameBytes[community] \o <<Slash>> \o NameBytes[network]

\* The path is split at its first slash.
parse_network_path(path) ==
    LET at == CHOOSE i \in DOMAIN path : /\ path[i] = Slash
                                         /\ \A j \in 1 .. i - 1 :
                                                path[j] # Slash
    IN  <<SubSeq(path, 1, at - 1), SubSeq(path, at + 1, Len(path))>>
===============================================================================
