---------------------------- MODULE HapiJsEncoding ----------------------------
(***************************************************************************)
(* The same bytes in the JavaScript library, which declares the layouts    *)
(* and the enumerations a second time and knows only numbers: its enums    *)
(* are numbers, a category set is a list of numbers (here their set), ids  *)
(* are big numbers (bn.js).  Serializing by a schema is Borsh again.       *)
(*                                                                         *)
(* A big number is [class, value]: the library's u64 is a subclass of BN   *)
(* with a toBuffer of its own.                                             *)
(***************************************************************************)
EXTENDS HapiEncoding

-----------------------------------------------------------------------------
(* Big numbers.                                                            *)

\* BN.toArray: the digits to the base 256, the highest first, at least one.
toArray(n) ==
    LET digits == U64Bytes(n)
        count  == CHOOSE k \in 1 .. 8 : /\ k = 1 \/ digits[k] # 0
                                        /\ \A j \in k + 1 .. 8 : digits[j] = 0
    IN  [i \in 1 .. count |-> digits[count + 1 - i]]

\* The array from its end, and zeros.  It throws on a number that does not
\* fit, which is no value.
bnToBuffer(n, size) ==
    LET a == toArray(n)
    IN  [i \in 1 .. size |-> IF i <= Len(a) THEN a[Len(a) + 1 - i] ELSE 0]

\* u64.fromBuffer: the bytes in hexadecimal, the last one first.
fromBuffer(buffer) == U64(buffer)

u64(n) == [class |-> "u64", value |-> n]
BN(n)  == [class |-> "BN",  value |-> n]

\* The method that id.toBuffer() calls: that of u64, or that of bn.js.
toBuffer(id) == IF id.class = "u64" THEN bnToBuffer(id.value, 8)
                ELSE toArray(id.value)

-----------------------------------------------------------------------------
(* Enumerations.                                                           *)

JsEnum == [HapiAccountType |-> [Uninitialized |-> 0, Community |-> 1,
                                Network |-> 2, Reporter |-> 3, Case |-> 4,
                                Address |-> 5],
           ReporterType    |-> [Inactive |-> 0, Tracer |-> 1, Full |-> 2,
                                Authority |-> 3],
           CaseStatus      |-> [Open |-> 0, Closed |-> 1]]

\* enum Category of the library
CategoryValue ==
    [Safe |-> 0, WalletService |-> 1, MerchantService |-> 2, MiningPool |-> 4,
     LowRiskExchange |-> 8, MediumRiskExchange |-> 16, DeFi |-> 32,
     OTCBroker |-> 64, ATM |-> 128, Gambling |-> 256,
     IllicitOrganization |-> 512, Mixer |-> 1024, DarknetService |-> 2048,
     Scam |-> 4096, Ransomware |-> 8192, Theft |-> 16384,
     Counterfeit |-> 32768, TerroristFinancing |-> 65536,
     Sanctions |-> 131072, ChildAbuse |-> 262144]

\* The array Categories: the values from the lowest to the highest.
CategoryValues ==
    <<0, 1, 2, 4, 8, 16, 32, 64, 128, 256, 512, 1024, 2048, 4096, 8192, 16384,
      32768, 65536, 131072, 262144>>

categoriesToBitmask(values) == Or(values)

\* Fault: the value of a category is sent in place of its position.
categoryToBinary_Value(value) == value

categoryToBinary(value) == IndexOf(CategoryValues, value)

-----------------------------------------------------------------------------
(* Instructions.                                                           *)

HapiInstructionTag ==
    [CreateCommunity |-> 0, UpdateCommunity |-> 1, CreateNetwork |-> 2,
     UpdateNetwork |-> 3, CreateReporter |-> 4, UpdateReporter |-> 5,
     CreateCase |-> 6, UpdateCase |-> 7, CreateAddress |-> 8,
     UpdateAddress |-> 9]

\* Every struct begins with its tag.  That of UpdateCommunity has a name,
\* which the program's instruction has not; no builder uses it.
IxSchema ==
    [CreateCommunity |-> <<Field("name", "String")>>,
     UpdateCommunity |-> <<Field("name", "String")>>,
     CreateNetwork   |-> <<Field("name", "String")>>,
     CreateReporter  |-> <<Field("reporter_type", "u8"), Field("name", "String")>>,
     UpdateReporter  |-> <<Field("reporter_type", "u8"), Field("name", "String")>>,
     CreateCase      |-> <<Field("case_id", "u64"), Field("categories", "u32"),
                           Field("status", "u8"), Field("name", "String")>>,
     UpdateCase      |-> <<Field("categories", "u32"), Field("status", "u8")>>,
     CreateAddress   |-> <<Field("address", "Pubkey"), Field("risk", "u8"),
                           Field("case_id", "u64"), Field("category", "u8")>>,
     UpdateAddress   |-> <<Field("risk", "u8"), Field("case_id", "u64"),
                           Field("category", "u8")>>]

\* What the builders put into the struct for an argument.
Argument(ix, f) ==
    CASE f = "categories"    -> categoriesToBitmask({CategoryValue[c] :
                                                         c \in ix.categories})
      [] f = "category"      -> categoryToBinary(CategoryValue[ix.category])
      [] f = "reporter_type" -> JsEnum.ReporterType[ix.reporter_type]
      [] f = "status"        -> JsEnum.CaseStatus[ix.status]
      [] OTHER               -> ix[f]

\* ix.encode()
encode(ix) ==
    <<HapiInstructionTag[ix.op]>> \o
    serialize(IxSchema[ix.op], [f \in DOMAIN ix |-> Argument(ix, f)])

-----------------------------------------------------------------------------
(* Accounts.                                                               *)

\* A schema and the size declared with it, of which the reading of an account
\* uses the schema only.
CommunityState ==
    [schema |-> <<Field("account_type", "u8"), Field("authority", "Pubkey"),
                  Field("next_case_id", "u64"), Field("name", "String")>>,
     size   |-> 73]

NetworkState ==
    [schema |-> <<Field("account_type", "u8"), Field("name", "String")>>,
     size   |-> 33]

ReporterState ==
    [schema |-> <<Field("account_type", "u8"), Field("reporter_type", "u8"),
                  Field("name", "String")>>,
     size   |-> 34]

\* Fault: two fields have changed places.
CaseState_Swapped ==
    [schema |-> <<Field("account_type", "u8"), Field("reporter_key", "Pubkey"),
                  Field("status", "u8"), Field("categories", "u32"),
                  Field("name", "String")>>,
     size   |-> 71]

CaseState ==
    [schema |-> <<Field("account_type", "u8"), Field("reporter_key", "Pubkey"),
                  Field("categories", "u32"), Field("status", "u8"),
                  Field("name", "String")>>,
     size   |-> 71]

AddressState ==
    [schema |-> <<Field("account_type", "u8"), Field("risk", "u8"),
                  Field("case_id", "u64"), Field("category", "u8")>>,
     size   |-> 11]

StateOf == [Community |-> CommunityState, Network |-> NetworkState,
            Reporter |-> ReporterState, Case |-> CaseState,
            Address |-> AddressState]

\* fromState of the classes that change something; the account type of a
\* community is the class's own, and only a community's id becomes a u64.
Community_fromState(state) ==
    [state EXCEPT !.account_type = JsEnum.HapiAccountType.Community,
                  !.next_case_id = u64(@)]

Case_fromState(state) ==
    [state EXCEPT !.categories =
        {CategoryValues[i] : i \in {j \in DOMAIN CategoryValues :
                                        HasBit(@, CategoryValues[j])}}]

Address_fromState(state) ==
    [state EXCEPT !.case_id = BN(@), !.category = CategoryValues[@ + 1]]

fromState(kind, state) ==
    CASE kind = "Community"           -> Community_fromState(state)
      [] kind = "Case"                -> Case_fromState(state)
      [] kind = "Address"             -> Address_fromState(state)
      [] kind \in {"Network", "Reporter"} -> state

\* deserialize of the five classes: whatever the account is, it is read by the
\* schema of the kind that was asked for.
deserialize(kind, bytes) ==
    fromState(kind, try_from_slice_unchecked(StateOf[kind].schema,
                                             bytes).struct)
===============================================================================
