----------------------------- MODULE HapiProofs -----------------------------
(***************************************************************************)
(* Machine-checked proofs about the ledger, for any set of keys, names and *)
(* transactions and any number of case ids.                                *)
(*                                                                         *)
(* The inductive invariant is LedgerOK of the committed ledger and of the  *)
(* working copy.  Its parts need one another: the counter argument needs   *)
(* to know that a new community has no cases yet, which follows from every *)
(* case lying under a community that exists.                               *)
(***************************************************************************)
EXTENDS HapiProperties, TLAPS

-----------------------------------------------------------------------------
(* Checks and their results.                                               *)

\* A chain of checks passes when each of them passes.
LEMMA ThenOk ==
  ASSUME NEW v, NEW w
  PROVE  (v ?? w) = Ok <=> v = Ok /\ w = Ok
BY DEF ??, Ok

LEMMA ThenTyped ==
  ASSUME NEW v \in VerdictType, NEW w \in VerdictType
  PROVE  v ?? w \in VerdictType
BY DEF ??

LEMMA RequireTyped ==
  ASSUME NEW condition, NEW error \in Error
  PROVE  Require(condition, error) \in VerdictType
BY DEF Require, VerdictType

\* The checks shared by the handlers return Ok or an error of the program.
LEMMA ChecksTyped ==
  ASSUME NEW s, NEW t
  PROVE  /\ \A a : EmptyAccount(s, a) \in VerdictType
         /\ \A a, type : ValidAccount(s, a, type) \in VerdictType
         /\ \A payer, a, pda, system :
                CreateAccount(t, payer, a, pda, system) \in VerdictType
         /\ \A a, c, k : ReporterBelongs(s, a, c, k) \in VerdictType
         /\ \A a : CanCreateAddress(s, a) \in VerdictType
         /\ \A a : CanCreateCase(s, a) \in VerdictType
         /\ \A k, a, r : CanUpdateCase(s, k, a, r) \in VerdictType
         /\ \A c, k : HasAuthority(s, c, k) \in VerdictType
         /\ \A type, name : Serializes(type, name) \in VerdictType
         /\ \A name : SeedFits(name) \in VerdictType
         /\ \A ix, n : TakesAccounts(ix, n) \in VerdictType
         /\ \A k : Rent(k) \in VerdictType
         /\ \A k : Signed(t, k) \in VerdictType
         /\ \A name : NameWithin32(name) \in VerdictType
<1>1. \A a : EmptyAccount(s, a) \in VerdictType
  BY RequireTyped DEF EmptyAccount, Error
<1>2. \A a, type : ValidAccount(s, a, type) \in VerdictType
  BY ThenTyped, RequireTyped DEF ValidAccount, Error
<1>3. \A a, type : AccountDataIs(s, a, type) \in VerdictType
  BY ThenTyped, RequireTyped DEF AccountDataIs, Error
<1>4. \A payer, a, pda, system :
          CreateAccount(t, payer, a, pda, system) \in VerdictType
  BY ThenTyped, RequireTyped DEF CreateAccount, Error
<1>5. \A a, c, k : ReporterBelongs(s, a, c, k) \in VerdictType
  BY <1>2, ThenTyped, RequireTyped DEF ReporterBelongs, Error
<1>6. \A a : CanCreateAddress(s, a) \in VerdictType
  BY <1>3, ThenTyped, RequireTyped DEF CanCreateAddress, Error
<1>7. \A a : CanCreateCase(s, a) \in VerdictType
  BY <1>3, ThenTyped, RequireTyped DEF CanCreateCase, Error
<1>8. \A k, a, r : CanUpdateCase(s, k, a, r) \in VerdictType
  BY <1>3, ThenTyped, RequireTyped DEF CanUpdateCase, Error
<1>9. \A c, k : HasAuthority(s, c, k) \in VerdictType
  BY <1>2, ThenTyped, RequireTyped DEF HasAuthority, Error
<1>10. /\ \A type, name : Serializes(type, name) \in VerdictType
       /\ \A name : SeedFits(name) \in VerdictType
       /\ \A ix, n : TakesAccounts(ix, n) \in VerdictType
       /\ \A k : Rent(k) \in VerdictType
       /\ \A k : Signed(t, k) \in VerdictType
       /\ \A name : NameWithin32(name) \in VerdictType
  BY RequireTyped
     DEF Serializes, SeedFits, TakesAccounts, Rent, Signed, NameWithin32, Error
<1>. QED
  BY <1>1, <1>2, <1>4, <1>5, <1>6, <1>7, <1>8, <1>9, <1>10

\* Every handler ends with Ok or with an error of the program.
LEMMA VerdictsTyped ==
  ASSUME NEW s, NEW t, NEW ix
  PROVE  /\ CreateCommunityVerdict(s, t, ix) \in VerdictType
         /\ UpdateCommunityVerdict(s, t, ix) \in VerdictType
         /\ CreateNetworkVerdict(s, t, ix) \in VerdictType
         /\ UpdateNetworkVerdict(s, t, ix) \in VerdictType
         /\ CreateReporterVerdict(s, t, ix) \in VerdictType
         /\ UpdateReporterVerdict(s, t, ix) \in VerdictType
         /\ CreateCaseVerdict(s, t, ix) \in VerdictType
         /\ UpdateCaseVerdict(s, t, ix) \in VerdictType
         /\ CreateAddressVerdict(s, t, ix) \in VerdictType
         /\ UpdateAddressVerdict(s, t, ix) \in VerdictType
<1>1. CreateCommunityVerdict(s, t, ix) \in VerdictType
  BY ChecksTyped, ThenTyped DEF CreateCommunityVerdict
<1>2. UpdateCommunityVerdict(s, t, ix) \in VerdictType
  BY ChecksTyped, ThenTyped DEF UpdateCommunityVerdict
<1>3. CreateNetworkVerdict(s, t, ix) \in VerdictType
  BY ChecksTyped, ThenTyped DEF CreateNetworkVerdict
<1>4. UpdateNetworkVerdict(s, t, ix) \in VerdictType
  <2>1. \A c : Require(c, "InvalidReporter") \in VerdictType
    BY RequireTyped DEF Error
  <2>2. "NotImplemented" \in VerdictType
    BY DEF VerdictType, Error
  <2>. QED
    BY <2>1, <2>2, ChecksTyped, ThenTyped DEF UpdateNetworkVerdict
<1>5. CreateReporterVerdict(s, t, ix) \in VerdictType
  BY ChecksTyped, ThenTyped DEF CreateReporterVerdict
<1>6. UpdateReporterVerdict(s, t, ix) \in VerdictType
  BY ChecksTyped, ThenTyped DEF UpdateReporterVerdict
<1>7. CreateCaseVerdict(s, t, ix) \in VerdictType
  <2>1. /\ \A c : Require(c, "InvalidReporter") \in VerdictType
        /\ \A c : Require(c, "InvalidInstruction") \in VerdictType
    BY RequireTyped DEF Error
  <2>. QED
    BY <2>1, ChecksTyped, ThenTyped DEF CreateCaseVerdict
<1>8. UpdateCaseVerdict(s, t, ix) \in VerdictType
  <2>1. \A c : Require(c, "InvalidReporter") \in VerdictType
    BY RequireTyped DEF Error
  <2>. QED
    BY <2>1, ChecksTyped, ThenTyped DEF UpdateCaseVerdict
<1>9. /\ CreateAddressVerdict(s, t, ix) \in VerdictType
      /\ UpdateAddressVerdict(s, t, ix) \in VerdictType
  <2>1. \A c : Require(c, "CaseIDMismatch") \in VerdictType
    BY RequireTyped DEF Error
  <2>. QED
    BY <2>1, ChecksTyped, ThenTyped
       DEF CreateAddressVerdict, UpdateAddressVerdict
<1>. QED
  BY <1>1, <1>2, <1>3, <1>4, <1>5, <1>6, <1>7, <1>8, <1>9

-----------------------------------------------------------------------------
(* Addresses and allocation.                                               *)

LedgerOK(s) == /\ IsLedger(s)
               /\ CounterCountsCases(s)
               /\ \A a \in DOMAIN s : OnItsOwnAddress(s, a)
               /\ AuthorsRegistered(s)

\* PDAs of different kinds differ, and so do those of different seeds.
LEMMA AddressesDiffer ==
  ASSUME NEW c, NEW x, NEW d, NEW y
  PROVE  /\ CaseAddress(c, x) = CaseAddress(d, y) => c = d /\ x = y
         /\ ReporterAddress(c, x) = ReporterAddress(d, y) => c = d /\ x = y
         /\ NetworkAddress(c, x) = NetworkAddress(d, y) => c = d /\ x = y
         /\ CommunityAddress(c) = CommunityAddress(d) => c = d
         /\ CaseAddress(c, x) # ReporterAddress(d, y)
         /\ CaseAddress(c, x) # NetworkAddress(d, y)
         /\ CaseAddress(c, x) # AddressAddress(d, y)
         /\ CaseAddress(c, x) # CommunityAddress(d)
         /\ ReporterAddress(c, x) # NetworkAddress(d, y)
         /\ ReporterAddress(c, x) # AddressAddress(d, y)
         /\ ReporterAddress(c, x) # CommunityAddress(d)
         /\ NetworkAddress(c, x) # AddressAddress(d, y)
         /\ NetworkAddress(c, x) # CommunityAddress(d)
         /\ AddressAddress(c, x) # CommunityAddress(d)
BY DEF CommunityAddress, NetworkAddress, ReporterAddress, CaseAddress,
       AddressAddress

LEMMA PutTyped ==
  ASSUME NEW s, IsLedger(s), NEW a \in Pubkey, NEW d \in AccountData
  PROVE  IsLedger(Put(s, a, d))
BY DEF Put, IsLedger

\* The fields of an account of a known type.
LEMMA DataFields ==
  ASSUME NEW d \in AccountData
  PROVE  /\ d.account_type \in {"Community", "Network", "Reporter", "Case",
                                "Address"}
         /\ d.account_type = "Community" => d \in Community
         /\ d.account_type = "Network" => d \in Network
         /\ d.account_type = "Reporter" => d \in Reporter
         /\ d.account_type = "Case" => d \in Case
         /\ d.account_type = "Address" => d \in Address
BY DEF AccountData, Community, Network, Reporter, Case, Address

\* An account at the address of a case is a case, of a community that exists.
LEMMA CaseAccounts ==
  ASSUME NEW s, LedgerOK(s), NEW c, NEW id, CaseAddress(c, id) \in DOMAIN s
  PROVE  /\ s[CaseAddress(c, id)].account_type = "Case"
         /\ c \in Communities(s)
         /\ id \in CaseId
<1>1. OnItsOwnAddress(s, CaseAddress(c, id))
  BY DEF LedgerOK
<1>. QED
  BY <1>1, AddressesDiffer DEF OnItsOwnAddress

-----------------------------------------------------------------------------
(* What the handlers do to a ledger that is in order.                      *)

\* A new network, reporter or address leaves it in order.
LEMMA Allocate ==
  ASSUME NEW s, LedgerOK(s), NEW a \in Pubkey, a \notin DOMAIN s,
         NEW d \in AccountData,
         d.account_type \in {"Network", "Reporter", "Address"},
         OnItsOwnAddress(Put(s, a, d), a)
  PROVE  LedgerOK(Put(s, a, d))
<1>. DEFINE u == Put(s, a, d)
<1>1. /\ DOMAIN u = DOMAIN s \cup {a}
      /\ u[a] = d
      /\ \A x \in DOMAIN s : u[x] = s[x]
  BY DEF Put, u
<1>. HIDE DEF u
<1>2. Communities(u) = Communities(s)
  BY <1>1 DEF Communities
<1>3. \A c, id : a # CaseAddress(c, id)
  BY <1>1, AddressesDiffer DEF OnItsOwnAddress, u
<1>4. \A c : CaseIds(u, c) = CaseIds(s, c)
  BY <1>1, <1>3 DEF CaseIds
<1>5. IsLedger(u)
  BY PutTyped DEF LedgerOK, u
<1>6. CounterCountsCases(u)
  BY <1>1, <1>2, <1>4 DEF LedgerOK, CounterCountsCases, Communities
<1>7. \A x \in DOMAIN u : OnItsOwnAddress(u, x)
  BY <1>1, <1>2 DEF LedgerOK, OnItsOwnAddress, u
<1>8. AuthorsRegistered(u)
  BY <1>1, <1>2, <1>4 DEF LedgerOK, AuthorsRegistered, CaseIds
<1>. QED
  BY <1>5, <1>6, <1>7, <1>8 DEF LedgerOK, u

\* Rewriting a community, a reporter or a case without touching what others
\* depend on: its type, a community's name and counter, a case's author.
LEMMA Rewrite ==
  ASSUME NEW s, LedgerOK(s), NEW a \in DOMAIN s, NEW d \in AccountData,
         d.account_type = s[a].account_type,
         d.account_type \in {"Community", "Reporter", "Case"},
         d.account_type = "Community" =>
             d.name = s[a].name /\ d.next_case_id = s[a].next_case_id,
         d.account_type = "Case" => d.reporter_key = s[a].reporter_key
  PROVE  LedgerOK(Put(s, a, d))
<1>. DEFINE u == Put(s, a, d)
<1>1. /\ DOMAIN u = DOMAIN s
      /\ u[a] = d
      /\ \A x \in DOMAIN s : x # a => u[x] = s[x]
  BY DEF Put, u
<1>. HIDE DEF u
<1>2. \A x \in DOMAIN s : u[x].account_type = s[x].account_type
  BY <1>1
<1>3. Communities(u) = Communities(s)
  BY <1>1, <1>2 DEF Communities
<1>4. \A c : CaseIds(u, c) = CaseIds(s, c)
  BY <1>1 DEF CaseIds
<1>5. IsLedger(u)
  BY PutTyped DEF LedgerOK, IsLedger, u
<1>6. CounterCountsCases(u)
  <2>1. \A c \in Communities(s) : u[c].next_case_id = s[c].next_case_id
    BY <1>1 DEF Communities
  <2>. QED
    BY <2>1, <1>3, <1>4 DEF LedgerOK, CounterCountsCases
<1>7. \A x \in DOMAIN u : OnItsOwnAddress(u, x)
  BY <1>1, <1>2, <1>3 DEF LedgerOK, OnItsOwnAddress
<1>8. AuthorsRegistered(u)
  <2>1. \A c \in Communities(s) : \A id \in CaseIds(s, c) :
            u[CaseAddress(c, id)].reporter_key
                = s[CaseAddress(c, id)].reporter_key
    BY <1>1, CaseAccounts DEF CaseIds
  <2>. QED
    BY <2>1, <1>1, <1>3, <1>4 DEF LedgerOK, AuthorsRegistered
<1>. QED
  BY <1>5, <1>6, <1>7, <1>8 DEF LedgerOK, u

-----------------------------------------------------------------------------
(* The handlers, one by one: when its checks pass, its effect keeps the    *)
(* ledger in order.                                                        *)

LEMMA InstructionAccounts ==
  ASSUME NEW ix \in Instruction
  PROVE  /\ Len(ix.accounts) \in Nat
         /\ \A i \in 1 .. Len(ix.accounts) : ix.accounts[i] \in Pubkey
BY DEF Instruction, Accounts

\* What the shared checks establish.
LEMMA ChecksPass ==
  /\ \A s, a : EmptyAccount(s, a) = Ok => a \notin DOMAIN s
  /\ \A s, a, type : ValidAccount(s, a, type) = Ok => Holds(s, a, type)
  /\ \A s, a, c, k : ReporterBelongs(s, a, c, k) = Ok =>
                /\ Holds(s, a, "Reporter")
                /\ a = ReporterAddress(c, k)
  /\ \A s, a : CanCreateCase(s, a) = Ok =>
                /\ Holds(s, a, "Reporter")
                /\ s[a].reporter_type \in {"Authority", "Full"}
  /\ \A s, a : CanCreateAddress(s, a) = Ok =>
                /\ Holds(s, a, "Reporter")
                /\ s[a].reporter_type # "Inactive"
  /\ \A s, k, a, r : CanUpdateCase(s, k, a, r) = Ok =>
                \/ s[a].reporter_type = "Authority"
                \/ s[a].reporter_type = "Full" /\ r = k
  /\ \A s, c, k : HasAuthority(s, c, k) = Ok =>
                Holds(s, c, "Community") /\ k = s[c].authority
<1>1. \A s, a, type : ValidAccount(s, a, type) = Ok => Holds(s, a, type)
  BY ThenOk DEF ValidAccount, Require, Ok, Holds
<1>2. \A s, a, type : AccountDataIs(s, a, type) = Ok => Holds(s, a, type)
  BY ThenOk DEF AccountDataIs, Require, Ok, Holds
<1>3. \A s, a : EmptyAccount(s, a) = Ok => a \notin DOMAIN s
  BY DEF EmptyAccount, Require, Ok, DataIsEmpty
<1>4. \A s, a, c, k : ReporterBelongs(s, a, c, k) = Ok =>
          Holds(s, a, "Reporter") /\ a = ReporterAddress(c, k)
  BY <1>1, ThenOk DEF ReporterBelongs, Require, Ok
<1>5. \A s, a : CanCreateCase(s, a) = Ok =>
          /\ Holds(s, a, "Reporter")
          /\ s[a].reporter_type \in {"Authority", "Full"}
  BY <1>2, ThenOk DEF CanCreateCase, Require, Ok
<1>6. \A s, a : CanCreateAddress(s, a) = Ok =>
          Holds(s, a, "Reporter") /\ s[a].reporter_type # "Inactive"
  BY <1>2, ThenOk DEF CanCreateAddress, Require, Ok
<1>7. \A s, k, a, r : CanUpdateCase(s, k, a, r) = Ok =>
          \/ s[a].reporter_type = "Authority"
          \/ s[a].reporter_type = "Full" /\ r = k
  BY ThenOk DEF CanUpdateCase, Require, Ok
<1>8. \A s, c, k : HasAuthority(s, c, k) = Ok =>
          Holds(s, c, "Community") /\ k = s[c].authority
  BY <1>1, ThenOk DEF HasAuthority, Require, Ok
<1>. QED
  BY <1>1, <1>3, <1>4, <1>5, <1>6, <1>7, <1>8

LEMMA CallPasses ==
  /\ \A ix, n : TakesAccounts(ix, n) = Ok => Len(ix.accounts) >= n
  /\ \A t, k : Signed(t, k) = Ok => k \in t.signers
  /\ \A t, payer, a, pda, system :
         CreateAccount(t, payer, a, pda, system) = Ok => a = pda
  /\ \A condition, error :
         error \in Error /\ Require(condition, error) = Ok => condition
BY ThenOk DEF TakesAccounts, Signed, CreateAccount, Require, Ok, Error

\* A new community starts with no cases: every case lies under a community
\* that exists already.
LEMMA CreateCommunityKeeps ==
  ASSUME NEW s, LedgerOK(s), NEW t, NEW ix \in Instruction,
         ix.op = "CreateCommunity", CreateCommunityVerdict(s, t, ix) = Ok
  PROVE  LedgerOK(CreateCommunityEffect(s, ix))
<1>. DEFINE a == ix.accounts[2]
            d == [account_type |-> "Community", authority |-> ix.accounts[1],
                  next_case_id |-> 0, name |-> ix.name]
            u == CreateCommunityEffect(s, ix)
<1>1. /\ Len(ix.accounts) >= 4
      /\ a \notin DOMAIN s
      /\ a = CommunityAddress(ix.name)
  <2>1. /\ TakesAccounts(ix, 4) = Ok
        /\ EmptyAccount(s, a) = Ok
        /\ CreateAccount(t, ix.accounts[1], a, CommunityAddress(ix.name),
                         ix.accounts[3]) = Ok
    BY ThenOk DEF CreateCommunityVerdict
  <2>. QED
    BY <2>1, ChecksPass, CallPasses
<1>2. a \in Pubkey /\ d \in AccountData
  <2>1. ix.accounts[1] \in Pubkey /\ ix.accounts[2] \in Pubkey
    BY <1>1, InstructionAccounts
  <2>2. ix.name \in Name
    BY DEF Instruction
  <2>3. 0 \in CaseId
    BY CaseIdAssumption DEF CaseId
  <2>. QED
    BY <2>1, <2>2, <2>3 DEF AccountData, Community
<1>3. /\ DOMAIN u = DOMAIN s \cup {a}
      /\ u[a] = d
      /\ \A x \in DOMAIN s : u[x] = s[x]
  BY <1>1 DEF CreateCommunityEffect, Put
<1>4. IsLedger(u)
  BY <1>2, PutTyped DEF LedgerOK, CreateCommunityEffect
<1>. HIDE DEF u
<1>5. Communities(u) = Communities(s) \cup {a}
  BY <1>3 DEF Communities
<1>6. \A c : CaseIds(u, c) = CaseIds(s, c)
  BY <1>1, <1>3, AddressesDiffer DEF CaseIds
<1>7. CaseIds(s, a) = {}
  BY <1>1, CaseAccounts DEF CaseIds, Communities
<1>8. CounterCountsCases(u)
  <2>1. CaseIds(u, a) = 0 .. u[a].next_case_id - 1
    BY <1>3, <1>6, <1>7
  <2>2. \A c \in Communities(s) : u[c] = s[c]
    BY <1>3 DEF Communities
  <2>. QED
    BY <2>1, <2>2, <1>5, <1>6 DEF LedgerOK, CounterCountsCases
<1>9. \A x \in DOMAIN u : OnItsOwnAddress(u, x)
  BY <1>1, <1>3, <1>5 DEF LedgerOK, OnItsOwnAddress
<1>10. AuthorsRegistered(u)
  BY <1>3, <1>5, <1>6, <1>7 DEF LedgerOK, AuthorsRegistered, CaseIds
<1>. QED
  BY <1>4, <1>8, <1>9, <1>10 DEF LedgerOK, u

LEMMA UpdateCommunityKeeps ==
  ASSUME NEW s, LedgerOK(s), NEW t, NEW ix \in Instruction,
         ix.op = "UpdateCommunity", UpdateCommunityVerdict(s, t, ix) = Ok
  PROVE  LedgerOK(UpdateCommunityEffect(s, ix))
<1>. DEFINE a == ix.accounts[2]
            d == [s[a] EXCEPT !.authority = IF Len(ix.accounts) >= 3
                                            THEN ix.accounts[3] ELSE @]
<1>1. Len(ix.accounts) >= 2 /\ Holds(s, a, "Community")
  <2>1. /\ TakesAccounts(ix, 2) = Ok
        /\ HasAuthority(s, a, ix.accounts[1]) = Ok
    BY ThenOk DEF UpdateCommunityVerdict
  <2>. QED
    BY <2>1, ChecksPass, CallPasses
<1>2. a \in DOMAIN s /\ s[a] \in Community
  BY <1>1, DataFields DEF Holds, LedgerOK, IsLedger
<1>3. Len(ix.accounts) >= 3 => ix.accounts[3] \in Pubkey
  BY InstructionAccounts
<1>4. d \in Community /\ d.name = s[a].name
      /\ d.next_case_id = s[a].next_case_id
  BY <1>2, <1>3 DEF Community
<1>5. d \in AccountData /\ d.account_type = "Community"
      /\ s[a].account_type = "Community"
  BY <1>2, <1>4 DEF AccountData, Community
<1>. HIDE DEF d
<1>6. LedgerOK(Put(s, a, d))
  BY <1>2, <1>4, <1>5, Rewrite
<1>. QED
  BY <1>6 DEF UpdateCommunityEffect, d

LEMMA CreateNetworkKeeps ==
  ASSUME NEW s, LedgerOK(s), NEW t, NEW ix \in Instruction,
         ix.op = "CreateNetwork", CreateNetworkVerdict(s, t, ix) = Ok
  PROVE  LedgerOK(CreateNetworkEffect(s, ix))
<1>. DEFINE a == ix.accounts[2]
            c == ix.accounts[3]
            d == [account_type |-> "Network", name |-> ix.name]
<1>1. /\ Len(ix.accounts) >= 5
      /\ a \notin DOMAIN s
      /\ Holds(s, c, "Community")
      /\ a = NetworkAddress(c, ix.name)
  <2>1. /\ TakesAccounts(ix, 5) = Ok
        /\ ValidAccount(s, c, "Community") = Ok
        /\ EmptyAccount(s, a) = Ok
        /\ CreateAccount(t, ix.accounts[1], a, NetworkAddress(c, ix.name),
                         ix.accounts[4]) = Ok
    BY ThenOk DEF CreateNetworkVerdict
  <2>. QED
    BY <2>1, ChecksPass, CallPasses
<1>2. a \in Pubkey /\ d \in AccountData
  <2>1. ix.name \in Name
    BY DEF Instruction
  <2>. QED
    BY <1>1, <2>1, InstructionAccounts DEF AccountData, Network
<1>3. OnItsOwnAddress(Put(s, a, d), a)
  BY <1>1 DEF OnItsOwnAddress, Communities, Put, Holds
<1>. QED
  BY <1>1, <1>2, <1>3, Allocate DEF CreateNetworkEffect

LEMMA CreateReporterKeeps ==
  ASSUME NEW s, LedgerOK(s), NEW t, NEW ix \in Instruction,
         ix.op = "CreateReporter", CreateReporterVerdict(s, t, ix) = Ok
  PROVE  LedgerOK(CreateReporterEffect(s, ix))
<1>. DEFINE a == ix.accounts[4]
            c == ix.accounts[2]
            d == [account_type |-> "Reporter",
                  reporter_type |-> ix.reporter_type, name |-> ix.name]
<1>1. /\ Len(ix.accounts) >= 6
      /\ a \notin DOMAIN s
      /\ Holds(s, c, "Community")
      /\ a = ReporterAddress(c, ix.accounts[3])
  <2>1. /\ TakesAccounts(ix, 6) = Ok
        /\ HasAuthority(s, c, ix.accounts[1]) = Ok
        /\ EmptyAccount(s, a) = Ok
        /\ CreateAccount(t, ix.accounts[1], a,
                         ReporterAddress(c, ix.accounts[3]),
                         ix.accounts[5]) = Ok
    BY ThenOk DEF CreateReporterVerdict
  <2>. QED
    BY <2>1, ChecksPass, CallPasses
<1>2. a \in Pubkey /\ ix.accounts[3] \in Pubkey /\ d \in AccountData
  <2>1. ix.name \in Name /\ ix.reporter_type \in ReporterType
    BY DEF Instruction
  <2>. QED
    BY <1>1, <2>1, InstructionAccounts DEF AccountData, Reporter
<1>3. OnItsOwnAddress(Put(s, a, d), a)
  BY <1>1, <1>2 DEF OnItsOwnAddress, Communities, Put, Holds
<1>. QED
  BY <1>1, <1>2, <1>3, Allocate DEF CreateReporterEffect

LEMMA UpdateReporterKeeps ==
  ASSUME NEW s, LedgerOK(s), NEW t, NEW ix \in Instruction,
         ix.op = "UpdateReporter", UpdateReporterVerdict(s, t, ix) = Ok
  PROVE  LedgerOK(UpdateReporterEffect(s, ix))
<1>. DEFINE a == ix.accounts[3]
            d == [s[a] EXCEPT !.name = ix.name,
                              !.reporter_type = ix.reporter_type]
<1>1. Holds(s, a, "Reporter")
  <2>1. ReporterBelongs(s, a, ix.accounts[2], ix.accounts[4]) = Ok
    BY ThenOk DEF UpdateReporterVerdict
  <2>. QED
    BY <2>1, ChecksPass
<1>2. a \in DOMAIN s /\ s[a] \in Reporter
  BY <1>1, DataFields DEF Holds, LedgerOK, IsLedger
<1>3. ix.name \in Name /\ ix.reporter_type \in ReporterType
  BY DEF Instruction
<1>4. d \in Reporter
  BY <1>2, <1>3 DEF Reporter
<1>5. d \in AccountData /\ d.account_type = "Reporter"
      /\ s[a].account_type = "Reporter"
  BY <1>2, <1>4 DEF AccountData, Reporter
<1>. HIDE DEF d
<1>6. LedgerOK(Put(s, a, d))
  BY <1>2, <1>5, Rewrite
<1>. QED
  BY <1>6 DEF UpdateReporterEffect, d

LEMMA UpdateCaseKeeps ==
  ASSUME NEW s, LedgerOK(s), NEW t, NEW ix \in Instruction,
         ix.op = "UpdateCase", UpdateCaseVerdict(s, t, ix) = Ok
  PROVE  LedgerOK(UpdateCaseEffect(s, ix))
<1>. DEFINE a == ix.accounts[4]
            d == [s[a] EXCEPT !.categories = ix.categories,
                              !.status = ix.status]
<1>1. Holds(s, a, "Case")
  <2>1. ValidAccount(s, a, "Case") = Ok
    BY ThenOk DEF UpdateCaseVerdict
  <2>. QED
    BY <2>1, ChecksPass
<1>2. a \in DOMAIN s /\ s[a] \in Case
  BY <1>1, DataFields DEF Holds, LedgerOK, IsLedger
<1>3. ix.categories \in CategorySet /\ ix.status \in CaseStatus
  BY DEF Instruction
<1>4. d \in Case /\ d.reporter_key = s[a].reporter_key
  BY <1>2, <1>3 DEF Case
<1>5. d \in AccountData /\ d.account_type = "Case"
      /\ s[a].account_type = "Case"
  BY <1>2, <1>4 DEF AccountData, Case
<1>. HIDE DEF d
<1>6. LedgerOK(Put(s, a, d))
  BY <1>2, <1>4, <1>5, Rewrite
<1>. QED
  BY <1>6 DEF UpdateCaseEffect, d

LEMMA CreateAddressKeeps ==
  ASSUME NEW s, LedgerOK(s), NEW t, NEW ix \in Instruction,
         ix.op = "CreateAddress", CreateAddressVerdict(s, t, ix) = Ok
  PROVE  LedgerOK(CreateAddressEffect(s, ix))
<1>. DEFINE a == ix.accounts[6]
            d == [account_type |-> "Address", risk |-> ix.risk,
                  case_id |-> ix.case_id, category |-> ix.category]
<1>1. /\ Len(ix.accounts) >= 8
      /\ a \notin DOMAIN s
      /\ a = AddressAddress(ix.accounts[3], ix.address)
  <2>1. /\ TakesAccounts(ix, 8) = Ok
        /\ EmptyAccount(s, a) = Ok
        /\ CreateAccount(t, ix.accounts[1], a,
                         AddressAddress(ix.accounts[3], ix.address),
                         ix.accounts[7]) = Ok
    BY ThenOk DEF CreateAddressVerdict
  <2>. QED
    BY <2>1, ChecksPass, CallPasses
<1>2. a \in Pubkey /\ ix.accounts[3] \in Pubkey /\ ix.address \in Pubkey
      /\ d \in AccountData
  <2>1. /\ ix.address \in Pubkey /\ ix.risk \in Risk
        /\ ix.case_id \in CaseId /\ ix.category \in Category
    BY DEF Instruction
  <2>. QED
    BY <1>1, <2>1, InstructionAccounts DEF AccountData, Address
<1>3. OnItsOwnAddress(Put(s, a, d), a)
  BY <1>1, <1>2 DEF OnItsOwnAddress, Put
<1>. QED
  BY <1>1, <1>2, <1>3, Allocate DEF CreateAddressEffect

\* UpdateAddress turns a reporter's account into an address.  What the other
\* accounts rely on is only that the account is there.
LEMMA UpdateAddressKeeps ==
  ASSUME NEW s, LedgerOK(s), NEW t, NEW ix \in Instruction,
         ix.op = "UpdateAddress", UpdateAddressVerdict(s, t, ix) = Ok
  PROVE  LedgerOK(UpdateAddressEffect(s, ix))
<1>. DEFINE a == ix.accounts[3]
            e == ix.accounts[5]
            d == [s[e] EXCEPT !.risk = ix.risk, !.case_id = ix.case_id,
                              !.category = ix.category]
            u == Put(s, a, d)
<1>1. Holds(s, a, "Reporter") /\ Holds(s, e, "Address")
  <2>1. /\ ValidAccount(s, e, "Address") = Ok
        /\ ReporterBelongs(s, a, ix.accounts[2], ix.accounts[1]) = Ok
    BY ThenOk DEF UpdateAddressVerdict
  <2>. QED
    BY <2>1, ChecksPass
<1>2. /\ a \in DOMAIN s /\ s[a].account_type = "Reporter"
      /\ e \in DOMAIN s /\ s[e] \in Address
  BY <1>1, DataFields DEF Holds, LedgerOK, IsLedger
<1>3. /\ ix.risk \in Risk /\ ix.case_id \in CaseId
      /\ ix.category \in Category
  BY DEF Instruction
<1>4. d \in Address /\ d.account_type = "Address"
  BY <1>2, <1>3 DEF Address
<1>5. d \in AccountData
  BY <1>4 DEF AccountData
<1>. HIDE DEF d
<1>6. /\ DOMAIN u = DOMAIN s
      /\ u[a] = d
      /\ \A x \in DOMAIN s : x # a => u[x] = s[x]
  BY <1>2 DEF Put
<1>7. IsLedger(u)
  BY <1>2, <1>5, PutTyped DEF LedgerOK, IsLedger
<1>. HIDE DEF u
<1>8. /\ Communities(u) = Communities(s)
      /\ \A x \in Communities(s) : u[x] = s[x]
  BY <1>2, <1>4, <1>6 DEF Communities
<1>9. \A x : CaseIds(u, x) = CaseIds(s, x)
  BY <1>6 DEF CaseIds
<1>10. \A x, id : CaseAddress(x, id) \in DOMAIN s =>
           u[CaseAddress(x, id)] = s[CaseAddress(x, id)]
  BY <1>2, <1>6, CaseAccounts
<1>11. CounterCountsCases(u)
  BY <1>8, <1>9 DEF LedgerOK, CounterCountsCases
<1>12. \A x \in DOMAIN u : OnItsOwnAddress(u, x)
  <2>1. \E y \in Communities(s), k \in Pubkey : a = ReporterAddress(y, k)
    BY <1>2 DEF LedgerOK, OnItsOwnAddress
  <2>2. OnItsOwnAddress(u, a)
    BY <2>1, <1>4, <1>6, <1>8 DEF OnItsOwnAddress
  <2>3. \A x \in DOMAIN s : x # a => OnItsOwnAddress(u, x)
    BY <1>6, <1>8 DEF LedgerOK, OnItsOwnAddress
  <2>. QED
    BY <2>2, <2>3, <1>6
<1>13. AuthorsRegistered(u)
  BY <1>6, <1>8, <1>9, <1>10 DEF LedgerOK, AuthorsRegistered, CaseIds
<1>. QED
  BY <1>7, <1>11, <1>12, <1>13 DEF LedgerOK, UpdateAddressEffect, u, d

LEMMA NextCaseId ==
  ASSUME NEW id \in CaseId
  PROVE  /\ (id + 1) % CaseIdCount \in CaseId
         /\ id + 1 < CaseIdCount => (id + 1) % CaseIdCount = id + 1
         /\ id + 1 = CaseIdCount => (id + 1) % CaseIdCount = 0
BY CaseIdAssumption DEF CaseId

\* The new case takes the number the counter stands at, which is free, and
\* the counter moves past it: the ids taken stay exactly those below it.  At
\* the last id the counter wraps to 0 with every id taken, and from then on
\* no case can be opened: the account of id 0 is never empty again.
LEMMA CreateCaseKeeps ==
  ASSUME NEW s, LedgerOK(s), NEW t, NEW ix \in Instruction,
         ix.op = "CreateCase", CreateCaseVerdict(s, t, ix) = Ok
  PROVE  LedgerOK(CreateCaseEffect(s, ix))
<1>. DEFINE c == ix.accounts[2]
            k == ix.accounts[1]
            id == ix.case_id
            a == ix.accounts[4]
            next == (id + 1) % CaseIdCount
            b == [s[c] EXCEPT !.next_case_id = (@ + 1) % CaseIdCount]
            d == [account_type |-> "Case", reporter_key |-> k,
                  categories |-> ix.categories, status |-> ix.status,
                  name |-> ix.name]
            u == Put(Put(s, c, b), a, d)
<1>1. /\ Len(ix.accounts) >= 6
      /\ Holds(s, c, "Community")
      /\ id = s[c].next_case_id
      /\ a \notin DOMAIN s
      /\ a = CaseAddress(c, id)
      /\ ReporterAddress(c, k) \in DOMAIN s
  <2>1. /\ TakesAccounts(ix, 6) = Ok
        /\ Require(ix.accounts[3] = ReporterAddress(c, k),
                   "InvalidReporter") = Ok
        /\ ValidAccount(s, c, "Community") = Ok
        /\ EmptyAccount(s, a) = Ok
        /\ CanCreateCase(s, ix.accounts[3]) = Ok
        /\ Require(id = s[c].next_case_id, "InvalidInstruction") = Ok
        /\ CreateAccount(t, k, a, CaseAddress(c, id), ix.accounts[5]) = Ok
    BY ThenOk DEF CreateCaseVerdict
  <2>2. /\ ix.accounts[3] = ReporterAddress(c, k)
        /\ id = s[c].next_case_id
    BY <2>1 DEF Require, Ok
  <2>. QED
    BY <2>1, <2>2, ChecksPass, CallPasses DEF Holds
<1>2. /\ k \in Pubkey /\ a \in Pubkey /\ id \in CaseId
      /\ ix.categories \in CategorySet /\ ix.status \in CaseStatus
      /\ ix.name \in Name
  <2>1. /\ id \in CaseId /\ ix.categories \in CategorySet
        /\ ix.status \in CaseStatus /\ ix.name \in Name
    BY DEF Instruction
  <2>. QED
    BY <1>1, <2>1, InstructionAccounts
<1>3. /\ c \in DOMAIN s /\ s[c] \in Community
      /\ s[c].account_type = "Community"
      /\ c \in Communities(s)
  BY <1>1, DataFields DEF Holds, LedgerOK, IsLedger, Communities
<1>4. /\ b \in Community /\ b.account_type = "Community"
      /\ b.name = s[c].name /\ b.next_case_id = next
  BY <1>1, <1>2, <1>3, NextCaseId DEF Community
<1>5. /\ d \in Case /\ d.account_type = "Case" /\ d.reporter_key = k
  BY <1>2 DEF Case
<1>6. b \in AccountData /\ d \in AccountData
  BY <1>4, <1>5 DEF AccountData
<1>. HIDE DEF b, d
<1>7. /\ DOMAIN u = DOMAIN s \cup {a}
      /\ u[a] = d
      /\ u[c] = b
      /\ \A x \in DOMAIN s : x # c => u[x] = s[x]
  BY <1>1, <1>3 DEF Put
<1>8. IsLedger(u)
  <2>1. IsLedger(Put(s, c, b))
    BY <1>3, <1>6, PutTyped DEF LedgerOK, IsLedger
  <2>. QED
    BY <2>1, <1>2, <1>6, PutTyped
<1>. HIDE DEF u
<1>9. \A x \in DOMAIN s : u[x].account_type = s[x].account_type
  BY <1>3, <1>4, <1>7
<1>10. Communities(u) = Communities(s)
  BY <1>1, <1>5, <1>7, <1>9 DEF Communities
<1>11. /\ CaseIds(u, c) = CaseIds(s, c) \cup {id}
       /\ \A x : x # c => CaseIds(u, x) = CaseIds(s, x)
  BY <1>1, <1>2, <1>7, AddressesDiffer DEF CaseIds
<1>12. CounterCountsCases(u)
  <2>1. id \notin CaseIds(s, c)
    BY <1>1 DEF CaseIds
  <2>2. CaseIds(s, c) = 0 .. id - 1
    BY <2>1, <1>1, <1>2, <1>3 DEF LedgerOK, CounterCountsCases
  <2>3. CaseIds(u, c) = 0 .. id
    BY <2>2, <1>2, <1>11 DEF CaseId
  <2>4. \/ CaseIds(u, c) = 0 .. u[c].next_case_id - 1
        \/ u[c].next_case_id = 0 /\ CaseIds(u, c) = CaseId
    <3>1. u[c].next_case_id = next
      BY <1>4, <1>7
    <3>2. id + 1 < CaseIdCount => CaseIds(u, c) = 0 .. next - 1
      BY <2>3, <1>2, NextCaseId DEF CaseId
    <3>3. id + 1 = CaseIdCount => next = 0 /\ CaseIds(u, c) = CaseId
      BY <2>3, <1>2, NextCaseId DEF CaseId
    <3>4. id + 1 < CaseIdCount \/ id + 1 = CaseIdCount
      BY <1>2, CaseIdAssumption DEF CaseId
    <3>. HIDE DEF next, id, c
    <3>. QED
      BY <3>1, <3>2, <3>3, <3>4
  <2>5. \A x \in Communities(s) : x # c => u[x] = s[x]
    BY <1>7 DEF Communities
  <2>. QED
    BY <2>4, <2>5, <1>10, <1>11 DEF LedgerOK, CounterCountsCases
<1>13. \A x \in DOMAIN u : OnItsOwnAddress(u, x)
  <2>1. OnItsOwnAddress(u, a)
    BY <1>1, <1>2, <1>3, <1>5, <1>7, <1>10 DEF OnItsOwnAddress
  <2>2. OnItsOwnAddress(u, c)
    BY <1>3, <1>4, <1>7 DEF LedgerOK, OnItsOwnAddress
  <2>3. \A x \in DOMAIN s : x # c => OnItsOwnAddress(u, x)
    BY <1>7, <1>10 DEF LedgerOK, OnItsOwnAddress
  <2>. QED
    BY <2>1, <2>2, <2>3, <1>7
<1>14. AuthorsRegistered(u)
  <2>1. \A x \in Communities(s) : \A i \in CaseIds(s, x) :
            u[CaseAddress(x, i)] = s[CaseAddress(x, i)]
    BY <1>3, <1>7, CaseAccounts DEF CaseIds
  <2>2. u[CaseAddress(c, id)].reporter_key = k
    BY <1>1, <1>5, <1>7
  <2>. QED
    BY <2>1, <2>2, <1>1, <1>7, <1>10, <1>11 DEF LedgerOK, AuthorsRegistered
<1>. QED
  BY <1>8, <1>12, <1>13, <1>14 DEF LedgerOK, CreateCaseEffect, u, d, b

-----------------------------------------------------------------------------
(* The state machine.                                                      *)

Inv == /\ TypeOK
       /\ LedgerOK(accounts)
       /\ LedgerOK(work)

LEMMA InitInv == Init => Inv
<1>. SUFFICES ASSUME Init PROVE Inv
  OBVIOUS
<1>1. DOMAIN accounts = {}
  BY DEF Init
<1>2. LedgerOK(accounts)
  BY <1>1 DEF Init, LedgerOK, IsLedger, CounterCountsCases, Communities,
              AuthorsRegistered
<1>. QED
  BY <1>2 DEF Init, Inv, TypeOK, LedgerOK, VerdictType

\* The instruction a handler runs is one of the transaction's.
LEMMA RunningInstruction ==
  ASSUME TypeOK, NEW op, Running(op)
  PROVE  Instr \in Instruction /\ Instr.op = op /\ tx \in Transactions
<1>1. tx \in Transactions /\ pc \in 1 .. Len(tx.instructions)
  BY DEF TypeOK, Running
<1>2. tx.instructions \in Seq(Instruction)
  BY <1>1, TransactionsAssumption DEF Transaction
<1>. QED
  BY <1>1, <1>2 DEF Running, Instr

\* Running a handler either writes a ledger that is in order or fails with a
\* typed error and writes nothing.
LEMMA ExecuteInv ==
  ASSUME Inv, NEW op, Running(op), NEW checks \in VerdictType, NEW effect,
         checks = Ok => LedgerOK(effect),
         Execute(checks, effect)
  PROVE  Inv'
<1>. DEFINE writes == Require(Changed(work, effect) \subseteq tx.writable,
                              "ReadonlyDataModified")
<1>0. tx # NoTx
  BY DEF Running
<1>1. CASE (checks ?? writes) = Ok
  <2>1. Succeed(effect) /\ checks = Ok
    BY <1>1, ThenOk DEF Execute
  <2>. QED
    BY <2>1, <1>0 DEF Succeed, Inv, TypeOK, LedgerOK
<1>2. CASE (checks ?? writes) # Ok
  <2>1. Fail(checks ?? writes)
    BY <1>2 DEF Execute
  <2>2. (checks ?? writes) \in VerdictType
    <3>1. writes \in VerdictType
      BY RequireTyped DEF Error
    <3>. QED
      BY <3>1, ThenTyped
  <2>. QED
    BY <2>1, <2>2, <1>0 DEF Fail, Inv, TypeOK
<1>. QED
  BY <1>1, <1>2

LEMMA ProcessInv ==
  ASSUME Inv, Process
  PROVE  Inv'
<1>. USE DEF Inv
<1>1. CASE CreateCommunity
  BY <1>1, RunningInstruction, VerdictsTyped, CreateCommunityKeeps, ExecuteInv
     DEF CreateCommunity
<1>2. CASE UpdateCommunity
  BY <1>2, RunningInstruction, VerdictsTyped, UpdateCommunityKeeps, ExecuteInv
     DEF UpdateCommunity
<1>3. CASE CreateNetwork
  BY <1>3, RunningInstruction, VerdictsTyped, CreateNetworkKeeps, ExecuteInv
     DEF CreateNetwork
<1>4. CASE UpdateNetwork
  <2>1. UpdateNetworkVerdict(work, tx, Instr) \in VerdictType
    BY VerdictsTyped
  <2>. QED
    BY <1>4, <2>1 DEF UpdateNetwork, Running, Fail, TypeOK
<1>5. CASE CreateReporter
  BY <1>5, RunningInstruction, VerdictsTyped, CreateReporterKeeps, ExecuteInv
     DEF CreateReporter
<1>6. CASE UpdateReporter
  BY <1>6, RunningInstruction, VerdictsTyped, UpdateReporterKeeps, ExecuteInv
     DEF UpdateReporter
<1>7. CASE CreateCase
  BY <1>7, RunningInstruction, VerdictsTyped, CreateCaseKeeps, ExecuteInv
     DEF CreateCase
<1>8. CASE UpdateCase
  BY <1>8, RunningInstruction, VerdictsTyped, UpdateCaseKeeps, ExecuteInv
     DEF UpdateCase
<1>9. CASE CreateAddress
  BY <1>9, RunningInstruction, VerdictsTyped, CreateAddressKeeps, ExecuteInv
     DEF CreateAddress
<1>10. CASE UpdateAddress
  BY <1>10, RunningInstruction, VerdictsTyped, UpdateAddressKeeps, ExecuteInv
     DEF UpdateAddress
<1>11. CASE Reject
  BY <1>11 DEF Reject, Running, Fail, TypeOK, VerdictType, Error
<1>. QED
  BY <1>1, <1>2, <1>3, <1>4, <1>5, <1>6, <1>7, <1>8, <1>9, <1>10, <1>11
     DEF Process

LEMMA NextInv ==
  ASSUME Inv, [Next]_vars
  PROVE  Inv'
<1>1. CASE \E t \in Transactions : Begin(t)
  BY <1>1, TransactionsAssumption DEF Begin, Inv, TypeOK
<1>2. CASE Process
  BY <1>2, ProcessInv
<1>3. CASE Commit
  BY <1>3 DEF Commit, Finish, Inv, TypeOK, VerdictType
<1>4. CASE Abort
  BY <1>4 DEF Abort, Finish, Inv, TypeOK, VerdictType
<1>5. CASE UNCHANGED vars
  BY <1>5 DEF vars, Inv, TypeOK
<1>. QED
  BY <1>1, <1>2, <1>3, <1>4, <1>5 DEF Next

LEMMA Invariance == Spec => []Inv
<1>1. Init => Inv
  BY InitInv
<1>2. Inv /\ [Next]_vars => Inv'
  BY NextInv
<1>. QED
  BY <1>1, <1>2, PTL DEF Spec

-----------------------------------------------------------------------------
(* The invariants of the properties module.                                *)

\* Every variable keeps its type, whatever is submitted.
THEOREM TypeCorrect == Spec => []TypeOK
<1>1. Inv => TypeOK
  BY DEF Inv
<1>. QED
  BY <1>1, Invariance, PTL

\* The cases of a community are numbered 0, 1, 2, ... up to its counter, in
\* the ledger and between the instructions of a transaction
\* (process_create_case.rs:65-88).
THEOREM CounterIsExact == Spec => []CaseIdsFollowCounter
<1>1. Inv => CaseIdsFollowCounter
  BY DEF Inv, LedgerOK, CaseIdsFollowCounter
<1>. QED
  BY <1>1, Invariance, PTL

\* No network, reporter or case without its community, and every account at
\* the PDA its own data and type call for.
THEOREM NoOrphans == Spec => []AccountsOnTheirAddresses
<1>1. Inv => AccountsOnTheirAddresses
  BY DEF Inv, LedgerOK, AccountsOnTheirAddresses
<1>. QED
  BY <1>1, Invariance, PTL

\* The author of every case has a reporter account in the case's community.
THEOREM AuthorsAreReporters == Spec => []CaseAuthorsRegistered
<1>1. Inv => CaseAuthorsRegistered
  BY DEF Inv, LedgerOK, CaseAuthorsRegistered
<1>. QED
  BY <1>1, Invariance, PTL
=============================================================================
