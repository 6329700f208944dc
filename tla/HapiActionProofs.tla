-------------------------- MODULE HapiActionProofs --------------------------
(***************************************************************************)
(* What a successful instruction may do to the ledger, proved for any keys,*)
(* names and transactions.                                                 *)
(*                                                                         *)
(* Effect says what the eight writing handlers have in common: one account *)
(* is written, at an address of its kind, on behalf of a signer who is     *)
(* entitled to it (two accounts when a case is opened).  Each handler is   *)
(* shown once to have an Effect; the properties then follow from Effect    *)
(* alone, without the handlers' checks and lists of accounts.              *)
(*                                                                         *)
(* A commit then is a step of the append-only register of cases: what has  *)
(* been done to the working copy has lost nothing of the ledger, and both  *)
(* number their cases without gaps.                                        *)
(***************************************************************************)
EXTENDS HapiProofs, HapiRefinement

-----------------------------------------------------------------------------
(* What a handler that succeeds makes of the ledger s in transaction t.    *)

\* The authority of community c has signed.
Authorized(s, t, c) == c \in Communities(s) /\ s[c].authority \in t.signers

\* A reporter of community c, of one of these types, has signed.
ReporterSigned(s, t, c, k, types) ==
    c \in Communities(s) /\ k \in t.signers /\ ReporterIn(s, c, k, types)

Founds(s, t, u) ==
    \E name, d : /\ CommunityAddress(name) \notin DOMAIN s
                 /\ d.account_type = "Community"
                 /\ u = Put(s, CommunityAddress(name), d)

HandsOver(s, t, u) ==
    \E c, d : /\ Authorized(s, t, c)
              /\ d.account_type = "Community"
              /\ d.name = s[c].name
              /\ u = Put(s, c, d)

AddsNetwork(s, t, u) ==
    \E c, name, d : /\ Authorized(s, t, c)
                    /\ NetworkAddress(c, name) \notin DOMAIN s
                    /\ d.account_type = "Network"
                    /\ u = Put(s, NetworkAddress(c, name), d)

Staffs(s, t, u) ==
    \E c, k, d : /\ Authorized(s, t, c)
                 /\ \/ ReporterAddress(c, k) \notin DOMAIN s
                    \/ Holds(s, ReporterAddress(c, k), "Reporter")
                 /\ d.account_type = "Reporter"
                 /\ u = Put(s, ReporterAddress(c, k), d)

OpensCaseIn(s, t, u) ==
    \E c, k, b, d :
        LET a == CaseAddress(c, s[c].next_case_id)
        IN  /\ ReporterSigned(s, t, c, k, {"Full", "Authority"})
            /\ a \notin DOMAIN s
            /\ b.account_type = "Community"
            /\ b.name = s[c].name
            /\ b.authority = s[c].authority
            /\ d.account_type = "Case"
            /\ d.reporter_key = k
            /\ u = Put(Put(s, c, b), a, d)

\* A case is revised by reporter k of community c.
RevisesCaseFor(s, t, u, c, k) ==
    \E a, d :
        /\ Holds(s, a, "Case")
        /\ \/ ReporterSigned(s, t, c, k, {"Authority"})
           \/ ReporterSigned(s, t, c, k, {"Full"}) /\ s[a].reporter_key = k
        /\ d.account_type = "Case"
        /\ d.name = s[a].name
        /\ d.reporter_key = s[a].reporter_key
        /\ u = Put(s, a, d)

RevisesCase(s, t, u) == \E c, k : RevisesCaseFor(s, t, u, c, k)

\* The address is new, or takes the place of a reporter's record.
ReportsAddress(s, t, u) ==
    \E a, d, c, k :
        /\ ReporterSigned(s, t, c, k, ReporterType \ {"Inactive"})
        /\ \/ /\ a \notin DOMAIN s
              /\ \E n, v : a = AddressAddress(n, v)
           \/ a = ReporterAddress(c, k)
        /\ d.account_type = "Address"
        /\ Holds(s, CaseAddress(c, d.case_id), "Case")
        /\ u = Put(s, a, d)

Effect(s, t, u) ==
    \/ Founds(s, t, u)      \/ HandsOver(s, t, u)   \/ AddsNetwork(s, t, u)
    \/ Staffs(s, t, u)      \/ OpensCaseIn(s, t, u) \/ RevisesCase(s, t, u)
    \/ ReportsAddress(s, t, u)

-----------------------------------------------------------------------------
(* Every handler has an effect.                                            *)

\* The reporter's account is that of a key in a community that exists.
LEMMA ReporterAccounts ==
  ASSUME NEW s, LedgerOK(s), NEW c, NEW k,
         Holds(s, ReporterAddress(c, k), "Reporter")
  PROVE  c \in Communities(s)
BY AddressesDiffer DEF LedgerOK, OnItsOwnAddress, Holds

LEMMA FoundsEffect ==
  ASSUME NEW s, LedgerOK(s), NEW t, NEW ix \in Instruction,
         CreateCommunityVerdict(s, t, ix) = Ok
  PROVE  Founds(s, t, CreateCommunityEffect(s, ix))
<1>1. /\ EmptyAccount(s, ix.accounts[2]) = Ok
      /\ CreateAccount(t, ix.accounts[1], ix.accounts[2],
                       CommunityAddress(ix.name), ix.accounts[3]) = Ok
  BY ThenOk DEF CreateCommunityVerdict
<1>2. /\ ix.accounts[2] \notin DOMAIN s
      /\ ix.accounts[2] = CommunityAddress(ix.name)
  BY <1>1, ChecksPass, CallPasses
<1>. QED
  BY <1>2 DEF Founds, CreateCommunityEffect

LEMMA HandsOverEffect ==
  ASSUME NEW s, LedgerOK(s), NEW t, NEW ix \in Instruction,
         UpdateCommunityVerdict(s, t, ix) = Ok
  PROVE  HandsOver(s, t, UpdateCommunityEffect(s, ix))
<1>. DEFINE c == ix.accounts[2]
            d == [s[c] EXCEPT !.authority = IF Len(ix.accounts) >= 3
                                            THEN ix.accounts[3] ELSE @]
<1>1. /\ Signed(t, ix.accounts[1]) = Ok
      /\ HasAuthority(s, c, ix.accounts[1]) = Ok
  BY ThenOk DEF UpdateCommunityVerdict
<1>2. Holds(s, c, "Community") /\ Authorized(s, t, c)
  BY <1>1, ChecksPass, CallPasses DEF Authorized, Communities, Holds
<1>3. s[c] \in Community
  BY <1>2, DataFields DEF Holds, LedgerOK, IsLedger
<1>4. d.account_type = "Community" /\ d.name = s[c].name
  BY <1>3 DEF Community
<1>. QED
  BY <1>2, <1>4 DEF HandsOver, UpdateCommunityEffect

LEMMA AddsNetworkEffect ==
  ASSUME NEW s, LedgerOK(s), NEW t, NEW ix \in Instruction,
         CreateNetworkVerdict(s, t, ix) = Ok
  PROVE  AddsNetwork(s, t, CreateNetworkEffect(s, ix))
<1>. DEFINE c == ix.accounts[3]
            a == ix.accounts[2]
<1>1. /\ Signed(t, ix.accounts[1]) = Ok
      /\ HasAuthority(s, c, ix.accounts[1]) = Ok
      /\ EmptyAccount(s, a) = Ok
      /\ CreateAccount(t, ix.accounts[1], a, NetworkAddress(c, ix.name),
                       ix.accounts[4]) = Ok
  BY ThenOk DEF CreateNetworkVerdict
<1>2. Authorized(s, t, c)
  BY <1>1, ChecksPass, CallPasses DEF Authorized, Communities, Holds
<1>3. a \notin DOMAIN s /\ a = NetworkAddress(c, ix.name)
  BY <1>1, ChecksPass, CallPasses
<1>. QED
  BY <1>2, <1>3 DEF AddsNetwork, CreateNetworkEffect

LEMMA StaffsEffect ==
  ASSUME NEW s, LedgerOK(s), NEW t, NEW ix \in Instruction
  PROVE  /\ CreateReporterVerdict(s, t, ix) = Ok
                => Staffs(s, t, CreateReporterEffect(s, ix))
         /\ UpdateReporterVerdict(s, t, ix) = Ok
                => Staffs(s, t, UpdateReporterEffect(s, ix))
<1>. DEFINE c == ix.accounts[2]
<1>1. ASSUME CreateReporterVerdict(s, t, ix) = Ok
      PROVE  Staffs(s, t, CreateReporterEffect(s, ix))
  <2>1. /\ Signed(t, ix.accounts[1]) = Ok
        /\ HasAuthority(s, c, ix.accounts[1]) = Ok
        /\ EmptyAccount(s, ix.accounts[4]) = Ok
        /\ CreateAccount(t, ix.accounts[1], ix.accounts[4],
                         ReporterAddress(c, ix.accounts[3]),
                         ix.accounts[5]) = Ok
    BY <1>1, ThenOk DEF CreateReporterVerdict
  <2>2. Authorized(s, t, c)
    BY <2>1, ChecksPass, CallPasses DEF Authorized, Communities, Holds
  <2>3. /\ ix.accounts[4] \notin DOMAIN s
        /\ ix.accounts[4] = ReporterAddress(c, ix.accounts[3])
    BY <2>1, ChecksPass, CallPasses
  <2>. QED
    BY <2>2, <2>3 DEF Staffs, CreateReporterEffect
<1>2. ASSUME UpdateReporterVerdict(s, t, ix) = Ok
      PROVE  Staffs(s, t, UpdateReporterEffect(s, ix))
  <2>. DEFINE a == ix.accounts[3]
              d == [s[a] EXCEPT !.name = ix.name,
                                !.reporter_type = ix.reporter_type]
  <2>1. /\ Signed(t, ix.accounts[1]) = Ok
        /\ HasAuthority(s, c, ix.accounts[1]) = Ok
        /\ ReporterBelongs(s, a, c, ix.accounts[4]) = Ok
    BY <1>2, ThenOk DEF UpdateReporterVerdict
  <2>2. Authorized(s, t, c)
    BY <2>1, ChecksPass, CallPasses DEF Authorized, Communities, Holds
  <2>3. Holds(s, a, "Reporter") /\ a = ReporterAddress(c, ix.accounts[4])
    BY <2>1, ChecksPass
  <2>4. s[a] \in Reporter
    BY <2>3, DataFields DEF Holds, LedgerOK, IsLedger
  <2>5. d.account_type = "Reporter"
    BY <2>4 DEF Reporter
  <2>. QED
    BY <2>2, <2>3, <2>5 DEF Staffs, UpdateReporterEffect
<1>. QED
  BY <1>1, <1>2

LEMMA OpensCaseEffect ==
  ASSUME NEW s, LedgerOK(s), NEW t, NEW ix \in Instruction,
         CreateCaseVerdict(s, t, ix) = Ok
  PROVE  OpensCaseIn(s, t, CreateCaseEffect(s, ix))
<1>. DEFINE c == ix.accounts[2]
            k == ix.accounts[1]
            r == ix.accounts[3]
            a == ix.accounts[4]
            b == [s[c] EXCEPT !.next_case_id = (@ + 1) % CaseIdCount]
            d == [account_type |-> "Case", reporter_key |-> k,
                  categories |-> ix.categories, status |-> ix.status,
                  name |-> ix.name]
<1>1. /\ Signed(t, k) = Ok
      /\ Require(r = ReporterAddress(c, k), "InvalidReporter") = Ok
      /\ ValidAccount(s, c, "Community") = Ok
      /\ EmptyAccount(s, a) = Ok
      /\ CanCreateCase(s, r) = Ok
      /\ Require(ix.case_id = s[c].next_case_id, "InvalidInstruction") = Ok
      /\ CreateAccount(t, k, a, CaseAddress(c, ix.case_id),
                       ix.accounts[5]) = Ok
  BY ThenOk DEF CreateCaseVerdict
<1>2. r = ReporterAddress(c, k) /\ ix.case_id = s[c].next_case_id
  BY <1>1 DEF Require, Ok
<1>3. /\ Holds(s, c, "Community")
      /\ ReporterSigned(s, t, c, k, {"Full", "Authority"})
  BY <1>1, <1>2, ChecksPass, CallPasses
     DEF ReporterSigned, ReporterIn, Communities, Holds
<1>4. a \notin DOMAIN s /\ a = CaseAddress(c, s[c].next_case_id)
  BY <1>1, <1>2, ChecksPass, CallPasses
<1>5. s[c] \in Community
  BY <1>3, DataFields DEF Holds, LedgerOK, IsLedger
<1>6. /\ b.account_type = "Community"
      /\ b.name = s[c].name
      /\ b.authority = s[c].authority
  BY <1>5 DEF Community
<1>7. d.account_type = "Case" /\ d.reporter_key = k
  OBVIOUS
<1>8. CreateCaseEffect(s, ix) = Put(Put(s, c, b), a, d)
  BY DEF CreateCaseEffect
<1>. HIDE DEF b, d
<1>. QED
  BY <1>3, <1>4, <1>6, <1>7, <1>8 DEF OpensCaseIn

LEMMA RevisesCaseEffect ==
  ASSUME NEW s, LedgerOK(s), NEW t, NEW ix \in Instruction,
         UpdateCaseVerdict(s, t, ix) = Ok
  PROVE  RevisesCaseFor(s, t, UpdateCaseEffect(s, ix), ix.accounts[2],
                        ix.accounts[1])
<1>. DEFINE c == ix.accounts[2]
            k == ix.accounts[1]
            r == ix.accounts[3]
            a == ix.accounts[4]
            d == [s[a] EXCEPT !.categories = ix.categories,
                              !.status = ix.status]
<1>1. /\ Signed(t, k) = Ok
      /\ Require(r = ReporterAddress(c, k), "InvalidReporter") = Ok
      /\ ValidAccount(s, r, "Reporter") = Ok
      /\ ValidAccount(s, a, "Case") = Ok
      /\ CanUpdateCase(s, k, r, s[a].reporter_key) = Ok
  BY ThenOk DEF UpdateCaseVerdict
<1>2. /\ Holds(s, ReporterAddress(c, k), "Reporter")
      /\ r = ReporterAddress(c, k)
      /\ Holds(s, a, "Case")
      /\ k \in t.signers
  BY <1>1, ChecksPass, CallPasses DEF Require, Ok
<1>3. c \in Communities(s)
  BY <1>2, ReporterAccounts
<1>4. \/ ReporterSigned(s, t, c, k, {"Authority"})
      \/ ReporterSigned(s, t, c, k, {"Full"}) /\ s[a].reporter_key = k
  BY <1>1, <1>2, <1>3, ChecksPass DEF ReporterSigned, ReporterIn
<1>5. s[a] \in Case
  BY <1>2, DataFields DEF Holds, LedgerOK, IsLedger
<1>6. /\ d.account_type = "Case"
      /\ d.name = s[a].name
      /\ d.reporter_key = s[a].reporter_key
  BY <1>5 DEF Case
<1>7. UpdateCaseEffect(s, ix) = Put(s, a, d)
  BY DEF UpdateCaseEffect
<1>. HIDE DEF d
<1>. QED
  BY <1>2, <1>4, <1>6, <1>7 DEF RevisesCaseFor

\* The signer is an active reporter of the community.
LEMMA ActiveReporter ==
  ASSUME NEW s, LedgerOK(s), NEW t, NEW c, NEW k, NEW r,
         Signed(t, k) = Ok, ReporterBelongs(s, r, c, k) = Ok,
         CanCreateAddress(s, r) = Ok
  PROVE  /\ ReporterSigned(s, t, c, k, ReporterType \ {"Inactive"})
         /\ r = ReporterAddress(c, k)
<1>1. /\ Holds(s, r, "Reporter")
      /\ r = ReporterAddress(c, k)
      /\ s[r].reporter_type # "Inactive"
      /\ k \in t.signers
  BY ChecksPass, CallPasses
<1>2. s[r] \in Reporter
  BY <1>1, DataFields DEF Holds, LedgerOK, IsLedger
<1>3. c \in Communities(s)
  BY <1>1, ReporterAccounts
<1>. QED
  BY <1>1, <1>2, <1>3 DEF ReporterSigned, ReporterIn, Reporter

LEMMA ReportsAddressEffect ==
  ASSUME NEW s, LedgerOK(s), NEW t, NEW ix \in Instruction
  PROVE  /\ CreateAddressVerdict(s, t, ix) = Ok
                => ReportsAddress(s, t, CreateAddressEffect(s, ix))
         /\ UpdateAddressVerdict(s, t, ix) = Ok
                => ReportsAddress(s, t, UpdateAddressEffect(s, ix))
<1>. DEFINE c == ix.accounts[2]
            k == ix.accounts[1]
<1>1. ASSUME CreateAddressVerdict(s, t, ix) = Ok
      PROVE  ReportsAddress(s, t, CreateAddressEffect(s, ix))
  <2>. DEFINE a == ix.accounts[6]
              d == [account_type |-> "Address", risk |-> ix.risk,
                    case_id |-> ix.case_id, category |-> ix.category]
  <2>1. /\ Signed(t, k) = Ok
        /\ ReporterBelongs(s, ix.accounts[4], c, k) = Ok
        /\ CanCreateAddress(s, ix.accounts[4]) = Ok
        /\ EmptyAccount(s, a) = Ok
        /\ ValidAccount(s, ix.accounts[5], "Case") = Ok
        /\ Require(ix.accounts[5] = CaseAddress(c, ix.case_id),
                   "CaseIDMismatch") = Ok
        /\ CreateAccount(t, k, a, AddressAddress(ix.accounts[3], ix.address),
                         ix.accounts[7]) = Ok
    BY <1>1, ThenOk DEF CreateAddressVerdict
  <2>2. ReporterSigned(s, t, c, k, ReporterType \ {"Inactive"})
    BY <2>1, ActiveReporter
  <2>3. /\ a \notin DOMAIN s
        /\ a = AddressAddress(ix.accounts[3], ix.address)
    BY <2>1, ChecksPass, CallPasses
  <2>4. Holds(s, CaseAddress(c, ix.case_id), "Case")
    BY <2>1, ChecksPass DEF Require, Ok
  <2>5. /\ d.account_type = "Address"
        /\ Holds(s, CaseAddress(c, d.case_id), "Case")
        /\ CreateAddressEffect(s, ix) = Put(s, a, d)
    BY <2>4 DEF CreateAddressEffect
  <2>. HIDE DEF d
  <2>. QED
    BY <2>2, <2>3, <2>5 DEF ReportsAddress
<1>2. ASSUME UpdateAddressVerdict(s, t, ix) = Ok
      PROVE  ReportsAddress(s, t, UpdateAddressEffect(s, ix))
  <2>. DEFINE a == ix.accounts[3]
              e == ix.accounts[5]
              d == [s[e] EXCEPT !.risk = ix.risk, !.case_id = ix.case_id,
                                !.category = ix.category]
  <2>1. /\ Signed(t, k) = Ok
        /\ ValidAccount(s, e, "Address") = Ok
        /\ ReporterBelongs(s, a, c, k) = Ok
        /\ CanCreateAddress(s, a) = Ok
        /\ ValidAccount(s, ix.accounts[4], "Case") = Ok
        /\ Require(ix.accounts[4] = CaseAddress(c, ix.case_id),
                   "CaseIDMismatch") = Ok
    BY <1>2, ThenOk DEF UpdateAddressVerdict
  <2>2. /\ ReporterSigned(s, t, c, k, ReporterType \ {"Inactive"})
        /\ a = ReporterAddress(c, k)
    BY <2>1, ActiveReporter
  <2>3. Holds(s, CaseAddress(c, ix.case_id), "Case")
    BY <2>1, ChecksPass DEF Require, Ok
  <2>4. s[e] \in Address
    BY <2>1, ChecksPass, DataFields DEF Holds, LedgerOK, IsLedger
  <2>5. /\ d.account_type = "Address"
        /\ Holds(s, CaseAddress(c, d.case_id), "Case")
    BY <2>3, <2>4 DEF Address
  <2>6. UpdateAddressEffect(s, ix) = Put(s, a, d)
    BY DEF UpdateAddressEffect
  <2>. HIDE DEF d
  <2>. QED
    BY <2>2, <2>5, <2>6 DEF ReportsAddress
<1>. QED
  BY <1>1, <1>2

\* The handler of an instruction has passed its checks and written.
Handled(op, verdictOf, effect) ==
    Instr.op = op /\ verdictOf = Ok /\ work' = effect

\* Only the handlers make a step succeed, and they write nothing that the
\* transaction may not write.
LEMMA SuccessIsHandled ==
  ASSUME Inv, [Next]_vars, InstructionDone
  PROVE  /\ Instr \in Instruction
         /\ Changed(work, work') \subseteq tx.writable
         /\ UNCHANGED <<accounts, verdict>>
         /\ \/ Handled("CreateCommunity",
                       CreateCommunityVerdict(work, tx, Instr),
                       CreateCommunityEffect(work, Instr))
            \/ Handled("UpdateCommunity",
                       UpdateCommunityVerdict(work, tx, Instr),
                       UpdateCommunityEffect(work, Instr))
            \/ Handled("CreateNetwork", CreateNetworkVerdict(work, tx, Instr),
                       CreateNetworkEffect(work, Instr))
            \/ Handled("CreateReporter", CreateReporterVerdict(work, tx, Instr),
                       CreateReporterEffect(work, Instr))
            \/ Handled("UpdateReporter", UpdateReporterVerdict(work, tx, Instr),
                       UpdateReporterEffect(work, Instr))
            \/ Handled("CreateCase", CreateCaseVerdict(work, tx, Instr),
                       CreateCaseEffect(work, Instr))
            \/ Handled("UpdateCase", UpdateCaseVerdict(work, tx, Instr),
                       UpdateCaseEffect(work, Instr))
            \/ Handled("CreateAddress", CreateAddressVerdict(work, tx, Instr),
                       CreateAddressEffect(work, Instr))
            \/ Handled("UpdateAddress", UpdateAddressVerdict(work, tx, Instr),
                       UpdateAddressEffect(work, Instr))
<1>1. Process
  <2>1. ~(\E t \in Transactions : Begin(t))
    BY DEF Begin, InstructionDone
  <2>2. ~Commit /\ ~Abort
    BY TransactionsAssumption
       DEF Commit, Abort, Finish, InstructionDone, Inv, TypeOK
  <2>3. ~UNCHANGED vars
    BY DEF vars, InstructionDone, Inv, TypeOK
  <2>. QED
    BY <2>1, <2>2, <2>3 DEF Next
<1>2. pc' # pc
  BY DEF InstructionDone, Inv, TypeOK
<1>3. ASSUME NEW op, Running(op), NEW checks, NEW effect,
             Execute(checks, effect)
      PROVE  /\ Instr \in Instruction
             /\ Changed(work, work') \subseteq tx.writable
             /\ UNCHANGED <<accounts, verdict>>
             /\ Handled(op, checks, effect)
  <2>. DEFINE writes == Require(Changed(work, effect) \subseteq tx.writable,
                                "ReadonlyDataModified")
  <2>1. (checks ?? writes) = Ok /\ Succeed(effect)
    BY <1>2, <1>3 DEF Execute, Fail
  <2>2. checks = Ok /\ writes = Ok
    BY <2>1, ThenOk
  <2>3. Changed(work, effect) \subseteq tx.writable
    BY <2>2 DEF Require, Ok
  <2>4. Instr \in Instruction /\ Instr.op = op
    BY <1>3, RunningInstruction DEF Inv
  <2>. QED
    BY <1>3, <2>1, <2>2, <2>3, <2>4 DEF Succeed, Handled
<1>4. CASE CreateCommunity
  BY <1>3, <1>4 DEF CreateCommunity
<1>5. CASE UpdateCommunity
  BY <1>3, <1>5 DEF UpdateCommunity
<1>6. CASE CreateNetwork
  BY <1>3, <1>6 DEF CreateNetwork
<1>7. CASE CreateReporter
  BY <1>3, <1>7 DEF CreateReporter
<1>8. CASE UpdateReporter
  BY <1>3, <1>8 DEF UpdateReporter
<1>9. CASE CreateCase
  BY <1>3, <1>9 DEF CreateCase
<1>10. CASE UpdateCase
  BY <1>3, <1>10 DEF UpdateCase
<1>11. CASE CreateAddress
  BY <1>3, <1>11 DEF CreateAddress
<1>12. CASE UpdateAddress
  BY <1>3, <1>12 DEF UpdateAddress
<1>13. CASE UpdateNetwork \/ Reject
  BY <1>2, <1>13 DEF UpdateNetwork, Reject, Fail
<1>. QED
  BY <1>1, <1>4, <1>5, <1>6, <1>7, <1>8, <1>9, <1>10, <1>11, <1>12, <1>13
     DEF Process

LEMMA SuccessHasEffect ==
  ASSUME Inv, [Next]_vars, InstructionDone
  PROVE  /\ Effect(work, tx, work')
         /\ Changed(work, work') \subseteq tx.writable
         /\ UNCHANGED <<accounts, verdict>>
<1>1. LedgerOK(work)
  BY DEF Inv
<1>2. Effect(work, tx, work')
  BY <1>1, SuccessIsHandled, FoundsEffect, HandsOverEffect, AddsNetworkEffect,
     StaffsEffect, OpensCaseEffect, RevisesCaseEffect, ReportsAddressEffect
     DEF Handled, Effect, RevisesCase
<1>. QED
  BY <1>2, SuccessIsHandled

-----------------------------------------------------------------------------
(* Who may write what.                                                     *)

\* A community lies at an address that is no other kind's.
LEMMA CommunityAccounts ==
  ASSUME NEW s, LedgerOK(s), NEW c \in Communities(s)
  PROVE  /\ \A d, x : c # NetworkAddress(d, x)
         /\ \A d, x : c # ReporterAddress(d, x)
         /\ \A d, x : c # CaseAddress(d, x)
         /\ \A d, x : c # AddressAddress(d, x)
BY AddressesDiffer DEF LedgerOK, OnItsOwnAddress, Communities

\* A case lies at the address of a case.
LEMMA CaseAddresses ==
  ASSUME NEW s, LedgerOK(s), NEW a, Holds(s, a, "Case")
  PROVE  \E c \in Communities(s), id \in CaseId : a = CaseAddress(c, id)
BY DEF LedgerOK, OnItsOwnAddress, Holds

\* A new account at the address of a case is a case opened by a reporter.
LEMMA OpeningRightly ==
  ASSUME NEW s, LedgerOK(s), NEW t, NEW u, Effect(s, t, u),
         NEW c, NEW id, CaseAddress(c, id) \in DOMAIN u \ DOMAIN s
  PROVE  LET author == u[CaseAddress(c, id)].reporter_key
         IN  /\ id = s[c].next_case_id
             /\ author \in t.signers
             /\ ReporterIn(s, c, author, {"Full", "Authority"})
<1>1. CASE OpensCaseIn(s, t, u)
  <2>1. PICK x, k, b, d :
            LET a == CaseAddress(x, s[x].next_case_id)
            IN  /\ ReporterSigned(s, t, x, k, {"Full", "Authority"})
                /\ d.reporter_key = k
                /\ u = Put(Put(s, x, b), a, d)
    BY <1>1 DEF OpensCaseIn
  <2>2. x \in Communities(s) /\ x \in DOMAIN s
    BY <2>1 DEF ReporterSigned, Communities
  <2>3. CaseAddress(x, s[x].next_case_id) # x
    BY <2>2, CommunityAccounts
  <2>4. /\ CaseAddress(c, id) = CaseAddress(x, s[x].next_case_id)
        /\ u[CaseAddress(c, id)] = d
    BY <2>1, <2>2, <2>3 DEF Put, Changed
  <2>5. c = x /\ id = s[x].next_case_id
    BY <2>4, AddressesDiffer
  <2>. QED
    BY <2>1, <2>4, <2>5 DEF ReporterSigned
<1>2. CASE Founds(s, t, u)
  BY <1>2, AddressesDiffer DEF Founds, Put, Changed
<1>3. CASE HandsOver(s, t, u)
  BY <1>3 DEF HandsOver, Authorized, Communities, Put, Changed
<1>4. CASE AddsNetwork(s, t, u)
  BY <1>4, AddressesDiffer DEF AddsNetwork, Put, Changed
<1>5. CASE Staffs(s, t, u)
  BY <1>5, AddressesDiffer DEF Staffs, Put, Changed
<1>6. CASE RevisesCase(s, t, u)
  BY <1>6 DEF RevisesCase, RevisesCaseFor, Holds, Put, Changed
<1>7. CASE ReportsAddress(s, t, u)
  BY <1>7, AddressesDiffer DEF ReportsAddress, Put, Changed
<1>. QED
  BY <1>1, <1>2, <1>3, <1>4, <1>5, <1>6, <1>7 DEF Effect

\* Only a revision writes over a case.
LEMMA OnlyRevisions ==
  ASSUME NEW s, LedgerOK(s), NEW t, NEW u, NEW a \in Changed(s, u),
         \/ Founds(s, t, u) \/ HandsOver(s, t, u)   \/ AddsNetwork(s, t, u)
         \/ Staffs(s, t, u) \/ OpensCaseIn(s, t, u) \/ ReportsAddress(s, t, u)
  PROVE  ~Holds(s, a, "Case")
<1>. SUFFICES ASSUME Holds(s, a, "Case") PROVE FALSE
  OBVIOUS
<1>0. /\ a \in DOMAIN s /\ a \notin Communities(s)
      /\ \A c, k : a # ReporterAddress(c, k)
  BY CaseAddresses, AddressesDiffer DEF Holds, Communities
<1>1. CASE OpensCaseIn(s, t, u)
  <2>1. PICK x, k, b, d :
            LET n == CaseAddress(x, s[x].next_case_id)
            IN  /\ ReporterSigned(s, t, x, k, {"Full", "Authority"})
                /\ n \notin DOMAIN s
                /\ u = Put(Put(s, x, b), n, d)
    BY <1>1 DEF OpensCaseIn
  <2>2. x \in Communities(s) /\ x \in DOMAIN s
    BY <2>1 DEF ReporterSigned, Communities
  <2>3. a \in {CaseAddress(x, s[x].next_case_id), x}
    BY <2>1, <2>2, CommunityAccounts DEF Put, Changed
  <2>. QED
    BY <1>0, <2>1, <2>2, <2>3
<1>2. CASE Founds(s, t, u)
  BY <1>0, <1>2 DEF Founds, Put, Changed
<1>3. CASE HandsOver(s, t, u)
  BY <1>0, <1>3 DEF HandsOver, Authorized, Put, Changed
<1>4. CASE AddsNetwork(s, t, u)
  BY <1>0, <1>4 DEF AddsNetwork, Put, Changed
<1>5. CASE Staffs(s, t, u)
  BY <1>0, <1>5 DEF Staffs, Put, Changed
<1>6. CASE ReportsAddress(s, t, u)
  BY <1>0, <1>6 DEF ReportsAddress, Put, Changed
<1>. QED
  BY <1>1, <1>2, <1>3, <1>4, <1>5, <1>6

\* What is written over a case is the case, by somebody entitled to it.
LEMMA RevisingRightly ==
  ASSUME NEW s, NEW t, NEW u, NEW c, NEW k, RevisesCaseFor(s, t, u, c, k),
         NEW a \in Changed(s, u)
  PROVE  /\ u[a].account_type = "Case"
         /\ u[a].reporter_key = s[a].reporter_key
         /\ u[a].name = s[a].name
         /\ k \in t.signers
         /\ \/ ReporterIn(s, c, k, {"Authority"})
            \/ ReporterIn(s, c, k, {"Full"}) /\ s[a].reporter_key = k
<1>1. PICK x, d :
          /\ \/ ReporterSigned(s, t, c, k, {"Authority"})
             \/ ReporterSigned(s, t, c, k, {"Full"}) /\ s[x].reporter_key = k
          /\ d.account_type = "Case"
          /\ d.name = s[x].name
          /\ d.reporter_key = s[x].reporter_key
          /\ u = Put(s, x, d)
  BY DEF RevisesCaseFor
<1>2. a = x /\ u[a] = d
  BY <1>1 DEF Put, Changed
<1>. QED
  BY <1>1, <1>2 DEF ReporterSigned

\* Networks, reporters' records and the authority's key are the authority's.
LEMMA GoverningRightly ==
  ASSUME NEW s, LedgerOK(s), NEW t, NEW u, Effect(s, t, u),
         NEW c \in Communities(s), NEW a \in Changed(s, u),
         \/ a = c /\ u[c].authority # s[c].authority
         \/ \E name \in Name : a = NetworkAddress(c, name)
         \/ /\ \E k \in Pubkey : a = ReporterAddress(c, k)
            /\ u[a].account_type = "Reporter"
  PROVE  s[c].authority \in t.signers
<1>0. /\ c \in DOMAIN s
      /\ \A id : a # CaseAddress(c, id)
      /\ \A x, id : a # CaseAddress(x, id)
      /\ \A n, v : a # AddressAddress(n, v)
  BY CommunityAccounts, AddressesDiffer DEF Communities
<1>1. CASE Founds(s, t, u)
  BY <1>0, <1>1, AddressesDiffer DEF Founds, Put, Changed
<1>2. CASE HandsOver(s, t, u)
  <2>1. PICK x, d : Authorized(s, t, x) /\ u = Put(s, x, d)
    BY <1>2 DEF HandsOver
  <2>2. a = x /\ x \in Communities(s)
    BY <2>1 DEF Authorized, Put, Changed
  <2>3. a = c
    BY <2>2, CommunityAccounts
  <2>. QED
    BY <2>1, <2>2, <2>3 DEF Authorized
<1>3. CASE AddsNetwork(s, t, u)
  <2>1. PICK x, name, d : /\ Authorized(s, t, x)
                          /\ u = Put(s, NetworkAddress(x, name), d)
    BY <1>3 DEF AddsNetwork
  <2>2. a = NetworkAddress(x, name)
    BY <2>1 DEF Put, Changed
  <2>3. x = c
    BY <2>2, CommunityAccounts, AddressesDiffer
  <2>. QED
    BY <2>1, <2>3 DEF Authorized
<1>4. CASE Staffs(s, t, u)
  <2>1. PICK x, k, d : /\ Authorized(s, t, x)
                       /\ u = Put(s, ReporterAddress(x, k), d)
    BY <1>4 DEF Staffs
  <2>2. a = ReporterAddress(x, k)
    BY <2>1 DEF Put, Changed
  <2>3. x = c
    BY <2>2, CommunityAccounts, AddressesDiffer
  <2>. QED
    BY <2>1, <2>3 DEF Authorized
<1>5. CASE OpensCaseIn(s, t, u)
  <2>1. PICK x, k, b, d :
            LET n == CaseAddress(x, s[x].next_case_id)
            IN  /\ ReporterSigned(s, t, x, k, {"Full", "Authority"})
                /\ b.authority = s[x].authority
                /\ u = Put(Put(s, x, b), n, d)
    BY <1>5 DEF OpensCaseIn
  <2>2. x \in Communities(s) /\ x \in DOMAIN s
    BY <2>1 DEF ReporterSigned, Communities
  <2>3. CaseAddress(x, s[x].next_case_id) # x
    BY <2>2, CommunityAccounts
  <2>4. a = x /\ u[x] = b
    BY <1>0, <2>1, <2>2, <2>3 DEF Put, Changed
  <2>. QED
    BY <2>1, <2>2, <2>4, CommunityAccounts
<1>6. CASE RevisesCase(s, t, u)
  <2>1. PICK x, d : Holds(s, x, "Case") /\ u = Put(s, x, d)
    BY <1>6 DEF RevisesCase, RevisesCaseFor
  <2>2. a = x
    BY <2>1 DEF Put, Changed
  <2>. QED
    BY <1>0, <2>1, <2>2, CaseAddresses
<1>7. CASE ReportsAddress(s, t, u)
  <2>1. PICK x, d, y, k : /\ \/ \E n, v : x = AddressAddress(n, v)
                             \/ x = ReporterAddress(y, k)
                          /\ d.account_type = "Address"
                          /\ u = Put(s, x, d)
    BY <1>7 DEF ReportsAddress
  <2>2. a = x /\ u[a] = d
    BY <2>1 DEF Put, Changed
  <2>. QED
    BY <1>0, <2>1, <2>2, CommunityAccounts, AddressesDiffer
<1>. QED
  BY <1>1, <1>2, <1>3, <1>4, <1>5, <1>6, <1>7 DEF Effect

\* An address's data are written by an active reporter who cites a case.
LEMMA ReportingRightly ==
  ASSUME NEW s, LedgerOK(s), NEW t, NEW u, Effect(s, t, u),
         NEW a \in Changed(s, u), u[a].account_type = "Address"
  PROVE  \E c \in Communities(s), k \in t.signers :
             /\ ReporterIn(s, c, k, ReporterType \ {"Inactive"})
             /\ Holds(s, CaseAddress(c, u[a].case_id), "Case")
<1>1. CASE ReportsAddress(s, t, u)
  <2>1. PICK x, d, c, k :
            /\ ReporterSigned(s, t, c, k, ReporterType \ {"Inactive"})
            /\ Holds(s, CaseAddress(c, d.case_id), "Case")
            /\ u = Put(s, x, d)
    BY <1>1 DEF ReportsAddress
  <2>2. a = x /\ u[a] = d
    BY <2>1 DEF Put, Changed
  <2>. QED
    BY <2>1, <2>2 DEF ReporterSigned
<1>2. CASE OpensCaseIn(s, t, u)
  <2>1. PICK x, k, b, d :
            LET n == CaseAddress(x, s[x].next_case_id)
            IN  /\ ReporterSigned(s, t, x, k, {"Full", "Authority"})
                /\ b.account_type = "Community"
                /\ d.account_type = "Case"
                /\ u = Put(Put(s, x, b), n, d)
    BY <1>2 DEF OpensCaseIn
  <2>2. x \in Communities(s) /\ x \in DOMAIN s
    BY <2>1 DEF ReporterSigned, Communities
  <2>3. u[a] \in {b, d}
    BY <2>1, <2>2, CommunityAccounts DEF Put, Changed
  <2>. QED
    BY <2>1, <2>3
<1>3. CASE Founds(s, t, u)
  BY <1>3 DEF Founds, Put, Changed
<1>4. CASE HandsOver(s, t, u)
  BY <1>4 DEF HandsOver, Put, Changed
<1>5. CASE AddsNetwork(s, t, u)
  BY <1>5 DEF AddsNetwork, Put, Changed
<1>6. CASE Staffs(s, t, u)
  BY <1>6 DEF Staffs, Put, Changed
<1>7. CASE RevisesCase(s, t, u)
  BY <1>7 DEF RevisesCase, RevisesCaseFor, Put, Changed
<1>. QED
  BY <1>1, <1>2, <1>3, <1>4, <1>5, <1>6, <1>7 DEF Effect

-----------------------------------------------------------------------------
(* The action properties.                                                  *)

\* Whoever signs for a new case is a Full or Authority reporter of its
\* community, and the case takes the community's next number
\* (process_create_case.rs:53-75).
THEOREM OpenedByReporters == Spec => CasesOpenedByReporters
<1>1. ASSUME Inv, [Next]_vars
      PROVE  [InstructionDone =>
                \A c \in Communities(work), id \in CaseId :
                    CaseAddress(c, id) \in Created =>
                        CaseOpenedRightly(c, id)]_vars
  <2>. SUFFICES ASSUME InstructionDone,
                       NEW c \in Communities(work), NEW id \in CaseId,
                       CaseAddress(c, id) \in Created
                PROVE  CaseOpenedRightly(c, id)
    OBVIOUS
  <2>. QED
    BY <1>1, SuccessHasEffect, OpeningRightly
       DEF Created, CaseOpenedRightly, Inv
<1>. QED
  BY <1>1, Invariance, PTL DEF Spec, CasesOpenedByReporters

\* A case is rewritten by an Authority reporter of the community the call names,
\* or by the Full reporter of it who opened the case, and keeps its author and
\* its name (process_update_case.rs:36-68).
THEOREM RewrittenByReporters == Spec => CasesRewrittenByReporters
<1>1. ASSUME Inv, [Next]_vars
      PROVE  [InstructionDone =>
                \A a \in Written \cap DOMAIN work :
                    work[a].account_type = "Case" =>
                        CaseRewrittenRightly(a)]_vars
  <2>. SUFFICES ASSUME InstructionDone,
                       NEW a \in Written \cap DOMAIN work,
                       work[a].account_type = "Case"
                PROVE  CaseRewrittenRightly(a)
    OBVIOUS
  <2>1. a \in Changed(work, work') /\ Holds(work, a, "Case") /\ LedgerOK(work)
    BY <1>1 DEF Written, Holds, Inv
  <2>2. RevisesCaseFor(work, tx, work', Instr.accounts[2], Instr.accounts[1])
    BY <1>1, <2>1, SuccessIsHandled, OnlyRevisions, FoundsEffect,
       HandsOverEffect, AddsNetworkEffect, StaffsEffect, OpensCaseEffect,
       RevisesCaseEffect, ReportsAddressEffect DEF Handled
  <2>. QED
    BY <2>1, <2>2, RevisingRightly DEF CaseRewrittenRightly
<1>. QED
  BY <1>1, Invariance, PTL DEF Spec, CasesRewrittenByReporters

\* The authority's key, the networks and the records of reporters change only
\* under the signature of the community's authority (process_update_community,
\* process_create_network, process_create_reporter, process_update_reporter).
THEOREM GovernedByAuthority == Spec => AuthorityGoverns
<1>1. ASSUME Inv, [Next]_vars
      PROVE  [InstructionDone =>
                \A c \in Communities(work), a \in Written :
                    Governed(c, a) => work[c].authority \in tx.signers]_vars
  <2>. SUFFICES ASSUME InstructionDone,
                       NEW c \in Communities(work), NEW a \in Written,
                       Governed(c, a)
                PROVE  work[c].authority \in tx.signers
    OBVIOUS
  <2>. QED
    BY <1>1, SuccessHasEffect, GoverningRightly DEF Written, Governed, Inv
<1>. QED
  BY <1>1, Invariance, PTL DEF Spec, AuthorityGoverns

\* The data of an address, new or revised, are signed for by a reporter who is
\* not inactive, in a community that holds the cited case
\* (process_create_address.rs:37-64, process_update_address.rs:33-55).
THEOREM ReportedByActive == Spec => AddressesReportedByActive
<1>1. ASSUME Inv, [Next]_vars
      PROVE  [InstructionDone =>
                \A a \in Written : work'[a].account_type = "Address" =>
                                       AddressReportedRightly(a)]_vars
  <2>. SUFFICES ASSUME InstructionDone,
                       NEW a \in Written, work'[a].account_type = "Address"
                PROVE  AddressReportedRightly(a)
    OBVIOUS
  <2>. QED
    BY <1>1, SuccessHasEffect, ReportingRightly
       DEF Written, AddressReportedRightly, Inv
<1>. QED
  BY <1>1, Invariance, PTL DEF Spec, AddressesReportedByActive

-----------------------------------------------------------------------------
(* The ledger only grows.                                                  *)

\* u comes after s: everything of s is kept in u.
Later(s, u) == \A a \in DOMAIN s : Kept(s, u, a)

LEMMA LaterReflexive ==
  ASSUME NEW s
  PROVE  Later(s, s)
BY DEF Later, Kept

LEMMA LaterTransitive ==
  ASSUME NEW s, NEW u, NEW v, Later(s, u), Later(u, v)
  PROVE  Later(s, v)
BY DEF Later, Kept

LEMMA EffectIsLater ==
  ASSUME NEW s, LedgerOK(s), NEW t, NEW u, Effect(s, t, u)
  PROVE  Later(s, u)
<1>1. CASE Founds(s, t, u)
  BY <1>1 DEF Founds, Later, Kept, Put
<1>2. CASE HandsOver(s, t, u)
  BY <1>2 DEF HandsOver, Authorized, Communities, Later, Kept, Put
<1>3. CASE AddsNetwork(s, t, u)
  BY <1>3 DEF AddsNetwork, Later, Kept, Put
<1>4. CASE Staffs(s, t, u)
  BY <1>4 DEF Staffs, Holds, Later, Kept, Put
<1>5. CASE OpensCaseIn(s, t, u)
  BY <1>5 DEF OpensCaseIn, ReporterSigned, Communities, Later, Kept, Put
<1>6. CASE RevisesCase(s, t, u)
  BY <1>6 DEF RevisesCase, RevisesCaseFor, Holds, Later, Kept, Put
<1>7. CASE ReportsAddress(s, t, u)
  BY <1>7
     DEF ReportsAddress, ReporterSigned, ReporterIn, Holds, Later, Kept, Put
<1>. QED
  BY <1>1, <1>2, <1>3, <1>4, <1>5, <1>6, <1>7 DEF Effect

\* What a step may do to the two ledgers.
LEMMA StepKinds ==
  ASSUME [Next]_vars
  PROVE  \/ InstructionDone
         \/ UNCHANGED <<accounts, work>>
         \/ accounts' = accounts /\ work' = accounts
         \/ accounts' = work /\ work' = work
<1>1. CASE \E t \in Transactions : Begin(t)
  BY <1>1 DEF Begin
<1>2. ASSUME NEW checks, NEW effect, tx # NoTx, Execute(checks, effect)
      PROVE  InstructionDone \/ UNCHANGED <<accounts, work>>
  BY <1>2 DEF Execute, Succeed, Fail, InstructionDone
<1>3. CASE Process
  BY <1>2, <1>3
     DEF Process, Running, Fail, Reject, CreateCommunity, UpdateCommunity,
         CreateNetwork, UpdateNetwork, CreateReporter, UpdateReporter,
         CreateCase, UpdateCase, CreateAddress, UpdateAddress
<1>4. CASE Commit
  BY <1>4 DEF Commit
<1>5. CASE Abort
  BY <1>5 DEF Abort
<1>6. CASE UNCHANGED vars
  BY <1>6 DEF vars
<1>. QED
  BY <1>1, <1>3, <1>4, <1>5, <1>6 DEF Next

\* The working copy comes after the ledger.
LEMMA NextIsLater ==
  ASSUME Inv, Later(accounts, work), [Next]_vars
  PROVE  /\ Later(accounts, work)'
         /\ Later(accounts, accounts')
<1>1. CASE InstructionDone
  <2>1. Later(work, work') /\ accounts' = accounts
    BY <1>1, SuccessHasEffect, EffectIsLater DEF Inv
  <2>2. Later(accounts, work')
    BY <2>1, LaterTransitive
  <2>. QED
    BY <2>1, <2>2, LaterReflexive
<1>2. CASE UNCHANGED <<accounts, work>>
  BY <1>2, LaterReflexive
<1>3. CASE \/ accounts' = accounts /\ work' = accounts
           \/ accounts' = work /\ work' = work
  BY <1>3, LaterReflexive
<1>. QED
  BY <1>1, <1>2, <1>3, StepKinds

LEMMA WorkIsLater == Spec => []Later(accounts, work)
<1>1. Init => Later(accounts, work)
  BY LaterReflexive DEF Init
<1>2. Inv /\ Later(accounts, work) /\ [Next]_vars => Later(accounts, work)'
  BY NextIsLater
<1>. QED
  BY <1>1, <1>2, Invariance, PTL DEF Spec

\* Whatever a transaction of any length did to the working copy, its commit
\* loses no account of the ledger, and no name, kind or author of one.
THEOREM NothingLost == Spec => NothingIsLost
<1>1. ASSUME Inv, Later(accounts, work), [Next]_vars
      PROVE  [\A a \in DOMAIN accounts : Kept(accounts, accounts', a)]_accounts
  BY <1>1, NextIsLater DEF Later
<1>. QED
  BY <1>1, Invariance, WorkIsLater, PTL DEF Spec, NothingIsLost

-----------------------------------------------------------------------------
(* The order of the checks of CreateCase.                                  *)

LEMMA ThenIs ==
  ASSUME NEW v, NEW w
  PROVE  \/ v = Ok /\ (v ?? w) = w
         \/ v # Ok /\ (v ?? w) = v
BY DEF ??

LEMMA NeitherMismatches ==
  ASSUME NEW v, NEW w, v # "InvalidInstruction", w # "InvalidInstruction"
  PROVE  v ?? w # "InvalidInstruction"
BY DEF ??

\* No other check of CreateCase gives the error of a wrong id.
LEMMA OtherErrors ==
  ASSUME NEW s, NEW t, NEW ix
  PROVE  /\ \A n : TakesAccounts(ix, n) # "InvalidInstruction"
         /\ \A a : Rent(a) # "InvalidInstruction"
         /\ \A name : NameWithin32(name) # "InvalidInstruction"
         /\ \A k : Signed(t, k) # "InvalidInstruction"
         /\ \A a, b : Require(a = b, "InvalidReporter") # "InvalidInstruction"
         /\ \A a, type : ValidAccount(s, a, type) # "InvalidInstruction"
         /\ \A a : EmptyAccount(s, a) # "InvalidInstruction"
         /\ \A r : CanCreateCase(s, r) # "InvalidInstruction"
         /\ \A k, a, b, p : CreateAccount(t, k, a, b, p) # "InvalidInstruction"
         /\ \A type, name : Serializes(type, name) # "InvalidInstruction"
BY DEF TakesAccounts, Rent, NameWithin32, Signed, Require, ValidAccount,
       EmptyAccount, CanCreateCase, AccountDataIs, CreateAccount, Serializes,
       ??, Ok

LEMMA MismatchedId ==
  ASSUME NEW s, NEW t, NEW ix,
         CreateCaseVerdict(s, t, ix) = "InvalidInstruction"
  PROVE  /\ EmptyAccount(s, ix.accounts[4]) = Ok
         /\ ix.case_id # s[ix.accounts[2]].next_case_id
<1>. DEFINE payer == ix.accounts[1]
            a == ix.accounts[4]
            before ==    TakesAccounts(ix, 6)
                      ?? Rent(ix.accounts[6])
                      ?? NameWithin32(ix.name)
                      ?? Signed(t, payer)
                      ?? Require(ix.accounts[3] =
                                     ReporterAddress(ix.accounts[2], payer),
                                 "InvalidReporter")
                      ?? ValidAccount(s, ix.accounts[2], "Community")
                      ?? EmptyAccount(s, a)
                      ?? CanCreateCase(s, ix.accounts[3])
            id == Require(ix.case_id = s[ix.accounts[2]].next_case_id,
                          "InvalidInstruction")
            call == CreateAccount(t, payer, a,
                                  CaseAddress(ix.accounts[2], ix.case_id),
                                  ix.accounts[5])
<1>1. before ?? id ?? call ?? Serializes("Case", ix.name)
         = "InvalidInstruction"
  BY DEF CreateCaseVerdict
<1>2. before # "InvalidInstruction"
  <2>. DEFINE mine == Require(ix.accounts[3] =
                                  ReporterAddress(ix.accounts[2], payer),
                              "InvalidReporter")
  <2>1. TakesAccounts(ix, 6) # "InvalidInstruction"
    BY OtherErrors
  <2>2. Rent(ix.accounts[6]) # "InvalidInstruction"
    BY OtherErrors
  <2>3. mine # "InvalidInstruction"
    BY OtherErrors
  <2>. HIDE DEF mine
  <2>4. NameWithin32(ix.name) # "InvalidInstruction"
    BY OtherErrors
  <2>5. Signed(t, payer) # "InvalidInstruction"
    BY OtherErrors
  <2>6. ValidAccount(s, ix.accounts[2], "Community") # "InvalidInstruction"
    BY OtherErrors
  <2>7. EmptyAccount(s, a) # "InvalidInstruction"
    BY OtherErrors
  <2>8. CanCreateCase(s, ix.accounts[3]) # "InvalidInstruction"
    BY OtherErrors
  <2>. QED
    BY <2>1, <2>2, <2>3, <2>4, <2>5, <2>6, <2>7, <2>8, NeitherMismatches
       DEF mine
<1>3. before = Ok => EmptyAccount(s, a) = Ok
  BY ThenOk
<1>4. call # "InvalidInstruction"
  BY OtherErrors
<1>. HIDE DEF before, call
<1>5. before ?? id = "InvalidInstruction"
  BY <1>1, <1>4, ThenIs, OtherErrors
<1>6. before = Ok /\ id = "InvalidInstruction"
  BY <1>2, <1>5, ThenIs
<1>. QED
  BY <1>3, <1>6 DEF Require, Ok

\* Ids below the counter are taken, and after the last id all of them are.
LEMMA MismatchIsAhead ==
  ASSUME NEW s, LedgerOK(s), NEW t, NEW ix \in Instruction,
         ix.op = "CreateCase", ix.accounts[2] \in Communities(s),
         ix.accounts[4] = CaseAddress(ix.accounts[2], ix.case_id),
         CreateCaseVerdict(s, t, ix) = "InvalidInstruction"
  PROVE  ix.case_id > s[ix.accounts[2]].next_case_id
<1>. DEFINE c == ix.accounts[2]
            next == s[c].next_case_id
<1>1. ix.case_id \in CaseId
  BY DEF Instruction
<1>2. next \in CaseId
  BY DataFields DEF LedgerOK, IsLedger, Communities, Community
<1>3. ix.case_id \notin CaseIds(s, c) /\ ix.case_id # next
  BY MismatchedId, ChecksPass DEF CaseIds
<1>4. CaseIds(s, c) = 0 .. next - 1
  BY <1>1, <1>3 DEF LedgerOK, CounterCountsCases
<1>. QED
  BY <1>1, <1>2, <1>3, <1>4, CaseIdAssumption DEF CaseId

\* A case creation that loses a race is told that the account exists; it is
\* told of a wrong id only for ids ahead of the counter
\* (process_create_case.rs:60-67).
THEOREM MismatchesAreAhead == Spec => []OnlyIdsAheadMismatch
<1>1. Init => OnlyIdsAheadMismatch
  BY DEF Init, OnlyIdsAheadMismatch
<1>2. ASSUME Inv, OnlyIdsAheadMismatch, [Next]_vars
      PROVE  OnlyIdsAheadMismatch'
  <2>1. CASE verdict' # "InvalidInstruction" \/ tx' = NoTx
    BY <2>1 DEF OnlyIdsAheadMismatch
  <2>2. CASE UNCHANGED vars
    BY <1>2, <2>2 DEF vars, OnlyIdsAheadMismatch, Instr, Communities
  <2>3. CASE \E t \in Transactions : Begin(t)
    BY <1>2, <2>1, <2>3 DEF Begin, Inv, TypeOK, Ok
  <2>4. CASE CreateCase
    <3>1. CASE verdict' = CreateCaseVerdict(work, tx, Instr)
               /\ UNCHANGED <<work, tx, pc>>
      <4>1. Instr' = Instr /\ Communities(work)' = Communities(work)
        BY <3>1 DEF Instr, Communities
      <4>2. Instr \in Instruction
        BY <1>2, <2>4, RunningInstruction DEF Inv, CreateCase
      <4>. QED
        BY <1>2, <3>1, <4>1, <4>2, MismatchIsAhead
           DEF OnlyIdsAheadMismatch, Inv
    <3>2. CASE verdict' \in {Ok, "ReadonlyDataModified"}
      BY <2>1, <3>2 DEF Ok
    <3>. QED
      BY <2>4, <3>1, <3>2
         DEF CreateCase, Running, Execute, Succeed, Fail, ??, Require
  <2>5. CASE Process /\ ~CreateCase
    <3>1. verdict' = Ok \/ Instr'.op # "CreateCase"
      BY <2>5
         DEF Process, Running, Execute, Succeed, Fail, Instr, Reject,
             CreateCommunity, UpdateCommunity, CreateNetwork, UpdateNetwork,
             CreateReporter, UpdateReporter, UpdateCase, CreateAddress,
             UpdateAddress
    <3>. QED
      BY <2>1, <3>1 DEF OnlyIdsAheadMismatch, Ok
  <2>6. CASE Commit \/ Abort
    BY <2>1, <2>6 DEF Commit, Abort, Finish
  <2>. QED
    BY <1>2, <2>2, <2>3, <2>4, <2>5, <2>6 DEF Next, Process
<1>. QED
  BY <1>1, <1>2, Invariance, PTL DEF Spec

-----------------------------------------------------------------------------
(* The register of cases: lemmas about the mapping.                        *)

\* The register of a community is as long as its cases are many.
LEMMA OpenedCases ==
  ASSUME NEW s, LedgerOK(s), NEW c \in Communities(s)
  PROVE  /\ Opened(s, c) \in 0 .. CaseIdCount
         /\ CaseIds(s, c) = 0 .. Opened(s, c) - 1
<1>. DEFINE next == s[c].next_case_id
<1>1. next \in CaseId
  BY DataFields DEF LedgerOK, IsLedger, Communities, Community
<1>2. CASE next = 0 /\ CaseIds(s, c) = CaseId
  <2>1. CaseAddress(c, 0) \in DOMAIN s
    BY <1>2, CaseIdAssumption DEF CaseIds, CaseId
  <2>. QED
    BY <1>2, <2>1, CaseIdAssumption DEF Opened, CaseId
<1>3. CASE CaseIds(s, c) = 0 .. next - 1
  <2>1. next = 0 => CaseAddress(c, 0) \notin DOMAIN s
    BY <1>3, CaseIdAssumption DEF CaseIds, CaseId
  <2>. QED
    BY <1>1, <1>3, <2>1, CaseIdAssumption DEF Opened, CaseId
<1>. QED
  BY <1>2, <1>3 DEF LedgerOK, CounterCountsCases

LEMMA RegisterLength ==
  ASSUME NEW s, LedgerOK(s), NEW c \in Communities(s)
  PROVE  /\ Len(RegisterOf(s)[c]) = Opened(s, c)
         /\ \A i \in 1 .. Opened(s, c) : RegisterOf(s)[c][i] = Entry(s, c, i)
BY OpenedCases, CaseIdAssumption DEF RegisterOf

\* The entries of a community are those of its cases.
LEMMA EntryOfCase ==
  ASSUME NEW s, LedgerOK(s), NEW c \in Communities(s),
         NEW i \in 1 .. Opened(s, c)
  PROVE  /\ Holds(s, CaseAddress(c, i - 1), "Case")
         /\ Entry(s, c, i).author \in MembersOf(s)[c]
<1>1. i - 1 \in CaseIds(s, c)
  BY OpenedCases, CaseIdAssumption
<1>2. Holds(s, CaseAddress(c, i - 1), "Case")
  BY <1>1, CaseAccounts DEF CaseIds, Holds
<1>3. s[CaseAddress(c, i - 1)] \in Case
  BY <1>2, DataFields DEF Holds, LedgerOK, IsLedger
<1>4. ReporterAddress(c, Entry(s, c, i).author) \in DOMAIN s
  BY <1>1 DEF LedgerOK, AuthorsRegistered, Entry
<1>5. Entry(s, c, i).author \in Pubkey
  BY <1>3 DEF Entry, Case
<1>. QED
  BY <1>2, <1>4, <1>5 DEF MembersOf

\* A later ledger has the communities, entries and members of the earlier.
LEMMA RegistersGrow ==
  ASSUME NEW s, LedgerOK(s), NEW u, LedgerOK(u), Later(s, u),
         NEW c \in Communities(s)
  PROVE  /\ c \in Communities(u)
         /\ Opened(s, c) <= Opened(u, c)
         /\ \A i \in 1 .. Opened(s, c) : Entry(u, c, i) = Entry(s, c, i)
         /\ MembersOf(s)[c] \subseteq MembersOf(u)[c]
<1>1. c \in Communities(u)
  BY DEF Communities, Later, Kept
<1>2. ASSUME NEW i \in 1 .. Opened(s, c)
      PROVE  Entry(u, c, i) = Entry(s, c, i) /\ i - 1 \in CaseIds(u, c)
  <2>1. Holds(s, CaseAddress(c, i - 1), "Case") /\ i - 1 \in CaseIds(s, c)
    BY EntryOfCase, OpenedCases, CaseIdAssumption
  <2>2. Kept(s, u, CaseAddress(c, i - 1))
    BY <2>1 DEF Later, Holds
  <2>. QED
    BY <2>1, <2>2 DEF Kept, Holds, Entry, CaseIds
<1>3. Opened(s, c) <= Opened(u, c)
  <2>1. Opened(s, c) \in Nat /\ Opened(u, c) \in Nat
    BY <1>1, OpenedCases, CaseIdAssumption
  <2>2. CASE Opened(s, c) # 0
    BY <1>1, <1>2, <2>1, <2>2, OpenedCases
  <2>. QED
    BY <2>1, <2>2
<1>4. MembersOf(s)[c] \subseteq MembersOf(u)[c]
  BY <1>1 DEF MembersOf, Later, Kept
<1>. QED
  BY <1>1, <1>2, <1>3, <1>4

-----------------------------------------------------------------------------
(* The steps.                                                              *)

\* Anything that keeps the ledger in order and loses nothing of it extends
\* the registers.
LEMMA GrowthIsAStep ==
  ASSUME LedgerOK(accounts), LedgerOK(accounts'), Later(accounts, accounts')
  PROVE  Register!Next
<1>. DEFINE s == accounts
            u == accounts'
<1>1. /\ DOMAIN RegisterOf(s) = Communities(s)
      /\ DOMAIN RegisterOf(u) = Communities(u)
      /\ DOMAIN MembersOf(s) = Communities(s)
      /\ DOMAIN MembersOf(u) = Communities(u)
  BY DEF RegisterOf, MembersOf
<1>2. ASSUME NEW c \in Communities(u)
      PROVE  Register!Admitted(c) \subseteq MembersOf(u)[c]
  BY <1>1, RegistersGrow DEF Register!Admitted
<1>3. ASSUME NEW c \in Communities(u)
      PROVE  Register!Extends(c)
  <2>. DEFINE old == Register!Entered(c)
              new == RegisterOf(u)[c]
  <2>1. /\ Len(new) = Opened(u, c)
        /\ Opened(u, c) \in 0 .. CaseIdCount
        /\ \A i \in 1 .. Opened(u, c) : /\ new[i] = Entry(u, c, i)
                                        /\ new[i].author \in MembersOf(u)[c]
    BY RegisterLength, OpenedCases, EntryOfCase
  <2>2. /\ Len(old) \in Nat
        /\ Len(old) <= Len(new)
        /\ \A i \in 1 .. Len(old) : new[i] = old[i]
    <3>1. CASE c \in Communities(s)
      <4>1. old = RegisterOf(s)[c]
        BY <1>1, <3>1 DEF Register!Entered
      <4>2. /\ Len(old) = Opened(s, c)
            /\ Opened(s, c) \in Nat
            /\ \A i \in 1 .. Opened(s, c) : old[i] = Entry(s, c, i)
        BY <3>1, <4>1, RegisterLength, OpenedCases, CaseIdAssumption
      <4>. HIDE DEF old, new
      <4>. QED
        BY <2>1, <3>1, <4>2, RegistersGrow, CaseIdAssumption
    <3>2. CASE c \notin Communities(s)
      <4>1. old = << >>
        BY <1>1, <3>2 DEF Register!Entered
      <4>. QED
        BY <2>1, <4>1, CaseIdAssumption
    <3>. QED
      BY <3>1, <3>2
  <2>. HIDE DEF old
  <2>. QED
    BY <2>1, <2>2, CaseIdAssumption DEF Register!Extends, old
<1>4. Communities(s) \subseteq Communities(u)
  BY RegistersGrow
<1>. QED
  BY <1>1, <1>2, <1>3, <1>4 DEF Register!Next

\* The program keeps the promise of the register: numbered entries that are
\* never altered, made by members of the community.
THEOREM LedgerImplementsRegister == Spec => ImplementsRegister
<1>1. Init => Register!Init
  <2>1. ASSUME Init PROVE DOMAIN accounts = {}
    BY <2>1 DEF Init
  <2>. QED
    BY <2>1 DEF Register!Init, RegisterOf, MembersOf, Communities
<1>2. ASSUME Inv, Inv', Later(accounts, work), [Next]_vars
      PROVE  [Register!Next]_<<RegisterOf(accounts), MembersOf(accounts)>>
  <2>1. CASE accounts' = accounts
    BY <2>1
  <2>2. CASE accounts' = work
    BY <1>2, <2>2, GrowthIsAStep DEF Inv
  <2>3. InstructionDone => accounts' = accounts
    BY <1>2, SuccessHasEffect
  <2>. QED
    BY <1>2, <2>1, <2>2, <2>3, StepKinds
<1>. QED
  BY <1>1, <1>2, Invariance, WorkIsLater, PTL
     DEF Spec, ImplementsRegister, Register!Spec
=============================================================================
