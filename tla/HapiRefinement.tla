--------------------------- MODULE HapiRefinement ---------------------------
(* The ledger implements the register of cases: the mapping reads a        *)
(* community's entries off its case accounts, in the order of their ids.   *)
EXTENDS HapiProperties

\* The counter is the number of cases, but for the wrap to 0 at the last one.
Opened(s, c) ==
    LET next == s[c].next_case_id
    IN  IF next = 0 /\ CaseAddress(c, 0) \in DOMAIN s THEN CaseIdCount ELSE next

Entry(s, c, i) ==
    LET case == s[CaseAddress(c, i - 1)]
    IN  [author |-> case.reporter_key, name |-> case.name]

RegisterOf(s) == [c \in Communities(s) |->
                     [i \in 1 .. Opened(s, c) |-> Entry(s, c, i)]]

MembersOf(s) == [c \in Communities(s) |->
                    {k \in Pubkey : ReporterAddress(c, k) \in DOMAIN s}]

Register == INSTANCE CaseRegister
                WITH Capacity <- CaseIdCount,
                     register <- RegisterOf(accounts),
                     members  <- MembersOf(accounts)

\* The committed ledger behaves like the append-only register of cases: it
\* starts empty, and each committed transaction extends the registers of the
\* communities and alters no entry.
ImplementsRegister == Register!Spec
=============================================================================
