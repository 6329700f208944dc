SPECIFICATION Spec
CONSTANTS
    auth = auth
    alice = alice
    bob = bob
    sys = sys
    rent = rent
    n = n
    m = m
    long = long
    value = value
    Pubkey <- MCPubkey
    Foreign = {sys, rent}
    SystemProgram = sys
    RentSysvar = rent
    Funded = {auth, alice, bob}
    Name = {n, m, long}
    NameLen <- MCNameLen
    CaseIdCount = 2
    Category = {0}
    CategorySet = {0}
    Risk = {0, 1}
    Transactions <- TwoCommunities
    NoTx = NoTx
INVARIANT ReporterAccountsStayReporters
