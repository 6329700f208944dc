SPECIFICATION FairSpec
CONSTANTS
    auth = auth
    alice = alice
    bob = bob
    sys = sys
    rent = rent
    n = n
    m = m
    value = value
    Pubkey <- MCPubkey
    Foreign = {sys, rent}
    SystemProgram = sys
    RentSysvar = rent
    Funded = {auth, alice, bob}
    Name = {n, m}
    NameLen <- MCNameLen
    CaseIdCount = 4
    Category = {0}
    CategorySet = {0}
    Risk = {0, 11}
    Transactions <- MCTransactions
    NoTx = NoTx
    NoMessage = NoMessage
    Client <- MCClient
    Script <- PatienceScript
    Lag = FALSE
    MaxFaults = 1
INVARIANT ClientTypeOK
PROPERTIES
    CallsEnd
    PatienceIsRewarded
    ImplementsService
CHECK_DEADLOCK FALSE
