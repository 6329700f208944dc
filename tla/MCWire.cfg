SPECIFICATION WireSpec
CONSTANTS
    auth = auth
    alice = alice
    sys = sys
    rent = rent
    n = n
    m = m
    slashed = slashed
    value = value
    Pubkey <- MCPubkey
    Foreign = {sys, rent}
    SystemProgram = sys
    RentSysvar = rent
    Funded = {auth, alice}
    Name = {n, m, slashed}
    NameLen <- MCNameLen
    NameBytes <- MCNameBytes
    KeyBytes <- MCKeyBytes
    CaseIdCount = 3
    Category <- MCCategory
    CategorySet <- MCCategorySet
    Risk = {0, 10, 255}
    Requests <- MCRequests
    Transactions <- MCTransactions
    NoTx = NoTx
INVARIANTS
    WireTypeOK
    ReadersAgree
    ClientsEncodeAlike
PROPERTIES
    ImplementsLedger
