\* One command, run again and again, among everything else wallets do.
CONSTANTS
    MaxU64 = 4
    MaxI64 = 3
    SECONDS_PER_DAY = 1
    NoAccount = NoAccount
    alice = alice
    bob = bob
    aliceGold = aliceGold
    d1 = d1
    gold = gold
    s1 = s1
    Wallet = {alice, bob}
    TokenAccount = {aliceGold}
    Distributor = {d1}
    OwnerOf <- MCOwnerOf
    MintOf <- MCMintOf
    InitialBalance <- MCInitialBalance
    Time <- MCTime
    NewDistributorArgs <- MCArgs
    Session = {s1}
    Commands <- MCCommands
    Target = d1
    Tree <- MCTree
    Ata <- MCAta

SPECIFICATION FairCliSpec

INVARIANTS
    CliTypeOK
    OnlyLamportsMislead
    SuccessIsReal

PROPERTIES
    AcceptedTermsAreMine
    RerunsArePaid
