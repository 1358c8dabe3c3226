\* A host up to one unit off the chain, and any of three tree files.
CONSTANTS
    MaxU64 = 5
    MaxI64 = 4
    SECONDS_PER_DAY = 1
    NoAccount = NoAccount
    alice = alice
    aliceGold = aliceGold
    d1 = d1
    gold = gold
    Wallet = {alice}
    TokenAccount = {aliceGold}
    Distributor = {d1}
    OwnerOf <- MCOwnerOf
    MintOf <- MCMintOf
    InitialBalance <- MCInitialBalance
    Time <- MCTime
    NewDistributorArgs <- MCArgs
    Target = d1
    TreeFiles <- MCTrees
    enable_proof_endpoint = TRUE
    MaxSkew = 1

SPECIFICATION FairApiSpec

INVARIANTS
    ApiTypeOK
    ReportedHasVested
    PanicsOnlyBehindTheChain
    ClientsCanCheckProofs

PROPERTIES
    StatusNeverGoesBack
    EveryRequestEnds
