\* One distributor, two wallets; consistent, inconsistent and refused terms.
CONSTANTS
    MaxU64 = 8
    MaxI64 = 7
    SECONDS_PER_DAY = 2
    NoAccount = NoAccount
    alice = alice
    bob = bob
    aliceGold = aliceGold
    bobGold = bobGold
    bobSilver = bobSilver
    d1 = d1
    gold = gold
    silver = silver
    Wallet = {alice, bob}
    TokenAccount = {aliceGold, bobGold, bobSilver}
    Distributor = {d1}
    OwnerOf <- MCOwnerOf
    MintOf <- MCMintOf
    InitialBalance <- MCInitialBalance
    Time <- MCTime
    NewDistributorArgs <- MCArgs

SPECIFICATION Spec

INVARIANTS
    TypeOK
    NeverAheadOfVesting
    LedgerMatchesClaims
    CapsHold
    HonestClaimIsNeverRefused
    NoClawbackBeforeGrantsVest

PROPERTIES
    VaultOnlyPaysClaims
    SolvencyIsKept
    ClaimsArePermanent
    ClawbackIsFinal
    TermsAreFixed
    KeepsThePromise
