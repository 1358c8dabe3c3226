\* Two wallets, and up to two fetches under way while the user goes on.
CONSTANTS
    alice = alice
    bob = bob
    carol = carol
    User = {alice, bob}
    Tree <- MCTree
    Nobody = Nobody
    Null = Null
    Undefined = Undefined
    MaxSafeInteger = 2
    MaxFetches = 2
    Restless = {alice}

SPECIFICATION FairPageSpec

INVARIANTS
    PageTypeOK
    ShowsItsWallet

PROPERTIES
    ComesToRest
    ClicksGetTheClaim
