------------------------------ MODULE ClaimPage ------------------------------
(***************************************************************************)
(* The web page (app/src/App.js) in one browser tab, with the wallet it is *)
(* connected to, the server it asks and the chain it claims on.            *)
(*                                                                         *)
(* Whenever App renders, its effect fetches /status and then /proof for    *)
(* the wallet of that render, and stores what it got in the state of the   *)
(* component, which renders it again if a value has changed.  Fetches are  *)
(* not cancelled: those of earlier renders, and of earlier wallets, answer *)
(* in any order.                                                           *)
(*                                                                         *)
(* The distributor is seen from the page: open and solvent until it is     *)
(* clawed back, and created from the tree the server has.  An answer of    *)
(* the server is a read of that tree and of the chain, or an error in JSON *)
(* like any other answer: the page never looks at the status code.  How    *)
(* they come to pass is the subject of MerkleDistributor and ApiServer.    *)
(***************************************************************************)
EXTENDS Naturals, FiniteSets, Bags

CONSTANTS
    User,           \* the wallets the browser holds
    Tree,           \* the claimants of the tree, with their amounts
    Nobody,         \* no wallet is connected
    Null,           \* the initial value of every state of the component
    Undefined,      \* a field that is not there, and NaN, which comes of it
    MaxSafeInteger, \* the greatest amount that anchor.BN takes as a number
    MaxFetches,     \* fetches under way while the user goes on (a bound)
    Restless        \* users who claim and hold tokens elsewhere (a bound)

ASSUME PageAssumption ==
    /\ IsFiniteSet(DOMAIN Tree)
    /\ Nobody \notin User
    /\ Undefined \notin {"Expired", "Claimed", "Unclaimed"}
    /\ MaxSafeInteger \in Nat
    /\ MaxFetches \in Nat
    /\ Restless \subseteq User

VARIABLES
    claimed,        \* the users who have a claim
    clawed_back,    \* the distributor has been clawed back
    ata,            \* what is at the address of a user's token account
    wallet,         \* useWallet(): the connected wallet, or Nobody
    display,        \* claimLockAmount with claimunLockAmount, and claim_status
    fetches,        \* the calls of fetchClaimAmount under way, a bag
    claim,          \* the call of handleClaim under way, or Null
    worst,          \* the worst end of a fetch for this wallet so far
    since           \* what /status would have answered at the last render
                    \* (the last two are read by the properties only)

chain == <<claimed, clawed_back, ata>>
pageVars == <<chain, wallet, display, fetches, claim, worst, since>>

PageInit ==
    /\ claimed = {}
    /\ clawed_back = FALSE
    /\ ata = [w \in User |-> "none"]
    /\ wallet = Nobody
    /\ display = [amounts |-> Null, status |-> Null]
    /\ fetches = EmptyBag
    /\ claim = Null
    /\ worst = "answer"
    /\ since = Null

------------------------------------------------------------------------------
(* The chain, in the hands of others and of the users elsewhere.           *)

HasNode(w) == w \in DOMAIN Tree

NewClaim(w) ==
    /\ ~clawed_back
    /\ HasNode(w)
    /\ w \notin claimed
    /\ claimed' = claimed \cup {w}
    /\ UNCHANGED clawed_back

Clawback ==
    /\ ~clawed_back
    /\ clawed_back' = TRUE
    /\ UNCHANGED <<claimed, ata>>

\* The token account is opened, closed, or lamports are sent to its address:
\* one is opened there all the same.
ChangeAta(w) ==
    /\ \/ ata[w] # "token" /\ ata' = [ata EXCEPT ![w] = "token"]
       \/ ata[w] = "token" /\ ata' = [ata EXCEPT ![w] = "none"]
       \/ ata[w] = "none" /\ ata' = [ata EXCEPT ![w] = "lamports"]
    /\ UNCHANGED <<claimed, clawed_back>>

Elsewhere ==
    /\ \/ Clawback
       \/ \E w \in Restless : NewClaim(w) /\ UNCHANGED ata
       \/ \E w \in Restless : ChangeAta(w)
    /\ UNCHANGED <<wallet, display, fetches, claim, worst, since>>

------------------------------------------------------------------------------
(* What the server answers.                                                *)

\* The status field of the answer to /status.  A user without a node is told of
\* an error, in which there is no such field.
StatusOf(w) ==
    IF ~HasNode(w) THEN Undefined
    ELSE IF clawed_back THEN "Expired"
    ELSE IF w \in claimed THEN "Claimed"
    ELSE "Unclaimed"

\* The amounts in the answer to /proof.
AmountsOf(w) == IF HasNode(w) THEN Tree[w] ELSE Undefined

------------------------------------------------------------------------------
(* Rendering.                                                              *)

\* A call of fetchClaimAmount, and the answer to its first request.
Fetch(user, at, status) == [user |-> user, at |-> at, status |-> status]

\* useEffect without a list of dependencies: the effect of every render calls
\* fetchClaimAmount, which throws at once when there is no wallet.
\* Mutant: the effect runs when the wallet has changed.
Render_OnWallet(others, w) ==
    /\ fetches' = IF w \in {Nobody, wallet} THEN others
                  ELSE others (+) SetToBag({Fetch(w, "status", Null)})
    /\ since' = IF w = Nobody THEN Null ELSE StatusOf(w)

Render(others, w) ==
    /\ fetches' = IF w = Nobody THEN others
                  ELSE others (+) SetToBag({Fetch(w, "status", Null)})
    /\ since' = IF w = Nobody THEN Null ELSE StatusOf(w)

MayRender == BagCardinality(fetches) < MaxFetches

\* The user connects, disconnects, or selects another account in the wallet.
Connect(w) ==
    /\ MayRender
    /\ w # wallet
    /\ wallet' = w
    /\ Render(fetches, w)
    /\ worst' = "answer"
    /\ UNCHANGED <<chain, display, claim>>

\* Something else that the hooks return has changed.
Rerender ==
    /\ MayRender
    /\ Render(fetches, wallet)
    /\ UNCHANGED <<chain, wallet, display, claim, worst>>

------------------------------------------------------------------------------
(* fetchClaimAmount.                                                       *)

Without(f) == fetches (-) SetToBag({f})

\* How bad it is for the page that a request of a fetch has ended so: an error in
\* JSON takes a field away, a request that fails all of them.
Worse(f, how) ==
    worst' = IF f.user # wallet \/ worst = "failure" THEN worst ELSE how

\* /status has been answered, or with an error, whose body has no status.
GetStatus(f) ==
    /\ f.at = "status"
    /\ fetches' =
         Without(f) (+) SetToBag({Fetch(f.user, "proof", StatusOf(f.user))})
    /\ UNCHANGED <<chain, wallet, display, claim, worst, since>>

GetStatusError(f) ==
    /\ f.at = "status"
    /\ fetches' = Without(f) (+) SetToBag({Fetch(f.user, "proof", Undefined)})
    /\ Worse(f, "error")
    /\ UNCHANGED <<chain, wallet, display, claim, since>>

\* useState: a value that Object.is takes for the last one renders nothing.
\* Mutant: the state is one object, made anew by every fetch.
IsNews_Always(new) == TRUE

IsNews(new) == new # display

\* The three setters are called after an await, and React 18 renders once for all
\* of them.
Show(f, new) ==
    /\ display' = new
    /\ IF IsNews(new)
         THEN Render(Without(f), wallet)
         ELSE fetches' = Without(f) /\ UNCHANGED since
    /\ UNCHANGED <<chain, wallet, claim>>

\* /proof has been answered, or with an error, whose amounts are NaN.
GetProof(f) ==
    /\ f.at = "proof"
    /\ Show(f, [amounts |-> AmountsOf(f.user), status |-> f.status])
    /\ UNCHANGED worst

GetProofError(f) ==
    /\ f.at = "proof"
    /\ Show(f, [amounts |-> Undefined, status |-> f.status])
    /\ Worse(f, "error")

\* A request fails, or a body is not JSON: the error is logged.
FetchFails(f) ==
    /\ fetches' = Without(f)
    /\ Worse(f, "failure")
    /\ UNCHANGED <<chain, wallet, display, claim, since>>

------------------------------------------------------------------------------
(* handleClaim, with the wallet of the render whose button was clicked.     *)

IsClaiming(at) == claim # Null /\ claim.at = at

\* One call at a time (a bound).
\* Mutant: the button is there without a wallet.
Click_Always ==
    /\ claim = Null
    /\ claim' = [user |-> wallet, at |-> "get_proof", creates |-> FALSE]
    /\ UNCHANGED <<chain, wallet, display, fetches, worst, since>>

Click ==
    /\ wallet # Nobody
    /\ claim = Null
    /\ claim' = [user |-> wallet, at |-> "get_proof", creates |-> FALSE]
    /\ UNCHANGED <<chain, wallet, display, fetches, worst, since>>

\* anchor.BN throws at a number that is not exact as a double.
IsEncodable(amount) == amount <= MaxSafeInteger

\* /proof has been answered.  An error in its place has no proof to send.
ClaimWithProof ==
    /\ IsClaiming("get_proof")
    /\ HasNode(claim.user)
    /\ \A i \in DOMAIN Tree[claim.user] : IsEncodable(Tree[claim.user][i])
    /\ claim' = [claim EXCEPT !.at = "get_ata"]
    /\ UNCHANGED <<chain, wallet, display, fetches, worst, since>>

\* createSendSolanaSPLTokensInstruction: the token account is created if there is
\* nothing at its address.
\* Mutant: it is always created.
MustCreate_Always(w) == TRUE

MustCreate(w) == ata[w] = "none"

ReadAta ==
    /\ IsClaiming("get_ata")
    /\ claim' = [claim EXCEPT !.at = "send", !.creates = MustCreate(claim.user)]
    /\ UNCHANGED <<chain, wallet, display, fetches, worst, since>>

\* The first two hashes are sent: the whole proof in trees of three and four
\* leaves, and by PageProvesEveryLeaf of AirdropMerkleTree in no others.
SendsWholeProof == Cardinality(DOMAIN Tree) \in {3, 4}

\* The wallet signs for the account it has selected only.  The transaction lands
\* if its first instruction, which creates the token account, is there exactly
\* when there is no token account.
LandClaim ==
    /\ IsClaiming("send")
    /\ wallet = claim.user
    /\ SendsWholeProof
    /\ claim.creates <=> ata[claim.user] # "token"
    /\ NewClaim(claim.user)
    /\ ata' = [ata EXCEPT ![claim.user] = "token"]
    /\ claim' = Null
    /\ UNCHANGED <<wallet, display, fetches, worst, since>>

\* Any step of it fails: the error is logged.  A transaction that lands after
\* its confirmation was given up is a claim from elsewhere.
ClaimFails ==
    /\ claim # Null
    /\ claim' = Null
    /\ UNCHANGED <<chain, wallet, display, fetches, worst, since>>

------------------------------------------------------------------------------
PageNext ==
    \/ Elsewhere
    \/ \E w \in User \cup {Nobody} : Connect(w)
    \/ Rerender
    \/ \E f \in BagToSet(fetches) :
        \/ GetStatus(f) \/ GetStatusError(f)
        \/ GetProof(f) \/ GetProofError(f)
        \/ FetchFails(f)
    \/ Click \/ ClaimWithProof \/ ReadAta \/ LandClaim \/ ClaimFails

PageSpec == PageInit /\ [][PageNext]_pageVars

\* Every request is answered, with an error or not, or fails in the end.
FetchesAreFair ==
    WF_pageVars(\E f \in BagToSet(fetches) :
                    \/ GetStatus(f) \/ GetStatusError(f)
                    \/ GetProof(f) \/ GetProofError(f)
                    \/ FetchFails(f))

\* The user clicks again when a claim has failed, and no step of a claim waits
\* for ever; not every attempt is refused by the network.
ClicksAreFair ==
    /\ WF_pageVars(Click \/ ClaimFails)
    /\ SF_pageVars(ClaimWithProof)
    /\ SF_pageVars(ReadAta)
    /\ SF_pageVars(LandClaim)

FairPageSpec == PageSpec /\ FetchesAreFair /\ ClicksAreFair

------------------------------------------------------------------------------
(* Properties.                                                             *)

AtRest == fetches = EmptyBag

\* The statuses of a user, in the order they come in.
Rank(status) ==
    CASE status = "Expired" -> 3
      [] status = "Claimed" -> 2
      [] status = "Unclaimed" -> 1
      [] OTHER -> 0

\* Types, and: what is under way is under way for a wallet of the browser.
PageTypeOK ==
    /\ claimed \subseteq User
    /\ ata \in [User -> {"none", "lamports", "token"}]
    /\ wallet \in User \cup {Nobody}
    /\ worst \in {"answer", "error", "failure"}
    /\ \A f \in BagToSet(fetches) :
        f.user \in User /\ f.at \in {"status", "proof"}
    /\ claim # Null =>
        /\ claim.user \in User
        /\ claim.at \in {"get_proof", "get_ata", "send"}

\* A status that the connected wallet's claim had at some time between the last
\* render and now.
IsRecent(status) ==
    /\ Rank(since) <= Rank(status)
    /\ Rank(status) <= Rank(StatusOf(wallet))

\* When no fetch is under way and none for the connected wallet has failed, the
\* page shows nothing of another wallet, in whatever order the answers for it and
\* for wallets before it came: the amounts of its own leaf and a recent status, or
\* in place of either nothing, if the server has answered it with an error.
ShowsItsWallet ==
    AtRest /\ wallet # Nobody /\ worst # "failure" =>
        LET erred == worst = "error"
        IN  /\ \/ display.amounts = AmountsOf(wallet)
               \/ erred /\ display.amounts = Undefined
            /\ \/ IsRecent(display.status)
               \/ erred /\ display.status = Undefined

\* The server stops answering one of the two requests with errors, or answers
\* it with nothing else.
StatusesSettle ==
    \/ <>[][\A f \in BagToSet(fetches) : ~GetStatusError(f)]_pageVars
    \/ <>[][\A f \in BagToSet(fetches) : ~GetStatus(f)]_pageVars

ProofsSettle ==
    \/ <>[][\A f \in BagToSet(fetches) : ~GetProofError(f)]_pageVars
    \/ <>[][\A f \in BagToSet(fetches) : ~GetProof(f)]_pageVars

\* Every render fetches, and what is fetched may render again: this comes to an
\* end once the user and the hooks leave the page alone, unless the server goes on
\* answering the same request now with an error and now without.
ComesToRest ==
    (/\ <>[][~Rerender /\ ~ \E w \in User \cup {Nobody} : Connect(w)]_pageVars
     /\ StatusesSettle /\ ProofsSettle)
        => <>[]AtRest

\* A user who goes on clicking, with the same wallet connected, gets his claim,
\* unless the distributor is clawed back first, his token account is opened and
\* closed again and again or has only lamports at its address, which the page
\* takes for it, or his grant is too large to be encoded: failed attempts of his,
\* and attempts with another wallet before, do not stand in the way.
ClicksGetTheClaim ==
    \A w \in User :
        (/\ <>[](wallet = w)
         /\ <>[](ata[w] = "token") \/ <>[](ata[w] = "none")
         /\ HasNode(w) /\ SendsWholeProof
         /\ \A i \in DOMAIN Tree[w] : IsEncodable(Tree[w][i]))
            => <>(w \in claimed \/ clawed_back)

==============================================================================
