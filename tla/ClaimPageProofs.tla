---------------------------- MODULE ClaimPageProofs ----------------------------
(***************************************************************************)
(* Safety of the web page, for any number of wallets, renders and fetches  *)
(* under way, whatever the order they answer in.                           *)
(***************************************************************************)
EXTENDS ClaimPage, TLAPS

------------------------------------------------------------------------------
(* Bags of fetches.                                                        *)

LEMMA EmptyBagIsABag == IsABag(EmptyBag) /\ BagToSet(EmptyBag) = {}
BY DEF IsABag, EmptyBag, SetToBag, BagToSet

LEMMA BagWithOneMore ==
    ASSUME NEW B, IsABag(B), NEW x
    PROVE  /\ IsABag(B (+) SetToBag({x}))
           /\ BagToSet(B (+) SetToBag({x})) = BagToSet(B) \cup {x}
<1> DEFINE C == B (+) SetToBag({x})
<1>1. /\ DOMAIN C = (DOMAIN B) \cup {x}
      /\ \A e \in DOMAIN C :
          C[e] = (IF e \in DOMAIN B THEN B[e] ELSE 0)
                   + (IF e \in {x} THEN 1 ELSE 0)
      /\ C = [e \in DOMAIN C |-> C[e]]
  BY DEF (+), SetToBag
<1>2. \A e \in DOMAIN B : B[e] \in Nat /\ B[e] > 0
  BY DEF IsABag
<1> HIDE DEF C
<1>3. \A e \in DOMAIN C : C[e] \in Nat /\ C[e] > 0
  BY <1>1, <1>2
<1>4. C \in [DOMAIN C -> {n \in Nat : n > 0}]
  BY <1>1, <1>3
<1>5. QED
  BY <1>1, <1>4 DEF IsABag, BagToSet, C

LEMMA BagWithOneLess ==
    ASSUME NEW B, IsABag(B), NEW x
    PROVE  /\ IsABag(B (-) SetToBag({x}))
           /\ BagToSet(B (-) SetToBag({x})) \subseteq BagToSet(B)
           /\ BagToSet(B) \ {x} \subseteq BagToSet(B (-) SetToBag({x}))
<1> DEFINE C == B (-) SetToBag({x})
           D == [e \in DOMAIN B |-> IF e \in {x} THEN B[e] - 1 ELSE B[e]]
<1>1. /\ DOMAIN SetToBag({x}) = {x}
      /\ \A e \in {x} : SetToBag({x})[e] = 1
  BY DEF SetToBag
<1>2. C = [e \in {d \in DOMAIN D : D[d] > 0} |-> D[e]]
  BY <1>1 DEF (-)
<1>3. \A e \in DOMAIN B : B[e] \in Nat /\ B[e] > 0
  BY DEF IsABag
<1>4. DOMAIN D = DOMAIN B /\ \A e \in DOMAIN D : D[e] \in Nat
  BY <1>3
<1>5. \A e \in DOMAIN B : e # x => D[e] > 0
  BY <1>3
<1> HIDE DEF C, D
<1>6. C \in [DOMAIN C -> {n \in Nat : n > 0}]
  BY <1>2, <1>4
<1>7. DOMAIN C \subseteq DOMAIN B /\ (DOMAIN B) \ {x} \subseteq DOMAIN C
  BY <1>2, <1>4, <1>5
<1>8. QED
  BY <1>6, <1>7 DEF IsABag, BagToSet, C

------------------------------------------------------------------------------
(* The inductive invariant.                                                *)

Status == {Null, Undefined, "Expired", "Claimed", "Unclaimed"}

Worst == {"answer", "error", "failure"}

AFetch == [user : User, at : {"status", "proof"}, status : Status]

AClaim == [user : User, at : {"get_proof", "get_ata", "send"},
           creates : BOOLEAN]

PageTypes ==
    /\ claimed \subseteq User
    /\ ata \in [User -> {"none", "lamports", "token"}]
    /\ wallet \in User \cup {Nobody}
    /\ IsABag(fetches)
    /\ BagToSet(fetches) \subseteq AFetch
    /\ claim \in AClaim \cup {Null}
    /\ worst \in Worst

\* An answer is what the chain had, and the chain moves in one direction only.
AnswersArePast ==
    /\ \A f \in BagToSet(fetches) :
        f.at = "proof" => Rank(f.status) <= Rank(StatusOf(f.user))
    /\ wallet # Nobody => Rank(since) <= Rank(StatusOf(wallet))

Erred == worst = "error"

\* The fetch of the last render, or what it would have found already, unless the
\* server has answered it with an error.
IsFresh(f) ==
    /\ f.user = wallet
    /\ f.at = "proof" =>
        \/ Rank(since) <= Rank(f.status)
        \/ Erred /\ f.status = Undefined

ShowsFresh ==
    /\ \/ display.amounts = AmountsOf(wallet)
       \/ Erred /\ display.amounts = Undefined
    /\ \/ IsRecent(display.status)
       \/ Erred /\ display.status = Undefined

LastRenderIsServed ==
    wallet # Nobody /\ worst # "failure" =>
        ShowsFresh \/ \E f \in BagToSet(fetches) : IsFresh(f)

\* An error stays an error, and a failure a failure.
Worsens ==
    /\ worst' \in Worst
    /\ worst = "error" => worst' # "answer"
    /\ worst = "failure" => worst' = "failure"

PageInv == PageTypes /\ AnswersArePast /\ LastRenderIsServed

------------------------------------------------------------------------------
(* Statuses.                                                               *)

LEMMA RanksAreNatural == \A status : Rank(status) \in Nat
BY DEF Rank

LEMMA UndefinedRanksLowest == Rank(Undefined) = 0
BY PageAssumption DEF PageAssumption, Rank

LEMMA StatusesAreAnswers == \A w : StatusOf(w) \in Status
BY DEF StatusOf, Status

\* A claim is made once, and the clawback is final.
LEMMA StatusRises ==
    ASSUME claimed \subseteq claimed', clawed_back => clawed_back', NEW w
    PROVE  Rank(StatusOf(w)) <= Rank(StatusOf(w)')
<1>1. CASE ~HasNode(w)
  <2>1. StatusOf(w)' = StatusOf(w)
    BY <1>1 DEF StatusOf, HasNode
  <2>2. QED
    BY <2>1, RanksAreNatural
<1>2. CASE HasNode(w)
  <2>1. Rank("Expired") = 3 /\ Rank("Claimed") = 2 /\ Rank("Unclaimed") = 1
    BY DEF Rank
  <2>2. StatusOf(w) = IF clawed_back THEN "Expired"
                      ELSE IF w \in claimed THEN "Claimed" ELSE "Unclaimed"
    BY <1>2 DEF StatusOf
  <2>3. StatusOf(w)' = IF clawed_back' THEN "Expired"
                       ELSE IF w \in claimed' THEN "Claimed" ELSE "Unclaimed"
    BY <1>2 DEF StatusOf, HasNode
  <2>4. QED
    BY <2>1, <2>2, <2>3
<1>3. QED
  BY <1>1, <1>2

------------------------------------------------------------------------------
(* The steps.                                                              *)

\* The chain moves, and a claim goes its way, while nothing is rendered.
LEMMA NothingRendered ==
    ASSUME PageInv, claimed \subseteq claimed', claimed' \subseteq User,
           clawed_back => clawed_back',
           ata' \in [User -> {"none", "lamports", "token"}],
           UNCHANGED <<wallet, display, fetches, worst, since>>,
           claim' \in AClaim \cup {Null}
    PROVE  PageInv'
<1>1. PageTypes'
  BY DEF PageInv, PageTypes
<1>2. AnswersArePast'
  <2>1. ASSUME NEW w, NEW status, Rank(status) <= Rank(StatusOf(w))
        PROVE  Rank(status) <= Rank(StatusOf(w)')
    BY <2>1, StatusRises, RanksAreNatural
  <2>2. QED
    BY <2>1 DEF PageInv, AnswersArePast
<1>3. LastRenderIsServed'
  <2>1. Rank(display.status) <= Rank(StatusOf(wallet))
          => Rank(display.status) <= Rank(StatusOf(wallet)')
    BY StatusRises, RanksAreNatural
  <2>2. ShowsFresh => ShowsFresh'
    BY <2>1 DEF ShowsFresh, IsRecent, Erred, AmountsOf, HasNode
  <2>3. \A f : IsFresh(f) => IsFresh(f)'
    BY DEF IsFresh, Erred
  <2>4. QED
    BY <2>2, <2>3 DEF PageInv, LastRenderIsServed
<1>4. QED
  BY <1>1, <1>2, <1>3 DEF PageInv

LEMMA FetchesAreTyped ==
    ASSUME NEW user \in User, NEW at \in {"status", "proof"},
           NEW status \in Status
    PROVE  /\ Fetch(user, at, status) \in AFetch
           /\ Fetch(user, at, status).user = user
           /\ Fetch(user, at, status).at = at
           /\ Fetch(user, at, status).status = status
BY DEF Fetch, AFetch

\* A render fetches for the wallet that is connected, whatever the page shows
\* and whatever fetches of before are dropped.
LEMMA Rendered ==
    ASSUME PageInv, NEW others, IsABag(others),
           BagToSet(others) \subseteq BagToSet(fetches),
           NEW w \in User \cup {Nobody}, wallet' = w, Render(others, w),
           UNCHANGED <<chain, claim>>, worst' \in Worst
    PROVE  PageInv'
<1> DEFINE new == Fetch(w, "status", Null)
<1>1. /\ PageTypes /\ AnswersArePast
      /\ claimed' = claimed /\ clawed_back' = clawed_back
      /\ ata' = ata /\ claim' = claim
  BY DEF PageInv, chain
<1>2. \A v : StatusOf(v)' = StatusOf(v)
  BY <1>1 DEF StatusOf, HasNode
<1>3. CASE w = Nobody
  <2>1. fetches' = others
    BY <1>3 DEF Render
  <2>2. PageTypes'
    BY <1>1, <2>1 DEF PageTypes
  <2>3. AnswersArePast'
    BY <1>1, <1>2, <1>3, <2>1 DEF AnswersArePast
  <2>4. LastRenderIsServed'
    BY <1>3 DEF LastRenderIsServed
  <2>5. QED
    BY <2>2, <2>3, <2>4 DEF PageInv
<1>4. CASE w # Nobody
  <2>1. /\ fetches' = others (+) SetToBag({new})
        /\ since' = StatusOf(w)
    BY <1>4 DEF Render
  <2>2. /\ w \in User
        /\ new \in AFetch /\ new.user = w /\ new.at = "status"
    BY <1>4, FetchesAreTyped DEF Status
  <2> HIDE DEF new
  <2>3. /\ IsABag(fetches')
        /\ BagToSet(fetches') = BagToSet(others) \cup {new}
    BY <2>1, BagWithOneMore
  <2>4. PageTypes'
    BY <1>1, <2>2, <2>3 DEF PageTypes
  <2>5. AnswersArePast'
    <3>1. \A f \in BagToSet(fetches') :
            f.at = "proof" => Rank(f.status) <= Rank(StatusOf(f.user)')
      BY <1>1, <1>2, <2>2, <2>3 DEF AnswersArePast
    <3>2. Rank(since') <= Rank(StatusOf(w)')
      BY <1>2, <2>1, RanksAreNatural
    <3>3. wallet' # Nobody => Rank(since') <= Rank(StatusOf(wallet)')
      BY <3>2 DEF StatusOf
    <3>4. QED
      BY <3>1, <3>3 DEF AnswersArePast
  <2>6. \E g \in BagToSet(fetches') : IsFresh(g)'
    BY <2>2, <2>3 DEF IsFresh
  <2>7. LastRenderIsServed'
    BY <2>6 DEF LastRenderIsServed
  <2>8. QED
    BY <2>4, <2>5, <2>7 DEF PageInv
<1>5. QED
  BY <1>3, <1>4

\* What is left of the fetches when one is over.
LEMMA OneIsOver ==
    ASSUME PageInv, NEW f
    PROVE  /\ IsABag(Without(f))
           /\ BagToSet(Without(f)) \subseteq BagToSet(fetches)
           /\ BagToSet(fetches) \ {f} \subseteq BagToSet(Without(f))
BY BagWithOneLess DEF PageInv, PageTypes, Without

\* What counted as an answer to the last render goes on counting as one.
LEMMA NothingIsTakenBack ==
    ASSUME UNCHANGED <<chain, wallet, since>>, Worsens, worst' # "failure"
    PROVE  /\ worst # "failure"
           /\ Erred => Erred'
           /\ display' = display /\ ShowsFresh => ShowsFresh'
           /\ \A f : IsFresh(f) => IsFresh(f)'
<1>1. /\ claimed' = claimed /\ clawed_back' = clawed_back
      /\ wallet' = wallet /\ since' = since
  BY DEF chain
<1>2. /\ \A v : StatusOf(v)' = StatusOf(v)
      /\ \A v : AmountsOf(v)' = AmountsOf(v)
  BY <1>1 DEF StatusOf, AmountsOf, HasNode
<1>3. worst # "failure" /\ (Erred => Erred')
  BY DEF Worsens, Worst, Erred
<1>4. \A status : IsRecent(status)' <=> IsRecent(status)
  BY <1>1, <1>2 DEF IsRecent
<1>5. ASSUME display' = display, ShowsFresh PROVE ShowsFresh'
  BY <1>1, <1>2, <1>3, <1>4, <1>5 DEF ShowsFresh
<1>6. \A f : IsFresh(f) => IsFresh(f)'
  BY <1>1, <1>3 DEF IsFresh
<1>7. QED
  BY <1>3, <1>5, <1>6

\* The answer to /status is a status of the chain, or an error.
LEMMA StatusTaken ==
    ASSUME PageInv, NEW f \in BagToSet(fetches), NEW status \in Status,
           fetches' = Without(f) (+) SetToBag({Fetch(f.user, "proof", status)}),
           UNCHANGED <<chain, wallet, display, claim, since>>,
           Worsens,
           \/ status = StatusOf(f.user)
           \/ status = Undefined /\ (f.user = wallet => worst' # "answer")
    PROVE  PageInv'
<1> DEFINE new == Fetch(f.user, "proof", status)
<1>1. /\ PageTypes /\ AnswersArePast /\ LastRenderIsServed
      /\ claimed' = claimed /\ clawed_back' = clawed_back
      /\ ata' = ata /\ claim' = claim /\ worst' \in Worst
      /\ UNCHANGED <<wallet, display, since>>
      /\ fetches' = Without(f) (+) SetToBag({new})
  BY DEF PageInv, chain, Worsens
<1>2. \A v : StatusOf(v)' = StatusOf(v)
  BY <1>1 DEF StatusOf, HasNode
<1>3. f.user \in User
  BY <1>1 DEF PageTypes, AFetch
<1>4. /\ new \in AFetch /\ new.user = f.user
      /\ new.at = "proof" /\ new.status = status
  BY <1>3, FetchesAreTyped
<1> HIDE DEF new
<1>5. /\ IsABag(fetches')
      /\ BagToSet(fetches') \subseteq BagToSet(fetches) \cup {new}
      /\ (BagToSet(fetches) \ {f}) \cup {new} \subseteq BagToSet(fetches')
  <2>1. /\ IsABag(Without(f))
        /\ BagToSet(Without(f)) \subseteq BagToSet(fetches)
        /\ BagToSet(fetches) \ {f} \subseteq BagToSet(Without(f))
    BY OneIsOver
  <2>2. /\ IsABag(fetches')
        /\ BagToSet(fetches') = BagToSet(Without(f)) \cup {new}
    <3>1. LET B == Without(f) (+) SetToBag({new})
          IN  IsABag(B) /\ BagToSet(B) = BagToSet(Without(f)) \cup {new}
      BY <2>1, BagWithOneMore
    <3>2. QED
      BY <1>1, <3>1
  <2>3. QED
    BY <2>1, <2>2
<1>6. PageTypes'
  <2>1. BagToSet(fetches') \subseteq AFetch
    BY <1>1, <1>4, <1>5 DEF PageTypes
  <2>2. /\ claimed' \subseteq User
        /\ ata' \in [User -> {"none", "lamports", "token"}]
        /\ wallet' \in User \cup {Nobody}
        /\ claim' \in AClaim \cup {Null}
    BY <1>1 DEF PageTypes
  <2>3. QED
    BY <1>1, <1>5, <2>1, <2>2 DEF PageTypes
<1>7. AnswersArePast'
  <2>1. Rank(status) <= Rank(StatusOf(f.user))
    <3>1. Rank(StatusOf(f.user)) \in Nat
      BY RanksAreNatural
    <3>2. Rank(status) = Rank(StatusOf(f.user)) \/ Rank(status) = 0
      BY UndefinedRanksLowest
    <3>3. QED
      BY <3>1, <3>2
  <2>2. \A g \in BagToSet(fetches') :
          g.at = "proof" => Rank(g.status) <= Rank(StatusOf(g.user)')
    <3> SUFFICES ASSUME NEW g \in BagToSet(fetches'), g.at = "proof"
                 PROVE  Rank(g.status) <= Rank(StatusOf(g.user)')
      OBVIOUS
    <3>1. CASE g = new
      BY <1>2, <1>4, <2>1, <3>1
    <3>2. CASE g # new
      BY <1>1, <1>2, <1>5, <3>2 DEF AnswersArePast
    <3>3. QED
      BY <3>1, <3>2
  <2>3. wallet' # Nobody => Rank(since') <= Rank(StatusOf(wallet)')
    BY <1>1, <1>2 DEF AnswersArePast
  <2>4. QED
    BY <2>2, <2>3 DEF AnswersArePast
<1>8. LastRenderIsServed'
  <2> SUFFICES ASSUME wallet # Nobody, worst' # "failure"
               PROVE  \/ ShowsFresh'
                      \/ \E g \in BagToSet(fetches') : IsFresh(g)'
    BY <1>1 DEF LastRenderIsServed
  <2>1. /\ worst # "failure" /\ (ShowsFresh => ShowsFresh')
        /\ \A g : IsFresh(g) => IsFresh(g)'
    BY <1>1, NothingIsTakenBack
  <2>2. ASSUME NEW g \in BagToSet(fetches), IsFresh(g)
        PROVE  \E h \in BagToSet(fetches') : IsFresh(h)'
    <3>1. CASE g # f
      BY <1>5, <2>1, <2>2, <3>1
    <3>2. CASE g = f
      <4>1. f.user = wallet /\ new.user = wallet' /\ new \in BagToSet(fetches')
        BY <1>1, <1>4, <1>5, <2>2, <3>2 DEF IsFresh
      <4>2. CASE status = StatusOf(f.user)
        <5>1. Rank(since') <= Rank(new.status)
          BY <1>1, <1>4, <4>1, <4>2 DEF AnswersArePast
        <5>2. QED
          BY <4>1, <5>1 DEF IsFresh
      <4>3. CASE status = Undefined /\ worst' # "answer"
        <5>1. Erred' /\ new.status = Undefined
          BY <1>1, <1>4, <4>3 DEF Erred, Worst
        <5>2. QED
          BY <4>1, <5>1 DEF IsFresh
      <4>4. QED
        BY <4>1, <4>2, <4>3
    <3>3. QED
      BY <3>1, <3>2
  <2>3. QED
    BY <1>1, <2>1, <2>2 DEF LastRenderIsServed
<1>9. QED
  BY <1>6, <1>7, <1>8 DEF PageInv

LEMMA WorseWorsens ==
    ASSUME PageInv, NEW f, NEW how \in {"error", "failure"}, Worse(f, how)
    PROVE  Worsens /\ (f.user = wallet => worst' # "answer")
BY DEF PageInv, PageTypes, Worse, Worsens, Worst

LEMMA GetStatusInv ==
    ASSUME PageInv, NEW f \in BagToSet(fetches), GetStatus(f) PROVE PageInv'
<1>1. Worsens
  BY DEF PageInv, PageTypes, GetStatus, Worsens
<1>2. StatusOf(f.user) \in Status
  BY StatusesAreAnswers
<1>3. /\ fetches' = Without(f) (+)
             SetToBag({Fetch(f.user, "proof", StatusOf(f.user))})
      /\ UNCHANGED <<chain, wallet, display, claim, since>>
  BY DEF GetStatus
<1>4. QED
  BY <1>1, <1>2, <1>3, StatusTaken

LEMMA GetStatusErrorInv ==
    ASSUME PageInv, NEW f \in BagToSet(fetches), GetStatusError(f)
    PROVE  PageInv'
<1>1. Worsens /\ (f.user = wallet => worst' # "answer")
  BY WorseWorsens DEF GetStatusError
<1>2. Undefined \in Status
  BY DEF Status
<1>3. /\ fetches' = Without(f) (+) SetToBag({Fetch(f.user, "proof", Undefined)})
      /\ UNCHANGED <<chain, wallet, display, claim, since>>
  BY DEF GetStatusError
<1>4. QED
  BY <1>1, <1>2, <1>3, StatusTaken

\* A fetch shows what it got: if that changes nothing, it was shown before.
LEMMA Shown ==
    ASSUME PageInv, NEW f \in BagToSet(fetches), f.at = "proof",
           NEW amounts, Show(f, [amounts |-> amounts, status |-> f.status]),
           Worsens,
           \/ amounts = AmountsOf(f.user)
           \/ amounts = Undefined /\ (f.user = wallet => worst' # "answer")
    PROVE  PageInv'
<1> DEFINE new == [amounts |-> amounts, status |-> f.status]
<1>1. /\ PageTypes /\ AnswersArePast /\ LastRenderIsServed
      /\ UNCHANGED <<chain, claim, wallet>>
      /\ claimed' = claimed /\ clawed_back' = clawed_back
      /\ ata' = ata /\ worst' \in Worst
      /\ display' = new
  BY DEF PageInv, Show, chain, Worsens
<1>2. CASE IsNews(new)
  <2>1. Render(Without(f), wallet')
    BY <1>1, <1>2 DEF Show
  <2>2. wallet' \in User \cup {Nobody}
    BY <1>1 DEF PageTypes
  <2>3. QED
    BY <1>1, <2>1, <2>2, OneIsOver, Rendered
<1>3. CASE ~IsNews(new)
  <2>1. /\ fetches' = Without(f) /\ since' = since
        /\ display = new /\ display' = display
    BY <1>1, <1>3 DEF Show, IsNews
  <2>2. /\ \A v : StatusOf(v)' = StatusOf(v)
        /\ \A v : AmountsOf(v)' = AmountsOf(v)
    BY <1>1 DEF StatusOf, AmountsOf, HasNode
  <2>3. /\ IsABag(fetches')
        /\ BagToSet(fetches') \subseteq BagToSet(fetches)
        /\ BagToSet(fetches) \ {f} \subseteq BagToSet(fetches')
    BY <2>1, OneIsOver
  <2>4. PageTypes'
    BY <1>1, <2>3 DEF PageTypes
  <2>5. AnswersArePast'
    BY <1>1, <2>1, <2>2, <2>3 DEF AnswersArePast
  <2>6. LastRenderIsServed'
    <3> SUFFICES ASSUME wallet # Nobody, worst' # "failure"
                 PROVE  \/ ShowsFresh'
                        \/ \E g \in BagToSet(fetches') : IsFresh(g)'
      BY <1>1 DEF LastRenderIsServed
    <3>1. /\ worst # "failure" /\ (Erred => Erred')
          /\ ShowsFresh => ShowsFresh'
          /\ \A g : IsFresh(g) => IsFresh(g)'
      BY <1>1, <2>1, NothingIsTakenBack
    <3>2. ASSUME NEW g \in BagToSet(fetches), IsFresh(g)
          PROVE  \/ ShowsFresh'
                 \/ \E h \in BagToSet(fetches') : IsFresh(h)'
      <4>1. CASE g # f
        BY <2>3, <3>1, <3>2, <4>1
      <4>2. CASE g = f
        <5>1. /\ f.user = wallet
              /\ \/ Rank(since) <= Rank(f.status)
                 \/ Erred /\ f.status = Undefined
              /\ Rank(f.status) <= Rank(StatusOf(wallet))
          BY <1>1, <3>2, <4>2 DEF IsFresh, AnswersArePast
        <5>2. /\ display'.status = f.status
              /\ display'.amounts = amounts
          BY <1>1
        <5>3. \/ IsRecent(display.status)'
              \/ Erred' /\ display'.status = Undefined
          BY <1>1, <2>1, <2>2, <3>1, <5>1, <5>2 DEF IsRecent
        <5>4. \/ display'.amounts = AmountsOf(wallet)'
              \/ Erred' /\ display'.amounts = Undefined
          BY <1>1, <2>2, <5>1, <5>2 DEF Erred, Worst
        <5>5. QED
          BY <5>3, <5>4 DEF ShowsFresh
      <4>3. QED
        BY <4>1, <4>2
    <3>3. QED
      BY <1>1, <3>1, <3>2 DEF LastRenderIsServed
  <2>7. QED
    BY <2>4, <2>5, <2>6 DEF PageInv
<1>4. QED
  BY <1>2, <1>3

LEMMA GetProofInv ==
    ASSUME PageInv, NEW f \in BagToSet(fetches), GetProof(f) PROVE PageInv'
<1>1. Worsens
  BY DEF PageInv, PageTypes, GetProof, Worsens
<1>2. QED
  BY <1>1, Shown DEF GetProof

LEMMA GetProofErrorInv ==
    ASSUME PageInv, NEW f \in BagToSet(fetches), GetProofError(f) PROVE PageInv'
<1>1. Worsens /\ (f.user = wallet => worst' # "answer")
  BY WorseWorsens DEF GetProofError
<1>2. QED
  BY <1>1, Shown DEF GetProofError

LEMMA FetchFailsInv ==
    ASSUME PageInv, NEW f \in BagToSet(fetches), FetchFails(f) PROVE PageInv'
<1>1. /\ PageTypes /\ AnswersArePast /\ LastRenderIsServed
      /\ claimed' = claimed /\ clawed_back' = clawed_back
      /\ ata' = ata /\ claim' = claim
      /\ UNCHANGED <<chain, wallet, display, since>>
      /\ fetches' = Without(f)
  BY DEF PageInv, FetchFails, chain
<1>2. Worsens /\ worst' \in Worst
  BY WorseWorsens DEF FetchFails, Worsens
<1>3. \A v : StatusOf(v)' = StatusOf(v)
  BY <1>1 DEF StatusOf, HasNode
<1>4. /\ IsABag(fetches')
      /\ BagToSet(fetches') \subseteq BagToSet(fetches)
      /\ BagToSet(fetches) \ {f} \subseteq BagToSet(fetches')
  BY <1>1, OneIsOver
<1>5. PageTypes'
  BY <1>1, <1>2, <1>4 DEF PageTypes
<1>6. AnswersArePast'
  BY <1>1, <1>3, <1>4 DEF AnswersArePast
<1>7. LastRenderIsServed'
  <2> SUFFICES ASSUME wallet # Nobody, worst' # "failure"
               PROVE  \/ ShowsFresh'
                      \/ \E g \in BagToSet(fetches') : IsFresh(g)'
    BY <1>1 DEF LastRenderIsServed
  <2>1. /\ worst # "failure" /\ (ShowsFresh => ShowsFresh')
        /\ \A g : IsFresh(g) => IsFresh(g)'
    BY <1>1, <1>2, NothingIsTakenBack
  <2>2. f.user # wallet
    BY <2>1 DEF FetchFails, Worse
  <2>3. \A g : IsFresh(g) => g # f
    BY <2>2 DEF IsFresh
  <2>4. QED
    BY <1>1, <1>4, <2>1, <2>3 DEF LastRenderIsServed
<1>8. QED
  BY <1>5, <1>6, <1>7 DEF PageInv

LEMMA ConnectInv ==
    ASSUME PageInv, NEW w \in User \cup {Nobody}, Connect(w) PROVE PageInv'
<1>1. /\ IsABag(fetches) /\ wallet' = w /\ Render(fetches, w)
      /\ UNCHANGED <<chain, claim>> /\ worst' \in Worst
  BY DEF PageInv, PageTypes, Connect, Worst
<1>2. QED
  BY <1>1, Rendered

LEMMA RerenderInv == ASSUME PageInv, Rerender PROVE PageInv'
<1>1. /\ IsABag(fetches) /\ wallet \in User \cup {Nobody}
      /\ wallet' = wallet /\ Render(fetches, wallet)
      /\ UNCHANGED <<chain, claim>> /\ worst' \in Worst
  BY DEF PageInv, PageTypes, Rerender
<1>2. QED
  BY <1>1, Rendered

LEMMA ElsewhereInv == ASSUME PageInv, Elsewhere PROVE PageInv'
<1>1. /\ claimed \subseteq User
      /\ ata \in [User -> {"none", "lamports", "token"}]
      /\ claim \in AClaim \cup {Null}
  BY DEF PageInv, PageTypes
<1>2. /\ claimed \subseteq claimed' /\ claimed' \subseteq User
      /\ clawed_back => clawed_back'
      /\ ata' \in [User -> {"none", "lamports", "token"}]
  <2>1. CASE Clawback
    BY <1>1, <2>1 DEF Clawback
  <2>2. CASE \E w \in Restless : NewClaim(w) /\ UNCHANGED ata
    BY <1>1, <2>2, PageAssumption DEF NewClaim, PageAssumption
  <2>3. CASE \E w \in Restless : ChangeAta(w)
    BY <1>1, <2>3 DEF ChangeAta
  <2>4. QED
    BY <2>1, <2>2, <2>3 DEF Elsewhere
<1>3. UNCHANGED <<wallet, display, fetches, claim, worst, since>>
  BY DEF Elsewhere
<1>4. QED
  BY <1>1, <1>2, <1>3, NothingRendered

\* The steps of handleClaim render nothing.
LEMMA ClaimInv ==
    ASSUME PageInv,
           Click \/ ClaimWithProof \/ ReadAta \/ LandClaim \/ ClaimFails
    PROVE  PageInv'
<1>1. /\ claimed \subseteq User
      /\ ata \in [User -> {"none", "lamports", "token"}]
      /\ wallet \in User \cup {Nobody}
      /\ claim \in AClaim \cup {Null}
  BY DEF PageInv, PageTypes
<1>2. CASE Click
  <2>1. claim' \in AClaim
    BY <1>1, <1>2 DEF Click, AClaim
  <2>2. QED
    BY <1>1, <1>2, <2>1, NothingRendered DEF Click, chain
<1>3. CASE ClaimWithProof
  <2>1. claim' \in AClaim
    BY <1>1, <1>3 DEF ClaimWithProof, IsClaiming, AClaim
  <2>2. QED
    BY <1>1, <1>3, <2>1, NothingRendered DEF ClaimWithProof, chain
<1>4. CASE ReadAta
  <2>1. claim' \in AClaim
    BY <1>1, <1>4 DEF ReadAta, IsClaiming, MustCreate, AClaim
  <2>2. QED
    BY <1>1, <1>4, <2>1, NothingRendered DEF ReadAta, chain
<1>5. CASE LandClaim
  <2>1. claim.user \in User /\ claim' = Null
    BY <1>1, <1>5 DEF LandClaim, IsClaiming, AClaim
  <2>2. /\ claimed' = claimed \cup {claim.user}
        /\ ata' = [ata EXCEPT ![claim.user] = "token"]
        /\ clawed_back' = clawed_back
        /\ UNCHANGED <<wallet, display, fetches, worst, since>>
    BY <1>5 DEF LandClaim, NewClaim
  <2>3. QED
    BY <1>1, <2>1, <2>2, NothingRendered
<1>6. CASE ClaimFails
  BY <1>1, <1>6, NothingRendered DEF ClaimFails, chain
<1>7. QED
  BY <1>2, <1>3, <1>4, <1>5, <1>6

LEMMA InitPage == PageInit => PageInv
<1> SUFFICES ASSUME PageInit PROVE PageInv
  OBVIOUS
<1>1. IsABag(fetches) /\ BagToSet(fetches) = {}
  BY EmptyBagIsABag DEF PageInit
<1>2. PageTypes
  BY <1>1 DEF PageInit, PageTypes, Worst
<1>3. AnswersArePast /\ LastRenderIsServed
  BY <1>1 DEF PageInit, AnswersArePast, LastRenderIsServed
<1>4. QED
  BY <1>2, <1>3 DEF PageInv

LEMMA StepPage == ASSUME PageInv, [PageNext]_pageVars PROVE PageInv'
<1>1. CASE UNCHANGED pageVars
  <2>1. /\ UNCHANGED <<wallet, display, fetches, worst, since>>
        /\ claimed' = claimed /\ clawed_back' = clawed_back
        /\ ata' = ata /\ claim' = claim
    BY <1>1 DEF pageVars, chain
  <2>2. QED
    BY <2>1, NothingRendered DEF PageInv, PageTypes
<1>2. CASE Elsewhere
  BY <1>2, ElsewhereInv
<1>3. CASE \E w \in User \cup {Nobody} : Connect(w)
  BY <1>3, ConnectInv
<1>4. CASE Rerender
  BY <1>4, RerenderInv
<1>5. CASE \E f \in BagToSet(fetches) :
             \/ GetStatus(f) \/ GetStatusError(f)
             \/ GetProof(f) \/ GetProofError(f)
             \/ FetchFails(f)
  BY <1>5, GetStatusInv, GetStatusErrorInv, GetProofInv, GetProofErrorInv,
     FetchFailsInv
<1>6. CASE Click \/ ClaimWithProof \/ ReadAta \/ LandClaim \/ ClaimFails
  BY <1>6, ClaimInv
<1>7. QED
  BY <1>1, <1>2, <1>3, <1>4, <1>5, <1>6 DEF PageNext

LEMMA PageInvariant == PageSpec => []PageInv
<1>1. PageInv /\ [PageNext]_pageVars => PageInv'
  BY StepPage
<1>2. QED
  BY InitPage, <1>1, PTL DEF PageSpec

------------------------------------------------------------------------------
(* The theorems.                                                           *)

\* Whatever is under way is under way for a wallet of the browser: no fetch and
\* no claim is made when none is connected.
THEOREM PageTypeCorrect == PageSpec => []PageTypeOK
<1>1. PageInv => PageTypeOK
  BY DEF PageInv, PageTypes, PageTypeOK, AFetch, AClaim, Worst
<1>2. QED
  BY <1>1, PageInvariant, PTL

\* When the fetches are over and none has failed, the page shows nothing of
\* another wallet, however the answers to it and to wallets before it were
\* interleaved: an answer that changes the page makes it ask again, and the last
\* one to do so is for the wallet of the last render.  Where the server erred
\* there may be nothing, and only there.
THEOREM ShownCorrect == PageSpec => []ShowsItsWallet
<1>1. ASSUME PageInv, AtRest, wallet # Nobody, worst # "failure"
      PROVE  ShowsFresh
  <2>1. BagToSet(fetches) = {}
    BY <1>1, EmptyBagIsABag DEF AtRest
  <2>2. QED
    BY <1>1, <2>1 DEF PageInv, LastRenderIsServed
<1>2. PageInv => ShowsItsWallet
  BY <1>1 DEF ShowsItsWallet, ShowsFresh, Erred
<1>3. QED
  BY <1>2, PageInvariant, PTL

===============================================================================
