---------------------------- MODULE ApiServerProofs ----------------------------
(***************************************************************************)
(* Safety of the API server, for any number of clients, tree files and     *)
(* restarts, on any chain that MerkleDistributor allows.                   *)
(***************************************************************************)
EXTENDS ApiServer, MerkleDistributorProofs

------------------------------------------------------------------------------
(* The inductive invariant.                                                *)

Snapshot == [distributor  : DistributorAccount,
             claim_status : ClaimStatus \cup {NoAccount}]

Request == [path     : Path,
            at       : {"buffer", "handler", "read"},
            accounts : Snapshot \cup {NoAccount}]

\* The server runs on one of its files, for a distributor that is there; what
\* it keeps of clients is theirs.
ServerInv ==
    /\ IsUp => tree \in TreeFiles /\ Exists(Target)
    /\ request \in [Wallet -> Request \cup {NoAccount}]
    /\ reply = [w \in Wallet |-> [path \in Path |-> reply[w][path]]]

HoldsSnapshot(w) == request[w] # NoAccount /\ request[w].at = "read"

\* The chain has moved on from a snapshot in one direction only.
SnapshotIsPast(w) ==
    LET then == request[w].accounts.distributor
        cs   == request[w].accounts.claim_status
    IN  /\ then.root = distributor[Target].root
        /\ then.start_ts = distributor[Target].start_ts
        /\ then.end_ts = distributor[Target].end_ts
        /\ then.clawed_back => ClawedBack(Target)
        /\ cs # NoAccount =>
            /\ HasClaim(Target, w)
            /\ cs.locked_amount = claim_status[Target][w].locked_amount
            /\ cs.locked_amount_withdrawn
                 <= claim_status[Target][w].locked_amount_withdrawn

\* A snapshot is newer than the last answer.
SnapshotIsNews(w) ==
    Answered(w, "status") =>
        /\ reply[w]["status"].status = "Claimed" => ClaimWasFound(w)
        /\ reply[w]["status"].status = "Expired" =>
              request[w].accounts.distributor.clawed_back

RequestInv(w) ==
    /\ request[w] # NoAccount => IsUp
    /\ HoldsSnapshot(w) =>
        /\ request[w].path = "status"
        /\ HasNode(w)
        /\ request[w].accounts \in Snapshot
        /\ SnapshotIsPast(w)
        /\ SnapshotIsNews(w)

\* What clients were answered is true, or was and is past.
TrueStatus(w) ==
    Answered(w, "status") =>
        LET answer == reply[w]["status"]
        IN  /\ answer.status = "Claimed" => HasClaim(Target, w)
            /\ answer.status = "Expired" => ClawedBack(Target)
            /\ answer.status = "panic" => answer.behind
            /\ answer.genuine =>
                  answer.withdrawn + answer.withdrawable <= answer.vested

TrueProof(w) ==
    Answered(w, "proof") =>
        reply[w]["proof"].leaf \in reply[w]["proof"].proof

TrueRoot(w) ==
    Answered(w, "distributor") =>
        /\ Exists(Target)
        /\ reply[w]["distributor"].root = distributor[Target].root

ReplyInv(w) == TrueStatus(w) /\ TrueProof(w) /\ TrueRoot(w)

ApiInv ==
    /\ LedgerInv
    /\ ServerInv
    /\ \A w \in Wallet : RequestInv(w) /\ ReplyInv(w)

LEMMA ApiTypes == ApiInv => ApiTypeOK
<1> SUFFICES ASSUME ApiInv, NEW w \in Wallet, request[w] # NoAccount
             PROVE  /\ IsUp
                    /\ request[w].path \in Path
                    /\ request[w].at \in {"buffer", "handler", "read"}
                    /\ IsAt(w, "status", "read") =>
                          /\ request[w].accounts.distributor
                               \in DistributorAccount
                          /\ request[w].accounts.claim_status
                               \in ClaimStatus \cup {NoAccount}
  BY DEF ApiTypeOK
<1>1. request[w] \in Request /\ RequestInv(w)
  BY DEF ApiInv, ServerInv
<1>2. IsAt(w, "status", "read") => request[w].accounts \in Snapshot
  BY <1>1 DEF IsAt, RequestInv, HoldsSnapshot
<1>3. QED
  BY <1>1, <1>2 DEF RequestInv, Request, Snapshot

------------------------------------------------------------------------------
(* The chain around the server.                                            *)

LEMMA ApiCases ==
    ASSUME ApiNext
    PROVE  \/ Next /\ UNCHANGED <<tree, request, reply>>
           \/ StartServer
           \/ StopServer
           \/ \E w \in Wallet, path \in Path : Send(w, path)
           \/ \E w \in Wallet : \/ Begin(w)
                                \/ Timeout(w)
                                \/ RpcFails(w)
                                \/ NotFound(w)
                                \/ AnswerProof(w)
                                \/ AnswerDistributor(w)
                                \/ ReadAccounts(w)
           \/ \E w \in Wallet, now \in HostClock : AnswerStatus(w, now)
BY DEF ApiNext

LEMMA ServerOnlyReads == ASSUME [ApiNext]_apiVars PROVE [Next]_vars
<1>1. \A w, answer : Answer(w, answer) \/ EndWithError(w) => UNCHANGED vars
  BY DEF Answer, EndWithError
<1>2. \A w : Timeout(w) \/ RpcFails(w) \/ NotFound(w) \/ AnswerProof(w)
              \/ AnswerDistributor(w) => UNCHANGED vars
  BY <1>1 DEF Timeout, RpcFails, NotFound, AnswerProof, AnswerDistributor
<1>3. \A w, now : AnswerStatus(w, now) => UNCHANGED vars
  BY <1>1 DEF AnswerStatus
<1>4. StartServer \/ StopServer => UNCHANGED vars
  BY DEF StartServer, StopServer
<1>5. \A w, path : Send(w, path) \/ Begin(w) \/ ReadAccounts(w)
                     => UNCHANGED vars
  BY DEF Send, Begin, ReadAccounts
<1>6. UNCHANGED apiVars => UNCHANGED vars
  BY DEF apiVars
<1>7. QED
  BY <1>2, <1>3, <1>4, <1>5, <1>6, ApiCases

LEMMA LedgerStep ==
    ASSUME LedgerInv, [Next]_vars
    PROVE  LedgerInv' /\ (Exists(Target) => Exists(Target)')
<1>1. LedgerInv'
  BY StepVesting, StepLedger, StepCaps, StepListed DEF LedgerInv
<1>2. QED
  BY <1>1, StepKeepsTerms, ApiAssumption DEF LedgerInv, VestingInv

\* The chain moves in one direction only.
LEMMA ChainMovesOn ==
    ASSUME LedgerInv, [Next]_vars, NEW w \in Wallet
    PROVE  /\ LedgerInv'
           /\ Exists(Target) =>
                /\ Exists(Target)'
                /\ distributor'[Target].root = distributor[Target].root
                /\ distributor'[Target].start_ts = distributor[Target].start_ts
                /\ distributor'[Target].end_ts = distributor[Target].end_ts
           /\ ClawedBack(Target) => ClawedBack(Target)'
           /\ HasClaim(Target, w) =>
                /\ HasClaim(Target, w)'
                /\ claim_status'[Target][w].locked_amount
                     = claim_status[Target][w].locked_amount
                /\ claim_status'[Target][w].locked_amount_withdrawn
                     >= claim_status[Target][w].locked_amount_withdrawn
<1>1. TypeOK /\ Target \in Distributor
  BY ApiAssumption DEF LedgerInv, VestingInv
<1>2. LedgerInv'
  BY LedgerStep
<1>3. ClawedBack(Target) => ClawedBack(Target)'
  BY <1>1, StepKeepsTerms DEF ClawedBack, KeepsTerms
<1>4. QED
  BY <1>1, <1>2, <1>3, StepKeepsTerms, KeptTerms, StepKeepsClaims

\* A request that goes on waiting, and a client that is not answered.
LEMMA RequestsWait ==
    ASSUME ApiInv, [Next]_vars, tree' = tree, NEW w \in Wallet,
           request'[w] = request[w], reply'[w] = reply[w]
    PROVE  RequestInv(w)'
<1>1. RequestInv(w) /\ LedgerInv
  BY DEF ApiInv
<1>2. request[w] # NoAccount => IsUp'
  BY <1>1 DEF RequestInv, IsUp
<1>3. ASSUME HoldsSnapshot(w)
      PROVE  /\ HasNode(w)'
             /\ SnapshotIsPast(w)'
             /\ SnapshotIsNews(w)'
  <2>1. HasNode(w) /\ SnapshotIsPast(w) /\ SnapshotIsNews(w) /\ IsUp
    BY <1>1, <1>3 DEF RequestInv, HoldsSnapshot
  <2>2. HasNode(w)'
    BY <2>1 DEF HasNode
  <2>3. SnapshotIsNews(w)'
    BY <2>1 DEF SnapshotIsNews, Answered, ClaimWasFound
  <2>4. SnapshotIsPast(w)'
    <3> DEFINE then == request[w].accounts.distributor
               cs   == request[w].accounts.claim_status
    <3>1. request'[w].accounts.distributor = then
          /\ request'[w].accounts.claim_status = cs
      OBVIOUS
    <3>2. Exists(Target)
      BY <2>1 DEF ApiInv, ServerInv
    <3>3. cs # NoAccount =>
            /\ cs.locked_amount_withdrawn \in Nat
            /\ claim_status[Target][w].locked_amount_withdrawn \in Nat
            /\ claim_status'[Target][w].locked_amount_withdrawn \in Nat
      <4> SUFFICES ASSUME cs # NoAccount
                   PROVE  /\ cs.locked_amount_withdrawn \in Nat
                          /\ claim_status[Target][w].locked_amount_withdrawn
                               \in Nat
                          /\ claim_status'[Target][w].locked_amount_withdrawn
                               \in Nat
        OBVIOUS
      <4>1. cs \in ClaimStatus
        BY <1>1, <1>3 DEF RequestInv, Snapshot
      <4>2. HasClaim(Target, w) /\ HasClaim(Target, w)'
        BY <1>1, <2>1, ChainMovesOn DEF SnapshotIsPast
      <4>3. /\ claim_status[Target][w] \in ClaimStatus \cup {NoAccount}
            /\ claim_status'[Target][w] \in ClaimStatus \cup {NoAccount}
        BY <1>1, StepTypes, ApiAssumption DEF LedgerInv, VestingInv, TypeOK
      <4>4. QED
        BY <4>1, <4>2, <4>3, AmountsAreNatural DEF HasClaim, ClaimStatus
    <3> HIDE DEF then, cs
    <3>4. /\ then.root = distributor'[Target].root
          /\ then.start_ts = distributor'[Target].start_ts
          /\ then.end_ts = distributor'[Target].end_ts
          /\ then.clawed_back => ClawedBack(Target)'
          /\ cs # NoAccount =>
              /\ HasClaim(Target, w)'
              /\ cs.locked_amount = claim_status'[Target][w].locked_amount
              /\ cs.locked_amount_withdrawn
                   <= claim_status'[Target][w].locked_amount_withdrawn
      BY <1>1, <2>1, <3>2, <3>3, ChainMovesOn DEF SnapshotIsPast, then, cs
    <3>5. QED
      BY <3>1, <3>4 DEF SnapshotIsPast
  <2>5. QED
    BY <2>2, <2>3, <2>4
<1>4. QED
  BY <1>1, <1>2, <1>3 DEF RequestInv, HoldsSnapshot

LEMMA RepliesStay ==
    ASSUME ApiInv, [Next]_vars, NEW w \in Wallet
    PROVE  /\ reply'[w]["status"] = reply[w]["status"] => TrueStatus(w)'
           /\ reply'[w]["proof"] = reply[w]["proof"] => TrueProof(w)'
           /\ reply'[w]["distributor"] = reply[w]["distributor"] => TrueRoot(w)'
           /\ reply'[w] = reply[w] => ReplyInv(w)'
<1>1. TrueStatus(w) /\ TrueProof(w) /\ TrueRoot(w) /\ LedgerInv
  BY DEF ApiInv, ReplyInv
<1>2. reply'[w]["status"] = reply[w]["status"] => TrueStatus(w)'
  BY <1>1, ChainMovesOn DEF TrueStatus, Answered
<1>3. reply'[w]["proof"] = reply[w]["proof"] => TrueProof(w)'
  BY <1>1 DEF TrueProof, Answered
<1>4. reply'[w]["distributor"] = reply[w]["distributor"] => TrueRoot(w)'
  BY <1>1, ChainMovesOn DEF TrueRoot, Answered
<1>5. QED
  BY <1>2, <1>3, <1>4 DEF ReplyInv

------------------------------------------------------------------------------
(* What get_claim_status computes.                                         *)

\* Only the locked amount of a claim decides how much of it is unlocked.
LEMMA OnlyLockedVests ==
    ASSUME NEW cs1, NEW cs2, cs1.locked_amount = cs2.locked_amount,
           NEW t, NEW start, NEW end
    PROVE  UnlockedAmount(cs1, t, start, end) = UnlockedAmount(cs2, t, start, end)
BY DEF UnlockedAmount

\* The facts about a snapshot that the handler relies on.
LEMMA SnapshotFacts ==
    ASSUME ApiInv, NEW w \in Wallet, HoldsSnapshot(w)
    PROVE  LET then == request[w].accounts.distributor
           IN  /\ TypeOK /\ Target \in Distributor /\ Exists(Target)
               /\ HasNode(w) /\ tree \in TreeFiles
               /\ LeafOf(w) \in tree /\ LeafOf(w).claimant = w
               /\ LeafOf(w) \in Leaf
               /\ SnapshotIsPast(w)
               /\ ClaimOf(w) \in ClaimStatus
               /\ then.start_ts \in 0 .. MaxI64
               /\ then.end_ts \in 0 .. MaxI64
<1>1. TypeOK /\ Target \in Distributor /\ LedgerInv
  BY ApiAssumption DEF ApiInv, LedgerInv, VestingInv
<1>2. /\ IsUp /\ HasNode(w) /\ SnapshotIsPast(w)
      /\ request[w].accounts \in Snapshot
  BY DEF ApiInv, RequestInv, HoldsSnapshot
<1>3. tree \in TreeFiles /\ Exists(Target)
  BY <1>2 DEF ApiInv, ServerInv
<1>4. LeafOf(w) \in tree /\ LeafOf(w).claimant = w
  BY <1>2 DEF HasNode, LeafOf
<1>5. LeafOf(w) \in Leaf
  BY <1>3, <1>4, ApiAssumption
<1>6. ClaimOf(w) \in ClaimStatus
  <2>1. CASE ClaimWasFound(w)
    BY <1>2, <2>1 DEF ClaimOf, ClaimWasFound, Snapshot
  <2>2. CASE ~ClaimWasFound(w)
    BY <1>5, <2>2, WidthAssumption DEF ClaimOf, ClaimStatus, Leaf, U64
  <2>3. QED
    BY <2>1, <2>2
<1>7. /\ distributor[Target].start_ts \in 0 .. MaxI64
      /\ distributor[Target].end_ts \in 0 .. MaxI64
  BY <1>1, <1>3 DEF LedgerInv, VestingInv, SchedulesHold
<1>8. QED
  BY <1>1, <1>2, <1>3, <1>4, <1>5, <1>6, <1>7 DEF SnapshotIsPast

\* On a host whose clock shows what the chain's does, or more, no checked
\* operation of the handler fails.
LEMMA FreshHostIsOk ==
    ASSUME ApiInv, NEW w \in Wallet, HoldsSnapshot(w),
           NEW now \in Time, clock <= now
    PROVE  ReplyIsOk(w, now)
<1> DEFINE then  == request[w].accounts.distributor
           start == then.start_ts
           end   == then.end_ts
           cs    == ClaimOf(w)
<1>1. /\ TypeOK /\ Target \in Distributor /\ Exists(Target)
      /\ SnapshotIsPast(w)
      /\ cs \in ClaimStatus
      /\ start \in 0 .. MaxI64 /\ end \in 0 .. MaxI64
  BY SnapshotFacts
<1>2. /\ now \in 0 .. MaxI64 /\ now \in I64
      /\ clock \in I64
      /\ start \in I64 /\ end \in I64
  BY <1>1, WordsAreIntegers DEF TypeOK
<1> HIDE DEF start, end, cs
<1>3. UnlockedAmountIsOk(cs, now, start, end)
  BY <1>1, <1>2, UnlockedNeverOverflows
<1>4. cs.locked_amount_withdrawn <= UnlockedAmount(cs, now, start, end)
  <2>1. UnlockedAmount(cs, now, start, end) \in 0 .. cs.locked_amount
    BY <1>1, <1>2, UnlockedIsBounded
  <2>2. cs.locked_amount \in Nat /\ cs.locked_amount_withdrawn \in Nat
    BY <1>1, AmountsAreNatural DEF ClaimStatus
  <2>3. CASE ~ClaimWasFound(w)
    <3>1. cs.locked_amount_withdrawn = 0
      BY <2>3 DEF ClaimOf, cs
    <3>2. QED
      BY <2>1, <2>2, <3>1
  <2>4. CASE ClaimWasFound(w)
    <3> DEFINE onchain == claim_status[Target][w]
    <3>1. /\ HasClaim(Target, w)
          /\ cs.locked_amount = onchain.locked_amount
          /\ cs.locked_amount_withdrawn <= onchain.locked_amount_withdrawn
          /\ start = distributor[Target].start_ts
          /\ end = distributor[Target].end_ts
      BY <1>1, <2>4 DEF SnapshotIsPast, ClaimWasFound, ClaimOf, cs, start, end
    <3>2. onchain \in ClaimStatus
      BY <1>1, <3>1, ExistingAccounts
    <3>3. onchain.locked_amount_withdrawn
            <= UnlockedAmount(onchain, clock, start, end)
      BY <1>1, <3>1 DEF ApiInv, LedgerInv, VestingInv, ClaimsFollowSchedules
    <3>4. UnlockedAmount(onchain, clock, start, end)
            <= UnlockedAmount(onchain, now, start, end)
      BY <1>2, <3>2, UnlockedIsMonotone
    <3>5. UnlockedAmount(onchain, now, start, end)
            = UnlockedAmount(cs, now, start, end)
      BY <3>1, OnlyLockedVests
    <3>6. /\ onchain.locked_amount_withdrawn \in Int
          /\ UnlockedAmount(onchain, clock, start, end) \in Int
          /\ UnlockedAmount(onchain, now, start, end) \in Int
      BY <1>2, <3>2, UnlockedIsBounded, AmountsAreNatural DEF ClaimStatus
    <3> HIDE DEF onchain
    <3>7. QED
      BY <2>2, <3>1, <3>3, <3>4, <3>5, <3>6
  <2>5. QED
    BY <2>3, <2>4
<1>5. QED
  BY <1>3, <1>4 DEF ReplyIsOk, AmountWithdrawableIsOk, cs, start, end

\* The claim that is looked at has the locked amount that the chain has, or
\* would have.
LEMMA GenuineAmount ==
    ASSUME ApiInv, NEW w \in Wallet, HoldsSnapshot(w),
           ClaimWasFound(w) \/ tree = request[w].accounts.distributor.root,
           NEW t
    PROVE  VestedOnChain(w, t)
             = UnlockedAmount(ClaimOf(w), t,
                              request[w].accounts.distributor.start_ts,
                              request[w].accounts.distributor.end_ts)
<1> DEFINE then   == request[w].accounts.distributor
           root   == distributor[Target].root
           locked == IF HasClaim(Target, w)
                       THEN claim_status[Target][w].locked_amount
                       ELSE (CHOOSE leaf \in root : leaf.claimant = w)
                              .amount_locked
<1>1. /\ Target \in Distributor
      /\ HasNode(w) /\ tree \in TreeFiles
      /\ LeafOf(w) \in tree /\ LeafOf(w).claimant = w
      /\ then.root = root
      /\ then.start_ts = distributor[Target].start_ts
      /\ then.end_ts = distributor[Target].end_ts
      /\ SnapshotIsPast(w)
  BY SnapshotFacts DEF SnapshotIsPast
<1>2. locked = ClaimOf(w).locked_amount
  <2>1. CASE ClaimWasFound(w)
    BY <1>1, <2>1 DEF SnapshotIsPast, ClaimWasFound, ClaimOf
  <2>2. CASE ~ClaimWasFound(w)
    <3>1. tree = root /\ ClaimOf(w).locked_amount = LeafOf(w).amount_locked
      BY <1>1, <2>2 DEF ClaimOf
    <3>2. CASE HasClaim(Target, w)
      <4> DEFINE entry == [claimant        |-> w,
                           amount_unlocked |->
                              claim_status[Target][w].unlocked_amount,
                           amount_locked   |->
                              claim_status[Target][w].locked_amount]
      <4>1. entry \in tree
        BY <1>1, <3>1, <3>2 DEF ApiInv, LedgerInv, ClaimsAreListed
      <4>2. entry.claimant = w
        OBVIOUS
      <4>3. entry = LeafOf(w)
        BY <1>1, <4>1, <4>2, ApiAssumption
      <4>4. QED
        BY <3>1, <3>2, <4>3
    <3>3. CASE ~HasClaim(Target, w)
      BY <3>1, <3>3 DEF LeafOf
    <3>4. QED
      BY <3>2, <3>3
  <2>3. QED
    BY <2>1, <2>2
<1>3. VestedOnChain(w, t)
        = UnlockedAmount([locked_amount |-> locked], t,
                         then.start_ts, then.end_ts)
  BY <1>1 DEF VestedOnChain
<1>4. QED
  BY <1>2, <1>3, OnlyLockedVests

\* What the handler adds up has vested by the later of the two clocks.
LEMMA ReportHasVested ==
    ASSUME ApiInv, NEW w \in Wallet, HoldsSnapshot(w), NEW now \in Time,
           ClaimWasFound(w) \/ tree = request[w].accounts.distributor.root
    PROVE  LET then   == request[w].accounts.distributor
               cs     == ClaimOf(w)
               vested == VestedOnChain(w, Later(now, clock))
           IN  /\ cs.locked_amount_withdrawn \in Nat
               /\ vested \in Nat
               /\ cs.locked_amount_withdrawn <= vested
               /\ UnlockedAmount(cs, now, then.start_ts, then.end_ts) \in Nat
               /\ UnlockedAmount(cs, now, then.start_ts, then.end_ts) <= vested
<1> DEFINE then  == request[w].accounts.distributor
           start == then.start_ts
           end   == then.end_ts
           cs    == ClaimOf(w)
           later == Later(now, clock)
<1>1. /\ TypeOK
      /\ cs \in ClaimStatus
      /\ start \in 0 .. MaxI64 /\ end \in 0 .. MaxI64
  BY SnapshotFacts
<1>2. /\ clock \in Time
      /\ clock \in I64 /\ now \in I64 /\ start \in I64 /\ end \in I64
      /\ clock \in Int /\ now \in Int
  BY <1>1, WordsAreIntegers, InstantsAreIntegers DEF TypeOK
<1>3. /\ later \in Time /\ later \in I64
      /\ clock <= later /\ now <= later
  BY <1>2 DEF Later
<1>4. VestedOnChain(w, later) = UnlockedAmount(cs, later, start, end)
  BY GenuineAmount
<1> HIDE DEF start, end, later
<1>5. UnlockedAmount(cs, now, start, end) <= UnlockedAmount(cs, later, start, end)
  BY <1>1, <1>2, <1>3, UnlockedIsMonotone
<1>6. /\ UnlockedAmount(cs, now, start, end) \in Nat
      /\ UnlockedAmount(cs, later, start, end) \in Nat
      /\ cs.locked_amount_withdrawn \in Nat
  BY <1>1, <1>2, <1>3, UnlockedIsBounded, AmountsAreNatural DEF ClaimStatus
<1>7. cs.locked_amount_withdrawn <= UnlockedAmount(cs, later, start, end)
  <2>1. CASE ClaimWasFound(w)
    <3> DEFINE onchain == claim_status[Target][w]
    <3>1. /\ Target \in Distributor
          /\ HasClaim(Target, w)
          /\ cs.locked_amount = onchain.locked_amount
          /\ cs.locked_amount_withdrawn <= onchain.locked_amount_withdrawn
          /\ start = distributor[Target].start_ts
          /\ end = distributor[Target].end_ts
      BY <2>1, SnapshotFacts
      DEF SnapshotIsPast, ClaimWasFound, ClaimOf, start, end
    <3>2. onchain \in ClaimStatus
      BY <1>1, <3>1, ExistingAccounts
    <3>3. onchain.locked_amount_withdrawn
            <= UnlockedAmount(onchain, clock, start, end)
      BY <3>1 DEF ApiInv, LedgerInv, VestingInv, ClaimsFollowSchedules
    <3>4. UnlockedAmount(onchain, clock, start, end)
            <= UnlockedAmount(onchain, later, start, end)
      BY <1>2, <1>3, <3>2, UnlockedIsMonotone
    <3>5. UnlockedAmount(onchain, later, start, end)
            = UnlockedAmount(cs, later, start, end)
      BY <3>1, OnlyLockedVests
    <3>6. /\ onchain.locked_amount_withdrawn \in Int
          /\ UnlockedAmount(onchain, clock, start, end) \in Int
          /\ UnlockedAmount(onchain, later, start, end) \in Int
      BY <1>2, <1>3, <3>2, UnlockedIsBounded, AmountsAreNatural DEF ClaimStatus
    <3> HIDE DEF onchain, cs
    <3>7. QED
      BY <1>6, <3>1, <3>3, <3>4, <3>5, <3>6
  <2>2. CASE ~ClaimWasFound(w)
    BY <1>6, <2>2 DEF ClaimOf
  <2>3. QED
    BY <2>1, <2>2
<1>8. QED
  BY <1>4, <1>5, <1>6, <1>7 DEF start, end, later

------------------------------------------------------------------------------
(* The steps of the server.                                                *)

\* One client's request changes; the others wait, and nobody is answered.
LEMMA RequestChanges ==
    ASSUME ApiInv, UNCHANGED <<vars, tree, reply>>, NEW w \in Wallet,
           NEW new \in Request \cup {NoAccount},
           request' = [request EXCEPT ![w] = new], RequestInv(w)'
    PROVE  ApiInv'
<1>1. /\ LedgerInv /\ ServerInv /\ [Next]_vars
      /\ UNCHANGED vars /\ tree' = tree /\ reply' = reply
  BY DEF ApiInv
<1>2. /\ request'[w] = new
      /\ request' \in [Wallet -> Request \cup {NoAccount}]
      /\ \A v \in Wallet : v # w => request'[v] = request[v]
  BY <1>1 DEF ServerInv
<1>3. LedgerInv'
  BY <1>1, LedgerStep
<1>4. \A v \in Wallet : RequestInv(v)'
  BY <1>1, <1>2, RequestsWait
<1>5. \A v \in Wallet : ReplyInv(v)'
  BY <1>1, RepliesStay
<1>6. ServerInv'
  BY <1>1, <1>2 DEF ServerInv, IsUp, Exists, vars
<1>7. QED
  BY <1>3, <1>4, <1>5, <1>6 DEF ApiInv

LEMMA ErrorInv ==
    ASSUME ApiInv, NEW w \in Wallet, EndWithError(w) PROVE ApiInv'
<1>1. /\ request' = [request EXCEPT ![w] = NoAccount]
      /\ UNCHANGED <<vars, tree, reply>>
  BY DEF EndWithError
<1>2. request'[w] = NoAccount
  BY <1>1 DEF ApiInv, ServerInv
<1>3. RequestInv(w)'
  BY <1>2 DEF RequestInv, HoldsSnapshot
<1>4. QED
  BY <1>1, <1>3, RequestChanges

LEMMA SendInv ==
    ASSUME ApiInv, NEW w \in Wallet, NEW path \in Path, Send(w, path)
    PROVE  ApiInv'
<1> DEFINE new == [path |-> path, at |-> "buffer", accounts |-> NoAccount]
<1>1. new \in Request
  BY DEF Request
<1>2. /\ request' = [request EXCEPT ![w] = new]
      /\ UNCHANGED <<vars, tree, reply>>
      /\ IsUp
  BY DEF Send
<1>3. request'[w] = new
  BY <1>2 DEF ApiInv, ServerInv
<1>4. RequestInv(w)'
  BY <1>2, <1>3 DEF RequestInv, HoldsSnapshot, IsUp
<1>5. QED
  BY <1>1, <1>2, <1>4, RequestChanges

LEMMA BeginInv == ASSUME ApiInv, NEW w \in Wallet, Begin(w) PROVE ApiInv'
<1> DEFINE new == [request[w] EXCEPT !.at = "handler"]
<1>1. request[w] \in Request /\ RequestInv(w) /\ request[w] # NoAccount
  BY DEF ApiInv, ServerInv, Begin, IsAt
<1>2. new \in Request /\ new.at = "handler"
  BY <1>1 DEF Request
<1>3. /\ request' = [request EXCEPT ![w] = new]
      /\ UNCHANGED <<vars, tree, reply>>
  BY DEF Begin
<1>4. request'[w] = new
  BY <1>3 DEF ApiInv, ServerInv
<1>5. RequestInv(w)'
  BY <1>1, <1>2, <1>3, <1>4 DEF RequestInv, HoldsSnapshot, IsUp
<1>6. QED
  BY <1>2, <1>3, <1>5, RequestChanges

\* The snapshot is the chain as it is, and newer than the last answer.
LEMMA ReadInv == ASSUME ApiInv, NEW w \in Wallet, ReadAccounts(w) PROVE ApiInv'
<1> DEFINE taken == [distributor  |-> distributor[Target],
                     claim_status |-> claim_status[Target][w]]
           new   == [request[w] EXCEPT !.at = "read", !.accounts = taken]
<1>1. /\ request[w] \in Request /\ RequestInv(w) /\ ReplyInv(w)
      /\ request[w] # NoAccount
      /\ request[w].path = "status" /\ HasNode(w)
  BY DEF ApiInv, ServerInv, ReadAccounts, IsAt
<1>2. /\ Target \in Distributor /\ TypeOK /\ IsUp /\ Exists(Target)
  BY <1>1, ApiAssumption
  DEF ApiInv, LedgerInv, VestingInv, ServerInv, RequestInv
<1>3. /\ distributor[Target] \in DistributorAccount
      /\ claim_status[Target][w] \in ClaimStatus \cup {NoAccount}
  BY <1>2, ExistingAccounts DEF TypeOK
<1>4. /\ taken \in Snapshot
      /\ taken.distributor = distributor[Target]
      /\ taken.claim_status = claim_status[Target][w]
  BY <1>3 DEF Snapshot
<1> HIDE DEF taken
<1>5. new \in Request /\ new.at = "read" /\ new.accounts = taken
      /\ new.path = "status"
  BY <1>1, <1>4 DEF Request
<1>6. /\ request' = [request EXCEPT ![w] = new]
      /\ UNCHANGED <<vars, tree, reply>>
  <2>1. request' = [request EXCEPT ![w].at = "read", ![w].accounts = taken]
    BY DEF ReadAccounts, taken
  <2>2. request \in [Wallet -> Request \cup {NoAccount}]
    BY DEF ApiInv, ServerInv
  <2>3. QED
    BY <1>1, <2>1, <2>2 DEF ReadAccounts
<1>7. request'[w] = new
  BY <1>6 DEF ApiInv, ServerInv
<1> HIDE DEF new
<1>8. SnapshotIsPast(w)'
  <2>1. ClawedBack(Target)' <=> ClawedBack(Target)
    BY <1>6 DEF vars, ClawedBack, Exists
  <2>2. distributor[Target].clawed_back => ClawedBack(Target)
    BY <1>2 DEF ClawedBack
  <2>3. claim_status[Target][w] # NoAccount =>
          /\ HasClaim(Target, w)'
          /\ claim_status[Target][w].locked_amount_withdrawn \in Int
    BY <1>3, <1>6, AmountsAreNatural DEF vars, HasClaim, ClaimStatus
  <2>4. distributor' = distributor /\ claim_status' = claim_status
    BY <1>6 DEF vars
  <2>5. QED
    BY <1>4, <1>5, <1>7, <2>1, <2>2, <2>3, <2>4 DEF SnapshotIsPast
<1>9. SnapshotIsNews(w)'
  <2>1. Answered(w, "status")' <=> Answered(w, "status")
    BY <1>6 DEF Answered
  <2>2. Answered(w, "status") =>
          /\ reply[w]["status"].status = "Claimed" => HasClaim(Target, w)
          /\ reply[w]["status"].status = "Expired" => ClawedBack(Target)
    BY <1>1 DEF ReplyInv, TrueStatus
  <2>3. /\ HasClaim(Target, w) => taken.claim_status # NoAccount
        /\ ClawedBack(Target) => taken.distributor.clawed_back
    BY <1>4 DEF HasClaim, ClawedBack
  <2>4. QED
    BY <1>5, <1>6, <1>7, <2>1, <2>2, <2>3 DEF SnapshotIsNews, ClaimWasFound
<1>10. RequestInv(w)'
  BY <1>1, <1>2, <1>4, <1>5, <1>6, <1>7, <1>8, <1>9
  DEF RequestInv, HoldsSnapshot, HasNode, IsUp
<1>11. QED
  BY <1>5, <1>6, <1>10, RequestChanges

\* A client gets an answer that is true.
LEMMA AnswerInv ==
    ASSUME ApiInv, NEW w \in Wallet, request[w] # NoAccount, NEW answer,
           Answer(w, answer), ReplyInv(w)'
    PROVE  ApiInv'
<1> DEFINE path == request[w].path
<1>1. /\ LedgerInv /\ ServerInv /\ [Next]_vars
      /\ UNCHANGED vars /\ tree' = tree
      /\ request[w] \in Request
  BY DEF ApiInv, ServerInv, Answer
<1>2. /\ request' \in [Wallet -> Request \cup {NoAccount}]
      /\ request'[w] = NoAccount
      /\ \A v \in Wallet : v # w => request'[v] = request[v]
  BY <1>1 DEF ServerInv, Answer
<1>3. /\ reply' = [v \in Wallet |-> [p \in Path |-> reply'[v][p]]]
      /\ \A v \in Wallet : v # w => reply'[v] = reply[v]
  <2>1. reply' = [reply EXCEPT ![w] = [reply[w] EXCEPT ![path] = answer]]
    BY DEF Answer
  <2>2. DOMAIN reply = Wallet /\ \A v \in Wallet : DOMAIN reply[v] = Path
    BY <1>1 DEF ServerInv
  <2>3. /\ DOMAIN reply' = Wallet
        /\ \A v \in Wallet : v # w => reply'[v] = reply[v]
        /\ reply'[w] = [reply[w] EXCEPT ![path] = answer]
    BY <2>1, <2>2
  <2>4. reply = [v \in Wallet |-> [p \in Path |-> reply[v][p]]]
    BY <1>1 DEF ServerInv
  <2>5. reply' = [v \in Wallet |-> [p \in Path |-> reply'[v][p]]]
    BY <2>1, <2>4
  <2>6. QED
    BY <2>3, <2>5
<1>4. LedgerInv'
  BY <1>1, LedgerStep
<1>5. ASSUME NEW v \in Wallet PROVE RequestInv(v)' /\ ReplyInv(v)'
  <2>1. CASE v = w
    BY <1>2, <2>1 DEF RequestInv, HoldsSnapshot
  <2>2. CASE v # w
    BY <1>1, <1>2, <1>3, <2>2, RequestsWait, RepliesStay
  <2>3. QED
    BY <2>1, <2>2
<1>6. ServerInv'
  BY <1>1, <1>2, <1>3 DEF ServerInv, IsUp, Exists, vars
<1>7. QED
  BY <1>4, <1>5, <1>6 DEF ApiInv

\* What an answer leaves as it was.
LEMMA AnswerFacts ==
    ASSUME ApiInv, NEW w \in Wallet, NEW path \in Path, request[w].path = path,
           NEW answer, Answer(w, answer)
    PROVE  /\ [Next]_vars /\ UNCHANGED vars
           /\ reply'[w][path] = answer
           /\ \A p \in Path : p # path => reply'[w][p] = reply[w][p]
<1>1. reply' = [reply EXCEPT ![w] = [reply[w] EXCEPT ![path] = answer]]
  BY DEF Answer
<1>2. DOMAIN reply = Wallet /\ DOMAIN reply[w] = Path
  <2>1. reply = [v \in Wallet |-> [p \in Path |-> reply[v][p]]]
    BY DEF ApiInv, ServerInv
  <2>2. QED
    BY <2>1
<1>3. QED
  BY <1>1, <1>2 DEF Answer

LEMMA AnswerProofInv ==
    ASSUME ApiInv, NEW w \in Wallet, AnswerProof(w) PROVE ApiInv'
<1> DEFINE answer == [leaf |-> LeafOf(w), proof |-> tree]
<1>1. /\ request[w] # NoAccount /\ request[w].path = "proof"
      /\ Answer(w, answer)
      /\ LeafOf(w) \in tree
  BY DEF AnswerProof, IsAt, HasNode, LeafOf
<1>2. answer.leaf \in answer.proof
  BY <1>1
<1> HIDE DEF answer
<1>3. /\ [Next]_vars
      /\ reply'[w]["proof"] = answer
      /\ reply'[w]["status"] = reply[w]["status"]
      /\ reply'[w]["distributor"] = reply[w]["distributor"]
  BY <1>1, AnswerFacts DEF Path
<1>4. TrueProof(w)'
  BY <1>2, <1>3 DEF TrueProof
<1>5. ReplyInv(w)'
  BY <1>3, <1>4, RepliesStay DEF ReplyInv
<1>6. QED
  BY <1>1, <1>5, AnswerInv

LEMMA AnswerDistributorInv ==
    ASSUME ApiInv, NEW w \in Wallet, AnswerDistributor(w) PROVE ApiInv'
<1> DEFINE answer == [root |-> distributor[Target].root]
<1>1. /\ request[w] # NoAccount /\ request[w].path = "distributor"
      /\ Answer(w, answer)
  BY DEF AnswerDistributor, IsAt
<1>2. answer.root = distributor[Target].root
  OBVIOUS
<1> HIDE DEF answer
<1>3. /\ [Next]_vars /\ UNCHANGED vars
      /\ reply'[w]["distributor"] = answer
      /\ reply'[w]["status"] = reply[w]["status"]
      /\ reply'[w]["proof"] = reply[w]["proof"]
  BY <1>1, AnswerFacts DEF Path
<1>4. Exists(Target)
  BY <1>1 DEF ApiInv, ServerInv, RequestInv
<1>5. TrueRoot(w)'
  BY <1>2, <1>3, <1>4 DEF TrueRoot, Exists, vars
<1>6. ReplyInv(w)'
  BY <1>3, <1>5, RepliesStay DEF ReplyInv
<1>7. QED
  BY <1>1, <1>6, AnswerInv

\* What get_claim_status answers, and what makes it so.
LEMMA StatusFacts ==
    ASSUME ApiInv, NEW w \in Wallet, NEW now \in HostClock, AnswerStatus(w, now)
    PROVE  LET then   == request[w].accounts.distributor
               answer == reply'[w]["status"]
           IN  /\ HoldsSnapshot(w) /\ request[w].path = "status"
               /\ [Next]_vars /\ UNCHANGED vars
               /\ Answer(w, answer)
               /\ reply'[w]["proof"] = reply[w]["proof"]
               /\ reply'[w]["distributor"] = reply[w]["distributor"]
               /\ answer.status
                    = IF ReplyIsOk(w, now) THEN StatusOf(w) ELSE "panic"
               /\ answer.withdrawable
                    = IF ReplyIsOk(w, now) /\ StatusOf(w) # "Expired"
                        THEN AmountWithdrawable(ClaimOf(w), now,
                                                then.start_ts, then.end_ts)
                        ELSE 0
               /\ answer.withdrawn = ClaimOf(w).locked_amount_withdrawn
               /\ answer.genuine <=> (ClaimWasFound(w) \/ tree = then.root)
               /\ answer.genuine =>
                    answer.vested = VestedOnChain(w, Later(now, clock))
               /\ answer.behind <=> now < clock
<1> DEFINE then   == request[w].accounts.distributor
           ok     == ReplyIsOk(w, now)
           genuine == ClaimWasFound(w) \/ tree = then.root
           answer ==
             [status       |-> IF ok THEN StatusOf(w) ELSE "panic",
              withdrawable |->
                IF ok /\ StatusOf(w) # "Expired"
                  THEN AmountWithdrawable(ClaimOf(w), now,
                                          then.start_ts, then.end_ts)
                  ELSE 0,
              withdrawn    |-> ClaimOf(w).locked_amount_withdrawn,
              genuine      |-> genuine,
              vested       |-> IF genuine
                                 THEN VestedOnChain(w, Later(now, clock)) ELSE 0,
              behind       |-> now < clock]
<1>1. /\ IsAt(w, "status", "read")
      /\ Answer(w, answer)
  BY DEF AnswerStatus
<1>2. /\ HoldsSnapshot(w) /\ request[w].path = "status"
  BY <1>1 DEF IsAt, HoldsSnapshot
<1>3. /\ [Next]_vars /\ UNCHANGED vars
      /\ reply'[w]["status"] = answer
      /\ reply'[w]["proof"] = reply[w]["proof"]
      /\ reply'[w]["distributor"] = reply[w]["distributor"]
  <2> HIDE DEF answer
  <2>1. QED
    BY <1>1, <1>2, AnswerFacts DEF Path
<1>4. /\ answer.status = IF ok THEN StatusOf(w) ELSE "panic"
      /\ answer.withdrawable
           = IF ok /\ StatusOf(w) # "Expired"
               THEN AmountWithdrawable(ClaimOf(w), now,
                                       then.start_ts, then.end_ts)
               ELSE 0
      /\ answer.withdrawn = ClaimOf(w).locked_amount_withdrawn
  OBVIOUS
<1>5. /\ answer.genuine = genuine
      /\ answer.vested
           = IF genuine THEN VestedOnChain(w, Later(now, clock)) ELSE 0
      /\ answer.behind = (now < clock)
  OBVIOUS
<1>6. QED
  <2> HIDE DEF answer
  <2>1. QED
    BY <1>1, <1>2, <1>3, <1>4, <1>5

LEMMA AnswerStatusInv ==
    ASSUME ApiInv, NEW w \in Wallet, NEW now \in HostClock, AnswerStatus(w, now)
    PROVE  ApiInv'
<1> DEFINE then   == request[w].accounts.distributor
           answer == reply'[w]["status"]
           ok     == ReplyIsOk(w, now)
<1>1. /\ HoldsSnapshot(w) /\ [Next]_vars /\ UNCHANGED vars
      /\ request[w] # NoAccount
      /\ Answer(w, answer)
      /\ now \in Time
  BY StatusFacts DEF HoldsSnapshot, HostClock
<1>2. /\ HasClaim(Target, w)' <=> HasClaim(Target, w)
      /\ ClawedBack(Target)' <=> ClawedBack(Target)
  BY <1>1 DEF vars, HasClaim, ClawedBack, Exists
<1>3. answer.status = "Claimed" => HasClaim(Target, w)'
  <2>1. answer.status = "Claimed" => ClaimWasFound(w)
    BY StatusFacts DEF StatusOf
  <2>2. SnapshotIsPast(w)
    BY <1>1, SnapshotFacts
  <2>3. QED
    BY <1>2, <2>1, <2>2 DEF SnapshotIsPast, ClaimWasFound
<1>4. answer.status = "Expired" => ClawedBack(Target)'
  <2>1. answer.status = "Expired" => then.clawed_back
    BY StatusFacts DEF StatusOf
  <2>2. SnapshotIsPast(w)
    BY <1>1, SnapshotFacts
  <2>3. QED
    BY <1>2, <2>1, <2>2 DEF SnapshotIsPast
<1>5. answer.status = "panic" => answer.behind
  <2>1. answer.status = "panic" => ~ok
    BY StatusFacts DEF StatusOf
  <2>2. clock \in Int /\ now \in Int
    <3>1. TypeOK
      BY <1>1, SnapshotFacts
    <3>2. QED
      BY <1>1, <3>1, WordsAreIntegers, InstantsAreIntegers DEF TypeOK
  <2>3. ~ok => now < clock
    BY <1>1, <2>2, FreshHostIsOk
  <2>4. answer.behind <=> now < clock
    BY StatusFacts
  <2>5. QED
    BY <2>1, <2>3, <2>4
<1>6. answer.genuine => answer.withdrawn + answer.withdrawable <= answer.vested
  <2> SUFFICES ASSUME answer.genuine
               PROVE  answer.withdrawn + answer.withdrawable <= answer.vested
    OBVIOUS
  <2> DEFINE cs       == ClaimOf(w)
             unlocked == UnlockedAmount(cs, now, then.start_ts, then.end_ts)
             vested   == VestedOnChain(w, Later(now, clock))
  <2>1. ClaimWasFound(w) \/ tree = then.root
    BY StatusFacts
  <2>2. /\ cs.locked_amount_withdrawn \in Nat /\ unlocked \in Nat
        /\ vested \in Nat
        /\ cs.locked_amount_withdrawn <= vested
        /\ unlocked <= vested
    BY <1>1, <2>1, ReportHasVested
  <2>3. /\ answer.withdrawn = cs.locked_amount_withdrawn
        /\ answer.vested = vested
    BY StatusFacts
  <2>4. \/ answer.withdrawable = 0
        \/ answer.withdrawable = unlocked - cs.locked_amount_withdrawn
    BY StatusFacts DEF AmountWithdrawable
  <2> HIDE DEF cs, unlocked, vested, answer
  <2>5. QED
    BY <2>2, <2>3, <2>4
<1>7. TrueStatus(w)'
  BY <1>3, <1>4, <1>5, <1>6 DEF TrueStatus
<1>8. /\ reply'[w]["proof"] = reply[w]["proof"]
      /\ reply'[w]["distributor"] = reply[w]["distributor"]
  BY StatusFacts
<1>9. ReplyInv(w)'
  BY <1>1, <1>7, <1>8, RepliesStay DEF ReplyInv
<1> HIDE DEF answer
<1>10. QED
  BY <1>1, <1>9, AnswerInv

LEMMA StartInv == ASSUME ApiInv, StartServer PROVE ApiInv'
<1>1. /\ LedgerInv /\ ServerInv /\ [Next]_vars /\ UNCHANGED vars
      /\ request' = request /\ reply' = reply
      /\ tree' \in TreeFiles /\ Exists(Target) /\ ~IsUp
  BY DEF ApiInv, StartServer
<1>2. LedgerInv'
  BY <1>1, LedgerStep
<1>3. ASSUME NEW w \in Wallet PROVE RequestInv(w)' /\ ReplyInv(w)'
  <2>1. request'[w] = NoAccount
    BY <1>1 DEF ApiInv, RequestInv
  <2>2. RequestInv(w)'
    BY <2>1 DEF RequestInv, HoldsSnapshot
  <2>3. QED
    BY <1>1, <2>2, RepliesStay
<1>4. ServerInv'
  BY <1>1 DEF ServerInv, Exists, vars
<1>5. QED
  BY <1>2, <1>3, <1>4 DEF ApiInv

LEMMA StopInv == ASSUME ApiInv, StopServer PROVE ApiInv'
<1>1. /\ LedgerInv /\ ServerInv /\ [Next]_vars /\ UNCHANGED vars
      /\ request' = [w \in Wallet |-> NoAccount] /\ reply' = reply
      /\ tree' = NoAccount
  BY DEF ApiInv, StopServer
<1>2. LedgerInv'
  BY <1>1, LedgerStep
<1>3. ASSUME NEW w \in Wallet PROVE RequestInv(w)' /\ ReplyInv(w)'
  <2>1. request'[w] = NoAccount
    BY <1>1
  <2>2. RequestInv(w)'
    BY <2>1 DEF RequestInv, HoldsSnapshot
  <2>3. QED
    BY <1>1, <2>2, RepliesStay
<1>4. ServerInv'
  BY <1>1 DEF ServerInv, IsUp
<1>5. QED
  BY <1>2, <1>3, <1>4 DEF ApiInv

\* The chain moves while the server does not.
LEMMA ChainInv ==
    ASSUME ApiInv, [Next]_vars, UNCHANGED <<tree, request, reply>>
    PROVE  ApiInv'
<1>1. LedgerInv /\ ServerInv
  BY DEF ApiInv
<1>2. LedgerInv' /\ (Exists(Target) => Exists(Target)')
  BY <1>1, LedgerStep
<1>3. \A w \in Wallet : RequestInv(w)' /\ ReplyInv(w)'
  BY RequestsWait, RepliesStay
<1>4. ServerInv'
  BY <1>1, <1>2 DEF ServerInv, IsUp
<1>5. QED
  BY <1>2, <1>3, <1>4 DEF ApiInv

LEMMA InitApi == ApiInit => ApiInv
<1> SUFFICES ASSUME ApiInit PROVE ApiInv
  OBVIOUS
<1>1. LedgerInv
  BY InitLedger DEF ApiInit
<1>2. ServerInv
  BY DEF ApiInit, ServerInv, IsUp
<1>3. ASSUME NEW w \in Wallet PROVE RequestInv(w) /\ ReplyInv(w)
  <2>1. request[w] = NoAccount /\ \A path \in Path : ~Answered(w, path)
    BY DEF ApiInit, Answered
  <2>2. RequestInv(w)
    BY <2>1 DEF RequestInv, HoldsSnapshot
  <2>3. ReplyInv(w)
    BY <2>1 DEF ReplyInv, TrueStatus, TrueProof, TrueRoot, Path
  <2>4. QED
    BY <2>2, <2>3
<1>4. QED
  BY <1>1, <1>2, <1>3 DEF ApiInv

LEMMA StepApi == ASSUME ApiInv, [ApiNext]_apiVars PROVE ApiInv'
<1>1. CASE UNCHANGED apiVars
  BY <1>1, ChainInv DEF apiVars
<1>2. CASE Next /\ UNCHANGED <<tree, request, reply>>
  BY <1>2, ChainInv
<1>3. CASE StartServer \/ StopServer
  BY <1>3, StartInv, StopInv
<1>4. CASE \E w \in Wallet, path \in Path : Send(w, path)
  BY <1>4, SendInv
<1>5. ASSUME NEW w \in Wallet,
             \/ Begin(w) \/ Timeout(w) \/ RpcFails(w) \/ NotFound(w)
             \/ AnswerProof(w) \/ AnswerDistributor(w) \/ ReadAccounts(w)
      PROVE  ApiInv'
  <2>1. Timeout(w) \/ RpcFails(w) \/ NotFound(w) => EndWithError(w)
    BY DEF Timeout, RpcFails, NotFound
  <2>2. QED
    BY <1>5, <2>1, ErrorInv, BeginInv, ReadInv, AnswerProofInv,
       AnswerDistributorInv
<1>6. CASE \E w \in Wallet, now \in HostClock : AnswerStatus(w, now)
  BY <1>6, AnswerStatusInv
<1>7. QED
  BY <1>1, <1>2, <1>3, <1>4, <1>5, <1>6, ApiCases

LEMMA ApiInvariant == ApiSpec => []ApiInv
<1>1. ApiInv /\ [ApiNext]_apiVars => ApiInv'
  BY StepApi
<1>2. QED
  BY InitApi, <1>1, PTL DEF ApiSpec

------------------------------------------------------------------------------
(* The theorems.                                                           *)

\* A handler goes on with accounts only that the chain had when it asked, and no
\* request outlives the process it was sent to.
THEOREM ApiTypeCorrect == ApiSpec => []ApiTypeOK
BY ApiInvariant, ApiTypes, PTL

\* What /status counts as withdrawn and as withdrawable has vested by the later
\* of the chain's clock and the host's, on every schedule and at every delay
\* between the read of the accounts and that of the clock.
THEOREM ReportCorrect == ApiSpec => []ReportedHasVested
<1>1. ApiInv => ReportedHasVested
  BY DEF ApiInv, ReplyInv, TrueStatus, ReportedHasVested
<1>2. QED
  BY <1>1, ApiInvariant, PTL

\* The unwrap of get_claim_status can fail on no host whose clock shows as much
\* as the chain's.
THEOREM PanicsCorrect == ApiSpec => []PanicsOnlyBehindTheChain
<1>1. ApiInv => PanicsOnlyBehindTheChain
  BY DEF ApiInv, ReplyInv, TrueStatus, PanicsOnlyBehindTheChain
<1>2. QED
  BY <1>1, ApiInvariant, PTL

\* A client that compares the tree a proof is from with the root it was answered
\* knows whether the chain accepts the proof.
THEOREM ProofCheckCorrect == ApiSpec => []ClientsCanCheckProofs
<1>1. ASSUME ApiInv PROVE ClientsCanCheckProofs
  <2> SUFFICES ASSUME NEW w \in Wallet,
                      Answered(w, "proof"), Answered(w, "distributor")
               PROVE  reply[w]["proof"].proof = reply[w]["distributor"].root
                        <=> /\ reply[w]["proof"].proof
                                 = distributor[Target].root
                            /\ Verify(distributor[Target].root,
                                      reply[w]["proof"].leaf)
    BY DEF ClientsCanCheckProofs
  <2>1. TrueProof(w) /\ TrueRoot(w)
    BY <1>1 DEF ApiInv, ReplyInv
  <2>2. QED
    BY <2>1 DEF TrueProof, TrueRoot, Verify
<1>2. QED
  BY <1>1, ApiInvariant, PTL

\* Nobody but get_status answers on its path.
LEMMA OnlyStatusAnswers ==
    ASSUME ApiInv, [ApiNext]_apiVars, NEW w \in Wallet
    PROVE  \/ reply'[w]["status"] = reply[w]["status"]
           \/ \E now \in HostClock : AnswerStatus(w, now)
<1>1. ASSUME NEW v \in Wallet, NEW answer, Answer(v, answer),
             v # w \/ request[v].path # "status"
      PROVE  reply'[w]["status"] = reply[w]["status"]
  <2>1. reply' = [reply EXCEPT ![v] = [reply[v] EXCEPT ![request[v].path] = answer]]
    BY <1>1 DEF Answer
  <2>2. DOMAIN reply = Wallet /\ DOMAIN reply[w] = Path
    <3>1. reply = [u \in Wallet |-> [p \in Path |-> reply[u][p]]]
      BY DEF ApiInv, ServerInv
    <3>2. QED
      BY <3>1
  <2>3. CASE v # w
    BY <2>1, <2>2, <2>3
  <2>4. CASE v = w
    BY <1>1, <2>1, <2>2, <2>4 DEF Path
  <2>5. QED
    BY <2>3, <2>4
<1>2. UNCHANGED reply => reply'[w]["status"] = reply[w]["status"]
  OBVIOUS
<1>3. CASE UNCHANGED apiVars
  BY <1>2, <1>3 DEF apiVars
<1>4. CASE Next /\ UNCHANGED <<tree, request, reply>>
  BY <1>2, <1>4
<1>5. CASE StartServer \/ StopServer
  BY <1>2, <1>5 DEF StartServer, StopServer
<1>6. CASE \E v \in Wallet, path \in Path : Send(v, path)
  BY <1>2, <1>6 DEF Send
<1>7. ASSUME NEW v \in Wallet,
             \/ Begin(v) \/ Timeout(v) \/ RpcFails(v) \/ NotFound(v)
             \/ AnswerProof(v) \/ AnswerDistributor(v) \/ ReadAccounts(v)
      PROVE  reply'[w]["status"] = reply[w]["status"]
  <2>1. CASE Timeout(v) \/ RpcFails(v) \/ NotFound(v)
    BY <1>2, <2>1 DEF Timeout, RpcFails, NotFound, EndWithError
  <2>2. CASE Begin(v) \/ ReadAccounts(v)
    BY <1>2, <2>2 DEF Begin, ReadAccounts
  <2>3. CASE AnswerProof(v)
    BY <1>1, <2>3 DEF AnswerProof, IsAt
  <2>4. CASE AnswerDistributor(v)
    BY <1>1, <2>4 DEF AnswerDistributor, IsAt
  <2>5. QED
    BY <1>7, <2>1, <2>2, <2>3, <2>4
<1>8. ASSUME NEW v \in Wallet, NEW now \in HostClock, AnswerStatus(v, now)
      PROVE  \/ v = w
             \/ reply'[w]["status"] = reply[w]["status"]
  BY <1>1, <1>8 DEF AnswerStatus
<1>9. QED
  BY <1>3, <1>4, <1>5, <1>6, <1>7, <1>8, ApiCases

\* The last answer is not contradicted by the next one.
LEMMA StatusAdvances ==
    ASSUME ApiInv, [ApiNext]_apiVars, NEW w \in Wallet, Answered(w, "status")
    PROVE  LET status  == reply[w]["status"].status
               status_ == reply'[w]["status"].status
           IN  /\ status = "Claimed" => status_ # "Unclaimed"
               /\ status = "Expired" => status_ = "Expired"
<1> DEFINE status  == reply[w]["status"].status
           status_ == reply'[w]["status"].status
<1>1. CASE reply'[w]["status"] = reply[w]["status"]
  BY <1>1
<1>2. ASSUME NEW now \in HostClock, AnswerStatus(w, now)
      PROVE  /\ status = "Claimed" => status_ # "Unclaimed"
             /\ status = "Expired" => status_ = "Expired"
  <2>1. /\ HoldsSnapshot(w)
        /\ status_ = IF ReplyIsOk(w, now) THEN StatusOf(w) ELSE "panic"
    BY <1>2, StatusFacts
  <2>2. SnapshotIsNews(w)
    BY <2>1 DEF ApiInv, RequestInv
  <2>3. status = "Claimed" => StatusOf(w) # "Unclaimed"
    BY <2>2 DEF SnapshotIsNews, StatusOf
  <2>4. status = "Expired" => StatusOf(w) = "Expired" /\ ReplyIsOk(w, now)
    BY <2>2 DEF SnapshotIsNews, StatusOf, ReplyIsOk
  <2>5. QED
    BY <2>1, <2>3, <2>4
<1>3. \/ reply'[w]["status"] = reply[w]["status"]
      \/ \E now \in HostClock : AnswerStatus(w, now)
  BY OnlyStatusAnswers
<1>4. QED
  BY <1>1, <1>2, <1>3

\* A user who is told Claimed is not told Unclaimed later, and Expired is the
\* last word, although answers are made from snapshots taken earlier.
THEOREM StatusCorrect == ApiSpec => StatusNeverGoesBack
<1>1. ApiInv /\ [ApiNext]_apiVars =>
        [\A w \in Wallet : Answered(w, "status") =>
          LET status == reply[w]["status"].status
          IN  /\ status = "Claimed" => reply'[w]["status"].status # "Unclaimed"
              /\ status = "Expired" => reply'[w]["status"].status = "Expired"
        ]_apiVars
  BY StatusAdvances
<1>2. QED
  BY <1>1, ApiInvariant, PTL DEF ApiSpec, StatusNeverGoesBack

===============================================================================
