------------------------------ MODULE ApiServer ------------------------------
(***************************************************************************)
(* The API server (api/src): it loads a tree file when it starts, and      *)
(* answers /proof from that tree, /distributor from an account of the      *)
(* chain, and /status from that tree, a snapshot of two accounts and the   *)
(* clock of its own host.                                                  *)
(*                                                                         *)
(* A request waits in the buffer of the middleware, then in its handler    *)
(* for the RPC node, and fails at any of several points: whatever happens  *)
(* on the chain may happen in between.  Clients keep the last answer they  *)
(* got on each path.  One that is told of an error keeps what it had.      *)
(***************************************************************************)
EXTENDS MerkleDistributor

CONSTANTS
    Target,         \* the distributor the server was started for
    TreeFiles,      \* the trees its --merkle-tree-path may lead to
    enable_proof_endpoint,
    MaxSkew         \* the most the host's clock is off the chain's (a bound)

ASSUME ApiAssumption ==
    /\ Target \in Distributor
    /\ MaxSkew \in Nat
    /\ enable_proof_endpoint \in BOOLEAN
    /\ \A file \in TreeFiles :
        /\ file \subseteq Leaf
        /\ \A l1, l2 \in file : l1.claimant = l2.claimant => l1 = l2

VARIABLES
    tree,       \* RouterState::tree, or NoAccount while the server is down
    request,    \* request[w]: the request w's client waits for, if any
    reply       \* reply[w][path]: the last answer to it on that path, if any

apiVars == <<vars, tree, request, reply>>

\* The routes that read more than the tree's keys.  /version is /distributor
\* with less in the answer.
Path == {"status", "proof", "distributor"}

IsUp == tree # NoAccount

ApiInit ==
    /\ Init
    /\ tree = NoAccount
    /\ request = [w \in Wallet |-> NoAccount]
    /\ reply = [w \in Wallet |-> [path \in Path |-> NoAccount]]

------------------------------------------------------------------------------
(* The process.                                                            *)

\* main: read_distributor fails unless the distributor exists; its root is not
\* compared with that of the tree file.
StartServer ==
    /\ ~IsUp
    /\ Exists(Target)
    /\ tree' \in TreeFiles
    /\ UNCHANGED <<vars, request, reply>>

\* The server is stopped: its connections are closed.
\* Mutant: a request outlives the process.
StopServer_KeepsRequests ==
    /\ IsUp
    /\ tree' = NoAccount
    /\ UNCHANGED <<vars, request, reply>>

StopServer ==
    /\ IsUp
    /\ tree' = NoAccount
    /\ request' = [w \in Wallet |-> NoAccount]
    /\ UNCHANGED <<vars, reply>>

------------------------------------------------------------------------------
(* The middleware: HandleError(Buffer(RateLimit(Timeout(LoadShed(Trace))))). *)

\* Buffer: the request is queued.
Send(w, path) ==
    /\ IsUp
    /\ request[w] = NoAccount
    /\ request' = [request EXCEPT ![w] =
                     [path |-> path, at |-> "buffer", accounts |-> NoAccount]]
    /\ UNCHANGED <<vars, tree, reply>>

IsAt(w, path, at) ==
    /\ request[w] # NoAccount
    /\ request[w].path = path
    /\ request[w].at = at

\* The worker behind the buffer gets through the rate limit with it; the time
\* it is allowed starts here.
Begin(w) ==
    /\ \E path \in Path : IsAt(w, path, "buffer")
    /\ request' = [request EXCEPT ![w].at = "handler"]
    /\ UNCHANGED <<vars, tree, reply>>

\* The request ends in an error.
EndWithError(w) ==
    /\ request' = [request EXCEPT ![w] = NoAccount]
    /\ UNCHANGED <<vars, tree, reply>>

AwaitsNode(w) == IsAt(w, "status", "handler") \/ IsAt(w, "distributor", "handler")

\* handle_error: 408 when the RPC node takes too long.
\* Mutant: the layer is left out.
Timeout_None(w) == FALSE /\ EndWithError(w)

Timeout(w) == AwaitsNode(w) /\ EndWithError(w)

------------------------------------------------------------------------------
(* The handlers.                                                           *)

LeafOf(w) == CHOOSE leaf \in tree : leaf.claimant = w

HasNode(w) == \E leaf \in tree : leaf.claimant = w

\* UserNotFound, or no such route.
NotFound(w) ==
    /\ \/ IsAt(w, "status", "handler") /\ ~HasNode(w)
       \/ IsAt(w, "proof", "handler")
            /\ (~HasNode(w) \/ ~enable_proof_endpoint)
    /\ EndWithError(w)

\* RpcError.
RpcFails(w) ==
    /\ AwaitsNode(w)
    /\ IsAt(w, "status", "handler") => HasNode(w)
    /\ EndWithError(w)

Answer(w, answer) ==
    /\ reply' = [reply EXCEPT ![w][request[w].path] = answer]
    /\ request' = [request EXCEPT ![w] = NoAccount]
    /\ UNCHANGED <<vars, tree>>

\* get_proof.  A proof stands for the tree it is from.
AnswerProof(w) ==
    /\ IsAt(w, "proof", "handler")
    /\ enable_proof_endpoint
    /\ HasNode(w)
    /\ Answer(w, [leaf |-> LeafOf(w), proof |-> tree])

\* get_distributor with what read_distributor returned, of which the root is kept
\* here: it never changes, so that the delay of the answer does not matter.
\* Mutant: the root is taken from the tree file.
AnswerDistributor_FromFile(w) ==
    /\ IsAt(w, "distributor", "handler")
    /\ Answer(w, [root |-> tree])

AnswerDistributor(w) ==
    /\ IsAt(w, "distributor", "handler")
    /\ Answer(w, [root |-> distributor[Target].root])

\* get_status, get_claim_status: get_multiple_accounts reads both at one slot.
ReadAccounts(w) ==
    /\ IsAt(w, "status", "handler")
    /\ HasNode(w)
    /\ request' = [request EXCEPT ![w].at = "read",
                     ![w].accounts = [distributor  |-> distributor[Target],
                                      claim_status |-> claim_status[Target][w]]]
    /\ UNCHANGED <<vars, tree, reply>>

ClaimWasFound(w) == request[w].accounts.claim_status # NoAccount

\* The claim whose amount_withdrawable is reported: the one on the chain or,
\* before there is one, the one that new_claim would make.
\* Mutant: the whole grant is simulated.
ClaimOf_WholeGrant(w) ==
    IF ClaimWasFound(w)
      THEN request[w].accounts.claim_status
      ELSE [locked_amount           |-> GrantOf(LeafOf(w)),
            locked_amount_withdrawn |-> 0,
            unlocked_amount         |-> 0]

ClaimOf(w) ==
    IF ClaimWasFound(w)
      THEN request[w].accounts.claim_status
      ELSE [locked_amount           |-> LeafOf(w).amount_locked,
            locked_amount_withdrawn |-> 0,
            unlocked_amount         |-> 0]

\* Mutant: a claim with nothing left to withdraw is taken for none.
StatusOf_Unfinished(w) ==
    IF request[w].accounts.distributor.clawed_back
      THEN "Expired"
      ELSE IF /\ ClaimWasFound(w)
              /\ request[w].accounts.claim_status.locked_amount_withdrawn
                   < request[w].accounts.claim_status.locked_amount
             THEN "Claimed" ELSE "Unclaimed"

StatusOf(w) ==
    IF request[w].accounts.distributor.clawed_back
      THEN "Expired"
      ELSE IF ClaimWasFound(w) THEN "Claimed" ELSE "Unclaimed"

\* The amount_withdrawable(..).unwrap() of the handler is Ok.
ReplyIsOk(w, now) ==
    LET onchain == request[w].accounts.distributor
    IN  StatusOf(w) # "Expired" =>
          AmountWithdrawableIsOk(ClaimOf(w), now, onchain.start_ts, onchain.end_ts)

\* What the locked amount of w's leaf, or claim, on the chain is worth at t.
VestedOnChain(w, t) ==
    LET onchain == distributor[Target]
        locked  == IF HasClaim(Target, w)
                     THEN claim_status[Target][w].locked_amount
                     ELSE (CHOOSE leaf \in onchain.root : leaf.claimant = w)
                            .amount_locked
    IN  UnlockedAmount([locked_amount |-> locked], t,
                       onchain.start_ts, onchain.end_ts)

Later(t1, t2) == IF t1 < t2 THEN t2 ELSE t1

\* The rest of get_claim_status, at `now` of the host; it panics, and the
\* connection is closed, when the unwrap does.  The last three fields are read
\* by the properties only: whether the tree or the claim was the chain's, what
\* had vested at the later of the two clocks, and whether the host was behind.
AnswerStatus(w, now) ==
    /\ IsAt(w, "status", "read")
    /\ LET ok      == ReplyIsOk(w, now)
           onchain == request[w].accounts.distributor
           genuine == ClaimWasFound(w) \/ tree = onchain.root
       IN  Answer(w,
             [status       |-> IF ok THEN StatusOf(w) ELSE "panic",
              withdrawable |->
                IF ok /\ StatusOf(w) # "Expired"
                  THEN AmountWithdrawable(ClaimOf(w), now,
                                          onchain.start_ts, onchain.end_ts)
                  ELSE 0,
              withdrawn    |-> ClaimOf(w).locked_amount_withdrawn,
              genuine      |-> genuine,
              vested       |-> IF genuine
                                 THEN VestedOnChain(w, Later(now, clock)) ELSE 0,
              behind       |-> now < clock])

\* What the host's clock may show.
HostClock == {t \in Time : clock - MaxSkew <= t /\ t <= clock + MaxSkew}

------------------------------------------------------------------------------
ApiNext ==
    \/ Next /\ UNCHANGED <<tree, request, reply>>
    \/ StartServer
    \/ StopServer
    \/ \E w \in Wallet :
        \/ \E path \in Path : Send(w, path)
        \/ Begin(w) \/ Timeout(w) \/ RpcFails(w) \/ NotFound(w)
        \/ AnswerProof(w) \/ AnswerDistributor(w)
        \/ ReadAccounts(w)
        \/ \E now \in HostClock : AnswerStatus(w, now)

ApiSpec == ApiInit /\ [][ApiNext]_apiVars

\* The worker goes through its buffer, time passes, and a handler that does not
\* await the RPC node runs to its end.  The node need never answer.
ServerIsFair ==
    \A w \in Wallet :
        /\ WF_apiVars(Begin(w))
        /\ WF_apiVars(Timeout(w))
        /\ WF_apiVars(NotFound(w) \/ AnswerProof(w)
                        \/ \E now \in HostClock : AnswerStatus(w, now))

FairApiSpec == ApiSpec /\ ServerIsFair

------------------------------------------------------------------------------
(* Properties.                                                             *)

Answered(w, path) == reply[w][path] # NoAccount

\* A request waits for the node, or for the rest of its handler, and a handler
\* goes on with accounts only that the chain had when it asked.
ApiTypeOK ==
    \A w \in Wallet : request[w] # NoAccount =>
        /\ IsUp
        /\ request[w].path \in Path
        /\ request[w].at \in {"buffer", "handler", "read"}
        /\ IsAt(w, "status", "read") =>
              /\ request[w].accounts.distributor \in DistributorAccount
              /\ request[w].accounts.claim_status \in ClaimStatus \cup {NoAccount}

\* /status never reports more than the chain pays at the later of the two clocks
\* it was made at: what it counts as withdrawn and as withdrawable has vested by
\* then, also when claims have landed since the snapshot or there is no claim -
\* unless the claim is one that only a foreign tree file knows of.
ReportedHasVested ==
    \A w \in Wallet : Answered(w, "status") =>
        LET answer == reply[w]["status"]
        IN  answer.genuine =>
              answer.withdrawn + answer.withdrawable <= answer.vested

\* The handler panics on no host that keeps up with the chain, however the
\* claims, the schedule and the delay of its own RPC call fall together.
PanicsOnlyBehindTheChain ==
    \A w \in Wallet :
        Answered(w, "status") /\ reply[w]["status"].status = "panic" =>
            reply[w]["status"].behind

\* The server compares its tree with the chain's root never, but its clients
\* can: a proof is accepted by the chain if and only if it is from the tree whose
\* root /distributor answers, however old the two answers are, in whichever
\* order they came, and whatever was restarted, with whatever file, in between.
ClientsCanCheckProofs ==
    \A w \in Wallet : Answered(w, "proof") /\ Answered(w, "distributor") =>
        LET answer == reply[w]["proof"]
        IN  answer.proof = reply[w]["distributor"].root
              <=> /\ answer.proof = distributor[Target].root
                  /\ Verify(distributor[Target].root, answer.leaf)

\* A user who is told Claimed is not told Unclaimed later, and Expired is the
\* last word: restarts, tree files, errors and delays notwithstanding.
StatusNeverGoesBack ==
    [][\A w \in Wallet : Answered(w, "status") =>
        LET status == reply[w]["status"].status
        IN  /\ status = "Claimed" => reply'[w]["status"].status # "Unclaimed"
            /\ status = "Expired" => reply'[w]["status"].status = "Expired"
      ]_apiVars

\* No client waits for ever: a request is answered or refused, or its connection
\* closed, even if the RPC node never answers the server.
EveryRequestEnds ==
    \A w \in Wallet : request[w] # NoAccount ~> request[w] = NoAccount

==============================================================================
