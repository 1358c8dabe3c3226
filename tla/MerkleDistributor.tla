-------------------------- MODULE MerkleDistributor --------------------------
(***************************************************************************)
(* The on-chain program (programs/merkle-distributor): distributors, the   *)
(* claims made on them, and the token accounts they move money between.    *)
(*                                                                         *)
(* A transaction is one action: an instruction that fails any check, or    *)
(* whose token transfer fails, is rolled back as a whole by the chain, so  *)
(* every require!, account constraint and checked operation of a handler   *)
(* is a conjunct of its action, wherever in the handler it stands.         *)
(*                                                                         *)
(* A program-derived address stands for its seeds: a Distributor is a      *)
(* (mint, version) pair, and its claim by a wallet is claim_status[d][w].  *)
(* The vault of d, its associated token account, is named d as well.       *)
(***************************************************************************)
EXTENDS Vesting, FiniteSets, Functions

CONSTANTS
    Wallet,             \* keys that sign transactions
    TokenAccount,       \* token accounts held by wallets
    Distributor,        \* addresses of distributors, and of their vaults
    OwnerOf,            \* the wallet that owns a token account
    MintOf,             \* the mint of a token account or of a vault
    InitialBalance,     \* tokens held before the first distributor exists
    Time,               \* the instants the chain clock may show (a bound)
    NewDistributorArgs, \* the parameters new_distributor is called with
    SECONDS_PER_DAY,    \* the clawback delay, in the unit of Time
    NoAccount           \* content of an address that holds no account

Account == TokenAccount \cup Distributor

\* A leaf of the airdrop tree: hash(claimant, amount_unlocked, amount_locked).
Leaf == [claimant : Wallet, amount_unlocked : U64, amount_locked : U64]

\* A root commits to a set of leaves; the hashing behind it is MerkleTree's.
Args == [root              : SUBSET Leaf,
         max_total_claim   : U64,
         max_num_nodes     : U64,
         start_vesting_ts  : I64,
         end_vesting_ts    : I64,
         clawback_start_ts : I64]

DistributorAccount ==
        [root                 : SUBSET Leaf,
         max_total_claim      : U64,
         max_num_nodes        : U64,
         total_amount_claimed : U64,
         num_nodes_claimed    : U64,
         start_ts             : I64,
         end_ts               : I64,
         clawback_start_ts    : I64,
         clawback_receiver    : Account,
         admin                : Wallet,
         clawed_back          : BOOLEAN]

\* Keys are finitely many, and a key belongs to one kind of account.
ASSUME AccountAssumption ==
    /\ IsFiniteSet(Wallet)
    /\ TokenAccount \cap Distributor = {}
    /\ OwnerOf \in [TokenAccount -> Wallet]
    /\ DOMAIN MintOf = Account
    /\ InitialBalance \in [TokenAccount -> U64]

\* The chain clock counts seconds since 1970, so it is never negative.
ASSUME TimeAssumption ==
    /\ Time \subseteq 0 .. MaxI64
    /\ SECONDS_PER_DAY \in Nat \ {0}

ASSUME ArgsAssumption == \A args \in NewDistributorArgs : args \in Args

ASSUME NoAccountAssumption ==
    /\ NoAccount \notin ClaimStatus
    /\ NoAccount \notin DistributorAccount

VARIABLES
    clock,          \* Clock::get()?.unix_timestamp
    distributor,    \* distributor[d]: its account, or NoAccount
    claim_status,   \* claim_status[d][w]: w's claim on d, or NoAccount
    balance,        \* balance[a]: tokens in account or vault a
    open_accounts   \* the token accounts, vaults included, that exist

vars == <<clock, distributor, claim_status, balance, open_accounts>>

------------------------------------------------------------------------------
(* Accounts and token transfers.                                           *)

Exists(d) == distributor[d] # NoAccount

HasClaim(d, w) == claim_status[d][w] # NoAccount

\* Mutant: the handlers forget require!(!clawed_back).
Open_IgnoringClawback(d) == Exists(d)

Open(d) == Exists(d) /\ ~distributor[d].clawed_back

ClawedBack(d) == Exists(d) /\ distributor[d].clawed_back

\* Account<TokenAccount>: the instruction fails unless the account exists.
IsTokenAccount(a) == a \in open_accounts

\* Anchor's `init`: the instruction fails if the account exists.
\* Mutant: `init_if_needed`.
MayInit_IfNeeded(exists) == TRUE

MayInit(exists) == ~exists

\* The constraint token::mint on a clawback receiver of d.
\* Mutant: the mint is not constrained.
MayReceiveClawback_AnyMint(d, a) == IsTokenAccount(a)

MayReceiveClawback(d, a) == IsTokenAccount(a) /\ MintOf[a] = MintOf[d]

\* The constraints token::authority and address on `to` and `claimant`.
\* Mutant: the token account may be anyone's.
MayReceiveClaim_Anyone(claimant, to) == TRUE

MayReceiveClaim(claimant, to) == OwnerOf[to] = claimant

\* token::transfer between two accounts that exist succeeds.  A transfer to the
\* account itself moves nothing.
CanTransfer(from, to, amount) ==
    /\ MintOf[from] = MintOf[to]
    /\ amount <= balance[from]
    /\ from # to => balance[to] + amount \in U64

Transferred(from, to, amount) ==
    [a \in Account |-> balance[a] - (IF a = from THEN amount ELSE 0)
                                  + (IF a = to   THEN amount ELSE 0)]

\* verify(proof, root, leaf): some proof leads from the leaf to the root.
Verify(root, leaf) == leaf \in root

\* What claim_status[d][w] may withdraw now: the call in handle_claim_locked.
\* Mutant: the schedule is ignored.
Withdrawable_Unscheduled(d, w) ==
    claim_status[d][w].locked_amount
      - claim_status[d][w].locked_amount_withdrawn

Withdrawable(d, w) ==
    AmountWithdrawable(claim_status[d][w], clock,
                       distributor[d].start_ts, distributor[d].end_ts)

WithdrawableIsOk(d, w) ==
    AmountWithdrawableIsOk(claim_status[d][w], clock,
                           distributor[d].start_ts, distributor[d].end_ts)

------------------------------------------------------------------------------
Init ==
    /\ clock \in Time
    /\ distributor = [d \in Distributor |-> NoAccount]
    /\ claim_status = [d \in Distributor |-> [w \in Wallet |-> NoAccount]]
    /\ balance = [a \in Account |->
                    IF a \in TokenAccount THEN InitialBalance[a] ELSE 0]
    /\ open_accounts = {a \in TokenAccount : InitialBalance[a] > 0}

------------------------------------------------------------------------------
(* The instructions, as the handlers in instructions/ run them.            *)

\* The require!s of handle_new_distributor on its timestamps.
\* Mutant: the clawback may start right after the vesting.
TimestampsAreValid_NoDelay(args) ==
    /\ args.start_vesting_ts < args.end_vesting_ts
    /\ args.start_vesting_ts > clock
    /\ args.clawback_start_ts > args.end_vesting_ts

TimestampsAreValid(args) ==
    /\ args.start_vesting_ts < args.end_vesting_ts
    /\ args.start_vesting_ts > clock
    /\ args.end_vesting_ts > clock
    /\ args.clawback_start_ts > clock
    /\ args.clawback_start_ts > args.end_vesting_ts
    /\ args.end_vesting_ts + SECONDS_PER_DAY \in I64
    /\ args.clawback_start_ts >= args.end_vesting_ts + SECONDS_PER_DAY

\* Distributor and vault are created here, the vault at the associated address,
\* where anybody may have created a token account before.  The clawback receiver
\* must already be one of the mint: it is read before the vault is created.
NewDistributor(d, admin, clawback_receiver, args) ==
    /\ MayInit(Exists(d))
    /\ MayInit(IsTokenAccount(d))
    /\ MayReceiveClawback(d, clawback_receiver)
    /\ TimestampsAreValid(args)
    /\ distributor' = [distributor EXCEPT ![d] =
            [root                 |-> args.root,
             max_total_claim      |-> args.max_total_claim,
             max_num_nodes        |-> args.max_num_nodes,
             total_amount_claimed |-> 0,
             num_nodes_claimed    |-> 0,
             start_ts             |-> args.start_vesting_ts,
             end_ts               |-> args.end_vesting_ts,
             clawback_start_ts    |-> args.clawback_start_ts,
             clawback_receiver    |-> clawback_receiver,
             admin                |-> admin,
             clawed_back          |-> FALSE]]
    /\ open_accounts' = open_accounts \cup {d}
    /\ UNCHANGED <<clock, claim_status, balance>>

\* The ledger of d after a payment: both handlers add it with checked_add and
\* then require! the sum to respect max_total_claim.
\* Mutant: max_total_claim is not enforced.
WithinMaxTotalClaim_Uncapped(d, amount) ==
    distributor[d].total_amount_claimed + amount \in U64

\* Mutant: the total must stay below the cap.
WithinMaxTotalClaim_Strict(d, amount) ==
    distributor[d].total_amount_claimed + amount
      < distributor[d].max_total_claim

WithinMaxTotalClaim(d, amount) ==
    /\ distributor[d].total_amount_claimed + amount \in U64
    /\ distributor[d].total_amount_claimed + amount
         <= distributor[d].max_total_claim

\* Mutant: the last node is refused.
WithinMaxNumNodes_OffByOne(d) ==
    distributor[d].num_nodes_claimed + 1 < distributor[d].max_num_nodes

WithinMaxNumNodes(d) ==
    /\ distributor[d].num_nodes_claimed + 1 \in U64
    /\ distributor[d].num_nodes_claimed + 1 <= distributor[d].max_num_nodes

\* The counters of d after that payment, for so many claimants more.
\* Mutant: a new claim is not counted.
Recorded_NoCount(d, nodes, amount) ==
    [distributor EXCEPT ![d].total_amount_claimed = @ + amount]

Recorded(d, nodes, amount) ==
    [distributor EXCEPT ![d].num_nodes_claimed = @ + nodes,
                        ![d].total_amount_claimed = @ + amount]

\* claimant signs, pays for the claim_status account and owns `to`, which he may
\* create in the same transaction: the command line and the page do.
NewClaim(d, claimant, to, amount_unlocked, amount_locked) ==
    /\ Open(d)
    /\ MayInit(HasClaim(d, claimant))
    /\ MayReceiveClaim(claimant, to)
    /\ WithinMaxNumNodes(d)
    /\ Verify(distributor[d].root,
              [claimant        |-> claimant,
               amount_unlocked |-> amount_unlocked,
               amount_locked   |-> amount_locked])
    /\ CanTransfer(d, to, amount_unlocked)
    /\ WithinMaxTotalClaim(d, amount_unlocked)
    /\ claim_status' = [claim_status EXCEPT ![d][claimant] =
            [locked_amount           |-> amount_locked,
             locked_amount_withdrawn |-> 0,
             unlocked_amount         |-> amount_unlocked]]
    /\ balance' = Transferred(d, to, amount_unlocked)
    /\ distributor' = Recorded(d, 1, amount_unlocked)
    /\ open_accounts' = open_accounts \cup {to}
    /\ UNCHANGED clock

\* The claim after `amount` more of it was withdrawn.
\* Mutant: the withdrawal is paid but not stored.
Withdrawn_Lost(d, w, amount) == claim_status

Withdrawn(d, w, amount) ==
    [claim_status EXCEPT ![d][w].locked_amount_withdrawn = @ + amount]

ClaimLocked(d, claimant, to) ==
    LET cs     == claim_status[d][claimant]
        amount == Withdrawable(d, claimant)
    IN  /\ Open(d)
        /\ HasClaim(d, claimant)
        /\ IsTokenAccount(to)
        /\ MayReceiveClaim(claimant, to)
        /\ WithdrawableIsOk(d, claimant)
        /\ amount > 0
        /\ CanTransfer(d, to, amount)
        /\ cs.locked_amount_withdrawn + amount <= cs.locked_amount
        /\ WithinMaxTotalClaim(d, amount)
        /\ claim_status' = Withdrawn(d, claimant, amount)
        /\ balance' = Transferred(d, to, amount)
        /\ distributor' = Recorded(d, 0, amount)
        /\ UNCHANGED <<clock, open_accounts>>

\* Anyone may sign.  The whole vault goes to the recorded receiver.
Clawback(d) ==
    /\ Open(d)
    /\ clock >= distributor[d].clawback_start_ts
    /\ IsTokenAccount(distributor[d].clawback_receiver)
    /\ CanTransfer(d, distributor[d].clawback_receiver, balance[d])
    /\ balance' = Transferred(d, distributor[d].clawback_receiver, balance[d])
    /\ distributor' = [distributor EXCEPT ![d].clawed_back = TRUE]
    /\ UNCHANGED <<clock, claim_status, open_accounts>>

\* Mutant: the owner of the account is recorded in its place.
SetClawbackReceiver_Owner(d, admin, new_clawback_account) ==
    /\ Exists(d)
    /\ admin = distributor[d].admin
    /\ new_clawback_account \in TokenAccount
    /\ distributor' = [distributor EXCEPT
            ![d].clawback_receiver = OwnerOf[new_clawback_account]]
    /\ UNCHANGED <<clock, claim_status, balance, open_accounts>>

SetClawbackReceiver(d, admin, new_clawback_account) ==
    /\ Exists(d)
    /\ admin = distributor[d].admin
    /\ MayReceiveClawback(d, new_clawback_account)
    /\ new_clawback_account # distributor[d].clawback_receiver
    /\ distributor' = [distributor EXCEPT
            ![d].clawback_receiver = new_clawback_account]
    /\ UNCHANGED <<clock, claim_status, balance, open_accounts>>

SetAdmin(d, admin, new_admin) ==
    /\ Exists(d)
    /\ admin = distributor[d].admin
    /\ new_admin # admin
    /\ distributor' = [distributor EXCEPT ![d].admin = new_admin]
    /\ UNCHANGED <<clock, claim_status, balance, open_accounts>>

------------------------------------------------------------------------------
(* What happens around the program.                                        *)

\* Owners move tokens as they like.  This is also how a vault is seeded: no
\* instruction of the program does it, nothing fixes when or with how much.
TransferTokens(from, to, amount) ==
    /\ IsTokenAccount(from)
    /\ IsTokenAccount(to)
    /\ CanTransfer(from, to, amount)
    /\ balance' = Transferred(from, to, amount)
    /\ UNCHANGED <<clock, distributor, claim_status, open_accounts>>

\* Anybody creates the associated account of any wallet or distributor.
OpenAccount(a) ==
    /\ ~IsTokenAccount(a)
    /\ open_accounts' = open_accounts \cup {a}
    /\ UNCHANGED <<clock, distributor, claim_status, balance>>

\* A wallet closes an empty account of its own; no instruction closes a vault.
CloseAccount(a) ==
    /\ IsTokenAccount(a)
    /\ balance[a] = 0
    /\ open_accounts' = open_accounts \ {a}
    /\ UNCHANGED <<clock, distributor, claim_status, balance>>

\* The chain clock never runs backwards, and may skip instants.
Tick ==
    /\ \E t \in Time : t > clock /\ clock' = t
    /\ UNCHANGED <<distributor, claim_status, balance, open_accounts>>

Next ==
    \/ Tick
    \/ \E from \in TokenAccount, to \in Account, amount \in U64 :
          TransferTokens(from, to, amount)
    \/ \E a \in Account : OpenAccount(a)
    \/ \E a \in TokenAccount : CloseAccount(a)
    \/ \E d \in Distributor :
        \/ \E admin \in Wallet, a \in Account, args \in NewDistributorArgs :
              NewDistributor(d, admin, a, args)
        \/ \E w \in Wallet, to \in TokenAccount, u, l \in U64 :
              NewClaim(d, w, to, u, l)
        \/ \E w \in Wallet, to \in TokenAccount : ClaimLocked(d, w, to)
        \/ Clawback(d)
        \/ \E w \in Wallet, a \in Account : SetClawbackReceiver(d, w, a)
        \/ \E w, new \in Wallet : SetAdmin(d, w, new)

Spec == Init /\ [][Next]_vars

\* The chain's clock keeps running; nobody has to do anything.
FairSpec == Spec /\ WF_vars(Tick)

\* Claimants who keep claiming, and do not keep their accounts closed for ever.
ClaimantsAreFair ==
    \A d \in Distributor, w \in Wallet :
        /\ WF_vars(\E to \in TokenAccount, u, l \in U64 :
                        NewClaim(d, w, to, u, l))
        /\ WF_vars(\E to \in TokenAccount :
                        MayReceiveClaim(w, to) /\ MintOf[to] = MintOf[d]
                          /\ OpenAccount(to))
        /\ SF_vars(\E to \in TokenAccount : ClaimLocked(d, w, to))

\* Somebody, anybody, who keeps trying to claw back, and creates the account of
\* the receiver when it has been closed.
ClawbackIsFair ==
    \A d \in Distributor :
        /\ \A a \in Account :
              WF_vars(Exists(d) /\ a = distributor[d].clawback_receiver
                        /\ OpenAccount(a))
        /\ SF_vars(Clawback(d))

------------------------------------------------------------------------------
(* What the properties are about.                                          *)

\* Tokens that w's claim on d has been paid so far.
Paid(d, w) ==
    IF HasClaim(d, w)
      THEN claim_status[d][w].unlocked_amount
             + claim_status[d][w].locked_amount_withdrawn
      ELSE 0

ClaimsOn(d) == {w \in Wallet : HasClaim(d, w)}

TotalPaid(d) == SumFunction([w \in Wallet |-> Paid(d, w)])

GrantOf(leaf) == leaf.amount_unlocked + leaf.amount_locked

\* The tree a distributor should be created with: AirdropMerkleTree combines
\* the entries of a claimant into one leaf, and the CLI passes the tree's own
\* total and size as max_total_claim and max_num_nodes.
TreeIsConsistent(d) ==
    LET root == distributor[d].root
    IN  /\ \A l1, l2 \in root : l1.claimant = l2.claimant => l1 = l2
        /\ Cardinality(root) <= distributor[d].max_num_nodes
        /\ SumFunction([leaf \in root |-> GrantOf(leaf)])
             <= distributor[d].max_total_claim

\* What the leaves of the tree have not been paid yet.
Outstanding(d) ==
    SumFunction([leaf \in distributor[d].root |->
                    GrantOf(leaf) - Paid(d, leaf.claimant)])

\* The distributor is open, was made from a consistent tree, and its vault
\* holds all it still owes.
IsSolvent(d) ==
    /\ Open(d)
    /\ TreeIsConsistent(d)
    /\ balance[d] >= Outstanding(d)

------------------------------------------------------------------------------
(* Safety.                                                                 *)

TypeOK ==
    /\ clock \in Time
    /\ distributor \in [Distributor -> DistributorAccount \cup {NoAccount}]
    /\ claim_status \in
         [Distributor -> [Wallet -> ClaimStatus \cup {NoAccount}]]
    /\ balance \in [Account -> U64]
    /\ open_accounts \subseteq Account

\* A claim never withdraws ahead of its vesting schedule, so the subtraction in
\* amount_withdrawable never fails: neither a later claim_locked nor a reader
\* that uses the chain's clock meets an ArithmeticError.
NeverAheadOfVesting ==
    \A d \in Distributor, w \in Wallet :
        HasClaim(d, w) => Exists(d) /\ WithdrawableIsOk(d, w)

\* The counters of a distributor are the sums of its claims: every payment is
\* counted once, and every claimant once.
LedgerMatchesClaims ==
    \A d \in Distributor : Exists(d) =>
        /\ distributor[d].total_amount_claimed = TotalPaid(d)
        /\ distributor[d].num_nodes_claimed = Cardinality(ClaimsOn(d))

\* The distributor never pays out more than max_total_claim, nor to more
\* claimants than max_num_nodes, whatever tree it was made from.
CapsHold ==
    \A d \in Distributor : Exists(d) =>
        /\ TotalPaid(d) <= distributor[d].max_total_claim
        /\ Cardinality(ClaimsOn(d)) <= distributor[d].max_num_nodes

\* A claimant of a consistent, funded tree is refused by no check of new_claim
\* or claim_locked that looks at what the others have claimed: the counters,
\* the caps and the vault always leave room for what the leaf is still owed.
HonestClaimIsNeverRefused ==
    \A d \in Distributor : IsSolvent(d) =>
        \A leaf \in distributor[d].root :
            LET w == leaf.claimant
            IN  IF HasClaim(d, w)
                  THEN /\ WithinMaxTotalClaim(d, Withdrawable(d, w))
                       /\ Withdrawable(d, w) <= balance[d]
                       /\ Paid(d, w) + Withdrawable(d, w) <= GrantOf(leaf)
                  ELSE /\ WithinMaxNumNodes(d)
                       /\ WithinMaxTotalClaim(d, leaf.amount_unlocked)
                       /\ leaf.amount_unlocked <= balance[d]

\* Nothing is clawed back before every grant has been claimable in full for a
\* day: the delay new_distributor insists on outlives every later instruction.
NoClawbackBeforeGrantsVest ==
    \A d \in Distributor : ClawedBack(d) =>
        clock >= distributor[d].end_ts + SECONDS_PER_DAY

------------------------------------------------------------------------------
(* What a step may never do.                                               *)

\* Every token that leaves a vault is a payment, credited to an account of one
\* claimant and recorded as such in his claim and in the ledger, or is part of
\* the clawback, which leaves nothing behind.
VaultOnlyPaysClaims ==
    [][\A d \in Distributor : balance'[d] < balance[d] =>
        \/ /\ Open(d)
           /\ distributor'[d].clawed_back
           /\ balance'[d] = 0
           /\ claim_status' = claim_status
        \/ \E w \in Wallet, to \in TokenAccount :
            LET amount == balance[d] - balance'[d]
            IN  /\ OwnerOf[to] = w
                /\ balance'[to] = balance[to] + amount
                /\ Paid(d, w)' = Paid(d, w) + amount
                /\ distributor'[d].total_amount_claimed
                     = distributor[d].total_amount_claimed + amount]_vars

\* A vault that holds all it owes goes on holding all it owes until it is
\* clawed back, whatever claimants, admin and strangers do.
SolvencyIsKept ==
    [][\A d \in Distributor :
        IsSolvent(d) /\ Open(d)' => IsSolvent(d)']_vars

\* A claim is made at most once, its grant never changes, and what it has
\* withdrawn never shrinks.
ClaimsArePermanent ==
    [][\A d \in Distributor, w \in Wallet : HasClaim(d, w) =>
        /\ HasClaim(d, w)'
        /\ claim_status'[d][w].locked_amount = claim_status[d][w].locked_amount
        /\ claim_status'[d][w].unlocked_amount
             = claim_status[d][w].unlocked_amount
        /\ claim_status'[d][w].locked_amount_withdrawn
             >= claim_status[d][w].locked_amount_withdrawn]_vars

\* Once clawed back, a distributor pays nobody again and records no claim, even
\* when tokens reach its vault later.
ClawbackIsFinal ==
    [][\A d \in Distributor : ClawedBack(d) =>
        /\ distributor'[d].clawed_back
        /\ distributor'[d].total_amount_claimed
             = distributor[d].total_amount_claimed
        /\ claim_status'[d] = claim_status[d]
        /\ balance'[d] >= balance[d]]_vars

\* No instruction changes the terms that claimants rely on: the tree, the caps
\* and the schedule are those the distributor was created with.
TermsAreFixed ==
    [][\A d \in Distributor : Exists(d) =>
        /\ Exists(d)'
        /\ \A term \in {"root", "max_total_claim", "max_num_nodes",
                        "start_ts", "end_ts", "clawback_start_ts"} :
             distributor'[d][term] = distributor[d][term]]_vars

------------------------------------------------------------------------------
(* Liveness.                                                               *)

\* Claimants who keep claiming on a solvent distributor are paid their whole
\* grants, whatever admin and strangers do, unless it is clawed back first.
GrantsArePaidOrClawedBack ==
    ClaimantsAreFair =>
        \A d \in Distributor :
            IsSolvent(d) ~> ClawedBack(d) \/ (Open(d) /\ Outstanding(d) = 0)

\* Every distributor can be, and so is once somebody keeps trying, clawed back:
\* no later instruction can give it a receiver its vault cannot pay.
EveryDistributorIsClawedBack ==
    ClawbackIsFair => \A d \in Distributor : Exists(d) ~> ClawedBack(d)

------------------------------------------------------------------------------
(* What the handlers' comments say and the code does not do.               *)

\* Comments of new_claim and claim_locked: "The claim window has not expired
\* and the distributor has not been clawed back".
ClaimsStopAtClawbackStart ==
    [][\A d \in Distributor :
        Exists(d) /\ clock >= distributor[d].clawback_start_ts =>
            claim_status'[d] = claim_status[d]]_vars

\* Comment of handle_clawback: it claws back unclaimed tokens by transferring
\* the remaining funds from the vault.
ClawbackEmptiesTheVault ==
    [][\A d \in Distributor :
        Open(d) /\ distributor'[d].clawed_back => balance'[d] = 0]_vars

==============================================================================
