# Verification of the merkle distributor

TLA+ models, TLC runs and TLAPS proofs for the token airdrop in this
repository: an on-chain program that holds the tokens of an airdrop and pays
them to the wallets committed to in a Merkle root, partly at once and partly as
they vest, and the command line, API server and web page around it.

## Inventory

| Component | Source | State | Operations |
|---|---|---|---|
| On-chain program | `programs/merkle-distributor/src` | one `MerkleDistributor` account per (mint, version), one `ClaimStatus` account per (claimant, distributor), the vault's token balance | `new_distributor`, `new_claim`, `claim_locked`, `clawback`, `set_admin`, `set_clawback_receiver` |
| Vesting arithmetic | `state/claim_status.rs` | none | `unlocked_amount`, `amount_withdrawable` |
| Proof verification | `verify/src/lib.rs` | none | `verify` |
| Merkle tree | `merkle-tree/src/merkle_tree.rs`, `utils.rs` | vector of hashes | `new`, `get_root`, `find_path`, `get_proof` |
| Airdrop tree | `merkle-tree/src/airdrop_merkle_tree.rs`, `tree_node.rs`, `csv_entry.rs` | tree file | `new` (combine, hash, prove, total), `validate`, `verify_proof`, file and CSV input |
| Command line | `cli/src/bin/cli.rs` | none of its own; transactions in flight | `new-distributor`, `claim`, `clawback`, `create-merkle-tree`, `set-admin` |
| API server | `api/src` | the tree loaded at start; requests under way | `/proof`, `/status`, `/distributor`, `/users`, `/version`, request middleware |
| Web page | `app/src/App.js`, `utils/helper.ts` | amounts and status shown; fetches and a claim under way | render, fetch status and proof, send `new_claim` |
| Legacy page | `app/pages`, `app/utils` | - | claims on another program with a keccak tree |
| Python tests | `test` | - | program tests, generated client |

How they interact.  `create-merkle-tree` turns a CSV into a tree file.
`new-distributor` puts the root, total and size of that file on chain.  Somebody
seeds the vault with a plain token transfer.  The API server and the command line
read the same file for proofs; claimants send `new_claim` with a proof, then
`claim_locked` as tokens vest.  After `clawback_start_ts` anyone may send
`clawback`.  All writers meet only on the chain, where a transaction is atomic and
transactions are ordered.

What is hard: instructions of claimants, admin and strangers in any order around
the schedule; vesting arithmetic at the ends of its words; two caps that must never
lock out an honest claimant; a vault seeded by hand; the race of claims and
clawback; transactions that are lost, late or sent twice by a retried command;
readers whose clock or tree file is not the chain's.

What makes each component correct:

- program: every payment is recorded and only claims are paid; no claim runs ahead
  of its schedule; honest claimants are never refused; the clawback comes a day after
  vesting, is final and always possible; terms and claims never change;
- vesting: the share is proportional, rounded down, without overflow or truncation;
- tree: each claimant has one leaf, the leaves add up to the total, every published
  proof verifies and nothing else does;
- command line: whatever the network does, a command that is run again gets the
  claimant what is due, once, and a reported success is one;
- API: what it reports as withdrawable has vested by the later of its host's and the
  chain's clock, what it has reported it does not take back, its proofs can be checked
  by its clients, and every request ends;
- page: it shows nothing that belongs to another wallet, comes to rest, and gets a user
  who clicks his claim.

## Modules

| Module | Models | Extends |
|---|---|---|
| `Vesting` | `ClaimStatus::unlocked_amount`, `amount_withdrawable` as operators, with the widths of the words as parameters | |
| `MerkleDistributor` | the on-chain program, the token program around it (transfers, accounts opened and closed), the chain's clock | `Vesting` |
| `VestingGrants` | abstract: what an airdrop with vesting promises its claimants, without a chain | |
| `MerkleDistributorRefinement` | the mapping under which the program implements `VestingGrants` | `MerkleDistributor`; instantiates `VestingGrants` |
| `MerkleTree` | `MerkleTree::new`, `get_root`, `get_proof`, and `verify` as operators on sequences of levels | |
| `AirdropMerkleTree` | CSV rows to tree nodes to a validated tree file; the `create-merkle-tree` command | `MerkleTree` |
| `Cli` | processes running `claim`, `new-distributor`, `clawback`, `set-admin` over a network, on the chain of `MerkleDistributor` | `MerkleDistributor` |
| `ApiServer` | server start and stop, the request middleware, `/status`, `/proof` and `/distributor`, on the chain of `MerkleDistributor` | `MerkleDistributor` |
| `ClaimPage` | `App.js` in one browser tab: renders, overlapping fetches, a claim, wallets switched at any time | |
| `VestingProofs`, `SumProofs` | lemmas: the vesting arithmetic; sums over finite sets | `Vesting`; - |
| `MerkleDistributorProofs` | theorems on the program and its refinement | `MerkleDistributorRefinement`, `VestingProofs`, `SumProofs` |
| `ScheduleProofs` | theorems on the arithmetic of one claim | `MCVesting`, `VestingProofs` |
| `AirdropMerkleTreeProofs` | theorems on the tree and its proofs | `AirdropMerkleTree`, `SumProofs` |
| `CliProofs`, `ApiServerProofs` | theorems on the command line and the server | `Cli` or `ApiServer`, with `MerkleDistributorProofs` |
| `ClaimPageProofs` | theorems on the page | `ClaimPage` |
| `MCVesting`, `MCMerkleDistributor`, `MCAirdropMerkleTree`, `MCCli`, `MCApiServer`, `MCClaimPage` | instances for TLC; `MCVesting` also gives the operators of `Vesting` one claim and a clock to run on | the module they are named for; `MCMerkleDistributor` the refinement |

Mutants - operators named `X_something` that stand before `X` - are plausible
mistakes in the code behind `X`. They are used by nothing in the models; each
shows that a property notices when `X` is replaced.

### How state and actions correspond to the code

**MerkleDistributor.** `distributor[d]` is the account at the address derived from
(mint, version), `claim_status[d][w]` the account at the address derived from
(claimant, distributor), `balance[a]` the amount of a token account, where the
vault of `d` is named `d`. An address without an account holds `NoAccount`. One
action per instruction; its guard is everything that can fail in it, from the
Anchor account constraints to the last checked operation or token transfer,
because the chain rolls a failed transaction back as a whole. The order of the
writes within a handler is therefore not observable. `open_accounts` holds the
token accounts that exist. `TransferTokens`, `OpenAccount` and `CloseAccount` are
the token programs: anybody who owns tokens moves them, which is also how a vault is
seeded; anybody creates the associated account of anybody, a vault's before its
distributor included; a wallet closes an empty account of its own. `Tick` is the
clock sysvar.

The root of a distributor is the set of leaves it commits to, and `Verify` is
membership. That is an abstraction of hashing, which `VerifyIsMembership` of
`AirdropMerkleTreeProofs` justifies for trees as the code builds them and for proofs
of any kind.

**VestingGrants** knows airdrops, terms, grants and what was paid, and nothing of
accounts, keys, counters, caps, words or instructions. `Grants` of
`MerkleDistributorRefinement` maps the program onto it: the terms of an airdrop are
the fields of the distributor that claimants rely on, an entry is granted when its
claim exists, `paid` is what a claim says was paid, `fund` is the vault from the
moment its distributor exists, and an airdrop is closed when it is clawed back.
`new_claim` is `Grant`, `claim_locked` is `PayVested`, `clawback` is `Close`, a
transfer to a vault is `Deposit`, and the admin's instructions, accounts opened and
closed and transfers among wallets are stuttering steps. `Close` lets what is left go
to one receiver, which may be the airdrop itself: the code allows it (finding 2).

**MerkleTree.** A hash is a term: a pair of a prefix and what was hashed. Two
inputs never collide, and the two prefixes keep leaves and inner nodes apart as
in the code. Inner nodes are hashed sorted in the code, so that the hash of a
pair is the hash of the set of both. Levels are kept apart rather than in one
vector. `NodeIndex` is the `node_index` of `find_path`, halved on every level.

**AirdropMerkleTree.** `csv` is edited by the operator, `file` is replaced by
`create-merkle-tree`. `NewTree` is the result of `AirdropMerkleTree::new`, and
`NewTreeIsOk` collects every unwrap, `expect` and validation that may fail.

**Cli.** `session[s].at` is the point a process has reached: the call it waits
for. The name of a transaction stands for
`send_and_confirm_transaction_with_spinner`, `get_account` and `get_ata` for the
reads that precede it. `create_and_new_claim` is the transaction that creates the
claimant's token account first; it fails as a whole when the account is there, and
`new_claim` alone fails when it is not. `tx` is the transaction a process waits for:
the network lands it (`Land`, with the whole action of the program), refuses it or
lets it expire (`Refuse`), or leaves the client without an answer (`GiveUp`), in
which case it becomes a `stray` that may land later. `Kill` ends the process at any
point. Reads may be behind: `MissClaim`, `MissAta` and `MissDistributor` may be taken
although the account is there. Steps of `MerkleDistributor` that no session takes
stand for everybody else. `claim` takes `Ok(_)` of `get_account` for an account of the
program, but anybody may send lamports to an address where there is none
(`SendLamports`): `IsThere` is what `get_account` tells, `IsInUse` what the program
would find, and `funded` the addresses at which they differ. An account that is made
there later takes over the lamports.

**ApiServer.** `tree` is the tree file a running server loaded, `request[w]` the
request a client of `w` waits for, `reply[w][path]` the last answer it got there. A
request is in the `buffer` of the middleware, then in its `handler`, and for
`/status` then holds the two accounts that were `read`: the handler awaits them and
reads the clock of its host afterwards, with the chain moving in between. `Timeout`
is the 408 of `handle_error`, `RpcFails` and `NotFound` are the errors of `ApiError`
that can occur, `StopServer` closes every connection. A proof stands for the tree it
is from, and the chain accepts it when that is the distributor's.

**ClaimPage.** `wallet` is what `useWallet` returns, `display` the state of the
component, `fetches` the bag of calls of `fetchClaimAmount` under way, each with the
wallet of the render that made it, `claim` the call of `handleClaim`. `Render` is the
effect that every render runs, since `useEffect` has no list of dependencies;
`Show` renders again when a setter was given a new value, and not otherwise.
A request ends in one of three ways. It is answered (`GetStatus`, `GetProof`). It is
answered with an error, which is JSON as well (`error.rs`) and which the page, as it never
looks at `response.ok`, takes for an answer without the fields it reads
(`GetStatusError`, `GetProofError`): the status is then `undefined` and the amounts are
`NaN`, for which `Undefined` stands. Or it throws, and the display stays (`FetchFails`).
The chain is reduced to what the page can tell apart: who has a claim, whether there
was a clawback, and what is at the address of a user's token account, where there may be
`"lamports"` only, which `MustCreate` takes for the account. `IsEncodable` is the limit
of `anchor.BN` for amounts that come as JSON numbers. `worst` and `since` are read by the
properties only.

## What each run checks

| Run | States | What it shows |
|---|---|---|
| `vesting` | every claim and schedule of 5-bit words | `VestsInProportion`: the unlocked part is the elapsed share, rounded down, and the cast never truncates. `NoArithmeticError`: no checked operation fails, whatever withdrawals came before |
| `distributor` | 61 562 | eleven properties of one distributor, and that it implements `VestingGrants` (`KeepsThePromise`), for terms that are consistent, have a cap below the tree's total or a size below its leaves, or must be refused for one of five reasons |
| `fair_distributor` | 21 572 | `GrantsArePaidOrClawedBack`: claimants who keep claiming are paid in full from a solvent vault unless it is clawed back. `EveryDistributorIsClawedBack`: no history leaves a distributor that cannot be |
| `claim_window` | violation | claims succeed after `clawback_start_ts` |
| `stranded_funds` | violation | the vault as its own clawback receiver |
| `tree_shapes` | 557, up to symmetry | trees of one to six leaves: published proofs verify, no other claim has one, validation never refuses, an edit of the CSV changes the root or nothing |
| `tree_amounts` | 6 130, up to symmetry | rows of one claimant in any order and category add up; overflow is detected exactly when the total overflows |
| `large_amounts` | violation | an amount that does not fit a word of token units wraps |
| `page_proof` | violation | the page sends two hashes for a tree of any height |
| `cli` | 101 056 | every command of one wallet, killed, lost, overtaken and run again, among strangers who send lamports to its addresses. `claim`: no false success, nothing but such lamports taken for a claim, and in the end full payment, unless they stay there. `clawback`: no false success. `new-distributor`: no normal end on foreign terms |
| `api_server` | 521 190 | replies never exceed what has vested, panics only behind the chain, status never goes back, a client can tell proofs of another tree, no request hangs |
| `claim_page` | 175 176 | at rest, and if no fetch threw, the page shows what belongs to its wallet, or nothing where the server erred; it comes to rest unless errors and answers alternate for ever; who goes on clicking gets his claim, unless his grant or his token account is one the page cannot deal with |

### Bounds, and why they are enough

- Words: `MaxU64` and `MaxI64` are small, so that sums and timestamps reach the end
  of their words within the instance; no property mentions their values, and the
  proofs are for all widths.
- Time: 0 to 7 in `MCMerkleDistributor` with a day of two units leaves room for an
  instant before, inside, at both ends of and after vesting, and on both sides of
  the clawback. `Tick` may skip instants. `MCCli` and `MCApiServer` use a shorter
  schedule with the same order of events.
- Wallets and accounts: two claimants are the least for which one can take what is
  due to the other; a third token account of another mint makes the mint
  constraints matter. Balances allow an empty, a short, an exact and an
  overfunded vault.
- Trees: six leaves is the first size with an odd level above an even one, five the
  first with two odd levels; four levels are the most in the instance. Amounts of
  three rows suffice for two rows of one claimant and an overflow in the sum over
  claimants.
- `FileIsFresh` bounds the tree runs to a CSV that is at most one edit ahead of the
  file.
- Sessions: one process is enough beside a chain on which the same wallet may send
  any transaction by other means, for any of four commands and with another creator
  at the same address. Its tree grants one token at once and one that vests, the
  least for which `claim_locked` has something to do after `new_claim`. A stray
  transaction is a member of a set: a second copy of one that is still under way adds
  no behaviour, as the program refuses or repeats it the same.
- `MCApiServer` has a file with the distributor's tree, one that grants other amounts
  and one without the claimant, and the server is restarted with any of them.
- `MaxSkew` = 1: the host's clock is behind, on, or ahead of the chain's by one unit,
  which is half of the vesting period of `MCApiServer`.
- One request per wallet is under way in `ApiServer`. Two at once may be answered in
  either order, so that `StatusNeverGoesBack` is about requests that follow each
  other.
- `MaxFetches` = 2: the user and the hooks render the page while fewer fetches than
  that are under way; renders by answers are not bounded. Two are the least that
  overtake each other, and two wallets the least that are mixed up. The tree has
  three leaves, one of which belongs to nobody in the browser.
- `Restless` = one user: what he has on the chain changes elsewhere in every way, while
  the other one only ever has his page. `MaxSafeInteger` = 2 stands for 2^53 - 1: his
  grant is beyond it, so that he clicks in vain and his attempts are those "with another
  wallet before".
- `Address`: lamports may be sent to the claim and token account addresses of wallets
  that a command of the instance is about. At any other address nothing looks.

`CHECK_DEADLOCK FALSE` stands in configurations where the clock ends and nothing
else need happen.

### Fairness, and what justifies it

- `WF(Tick)`: the chain's clock goes on. Nothing else is fair in `FairSpec`.
- `ClaimantsAreFair` is the premise of `GrantsArePaidOrClawedBack`: a claimant
  keeps sending `new_claim` and `claim_locked` while they can succeed, and opens his
  token account again when it is closed. Strong fairness of `claim_locked`: an
  account that is opened and closed again and again is there infinitely often.
  Nobody is obliged to, and the property says nothing of those who do not.
- `ClawbackIsFair` is the premise of `EveryDistributorIsClawedBack`: somebody keeps
  trying, and creates the receiver's account when it is missing. Anyone may do both if it
  is an associated account; the admin has to replace a receiver that is not.
- `CliIsFair`: the user starts his command again when it has ended, and the steps of a
  process that wait for nobody are taken (weak fairness). Reads that show the chain as it
  is (`ReadsClaim`, `ReadsAta`) and transactions that land are strongly fair: a process
  that gets there again and again is not always killed there, told of an older state, or
  refused. Nothing makes a given attempt succeed.
- `ServerIsFair`: the worker behind the buffer goes through its queue (the rate limit
  lets requests through every second), the timer of the timeout runs out, and
  handlers that await nothing end. The RPC node owes nothing.
- `FetchesAreFair`: a browser's fetch is answered, with an error or not, or fails; which
  of the three is nobody's promise. `ClicksAreFair`: the user clicks again, a claim does
  not hang, and its steps are strongly fair, that is, not every attempt of his fails for
  a reason the model does not have.
## Proofs

Every safety property that a passing run checks, as an invariant, an action property
or a refinement, is a theorem: TLC shows it on a small instance, the theorem for every
value of the constants that the assumptions admit. What is left to TLC is liveness.

| Module | Theorem | Property |
|---|---|---|
| `MerkleDistributorProofs` | `TypeCorrect` | `TypeOK`: no counter, claim or balance leaves its word |
| | `FixedTermsCorrect` | `TermsAreFixed` |
| | `VestingCorrect` | `NeverAheadOfVesting`: `amount_withdrawable` never fails on the chain's clock |
| | `ClawbackDelayCorrect` | `NoClawbackBeforeGrantsVest` |
| | `ClawbackIsFinalCorrect` | `ClawbackIsFinal` |
| | `ClaimsArePermanentCorrect` | `ClaimsArePermanent` |
| | `VaultOnlyPaysClaimsCorrect` | `VaultOnlyPaysClaims` |
| | `LedgerCorrect` | `LedgerMatchesClaims`: the counters are the sums of the claims |
| | `CapsCorrect` | `CapsHold` |
| | `HonestClaimCorrect` | `HonestClaimIsNeverRefused` |
| | `SolvencyCorrect` | `SolvencyIsKept` |
| | `PromiseKept` | `KeepsThePromise`: the program implements `VestingGrants` |
| `ScheduleProofs` | `ProportionCorrect` | `VestsInProportion` |
| | `ArithmeticCorrect` | `NoArithmeticError` |
| `AirdropMerkleTreeProofs` | `TreeTypeCorrect` | `TypeOK` |
| | `CommitmentCorrect` | `RootCommitsToItsLeaves` |
| | `VerifyIsMembership` | more than a run can check: the root accepts some proof of a claim, of any values and any length, exactly when the claim is a leaf |
| | `DeterminationCorrect` | `RootDeterminesTheTree` |
| | `RefusalCorrect` | `OnlyOversizedCsvIsRefused` |
| | `GrantsCorrect` | `TreeGrantsItsRows` |
| `CliProofs` | `CommandsOnlyInstruct` | the chain below the command lines goes through a behaviour of the program |
| | `CliTypeCorrect` | `CliTypeOK` |
| | `SkipsCorrect` | `OnlyLamportsMislead`: what makes `claim` skip `new_claim` is a claim, or lamports |
| | `SuccessCorrect` | `SuccessIsReal` |
| | `AcceptanceCorrect` | `AcceptedTermsAreMine` |
| `ApiServerProofs` | `ApiTypeCorrect` | `ApiTypeOK` |
| | `ReportCorrect` | `ReportedHasVested` |
| | `PanicsCorrect` | `PanicsOnlyBehindTheChain` |
| | `ProofCheckCorrect` | `ClientsCanCheckProofs` |
| | `StatusCorrect` | `StatusNeverGoesBack` |
| `ClaimPageProofs` | `PageTypeCorrect` | `PageTypeOK` |
| | `ShownCorrect` | `ShowsItsWallet`, errors of the server included |

`VestingProofs` and `SumProofs` hold lemmas only.

### The assumptions

They are the named `ASSUME`s of the modules; TLC evaluates each on every run that
extends its module.

- An i64 is narrower than a u64, and the clock shows instants from 1970 on.
- Wallets are finitely many: a sum over all of them must exist. The rows of a CSV are
  bounded by `MaxRows`, a natural number of any size.
- The arguments of `new_distributor` have their types; token accounts have owners and
  words as balances; the account of a wallet is the wallet's; a tree file has one leaf
  per claimant.
- `NoAccount` is none of the values it is told apart from (`NoAccountAssumption`,
  `NoTermsAssumption`), as an account that does not exist is no account.
- A hash is a term: it is part of the models, not an assumption, that hashes of
  different inputs differ.

### The program

`NeverAheadOfVesting` is not inductive. The inductive invariant `VestingInv` adds
to it what a step needs to keep it: types; that every schedule lies after the
epoch, which `new_distributor` checks once and nobody can change
(`SchedulesHold`); that every claim has its distributor and what it withdrew is
unlocked *now* (`ClaimsFollowSchedules`); and that a clawed-back distributor's
clawback was due (`ClawbacksWereDue`). The step of the clock rests on
`UnlockedIsMonotone` of `VestingProofs`: what is unlocked never shrinks as time
passes. Behind it are `NoTruncation` - the u128 product fits and the cast back to
u64 loses nothing - and the monotony of rounded-down quotients. The step of
`claim_locked` rests on `ClaimLockedAmount`: it brings what was withdrawn to
exactly what is unlocked. The action properties rest on lemmas that say
which actions can debit a vault (`VaultStep`), change a counter (`CounterStep`),
change a claim (`ClaimStep`) or close a distributor (`OnlyClawbackCloses`).

`LedgerInv` is `VestingInv` with three facts that are inductive only together:
`LedgerMatchesClaims`; `CountersWithinCaps`, which the handlers check when they
write; and `ClaimsAreListed`, that a claim was made with a leaf of the root.
`CapsHold` follows since the caps bound counters that are the sums.
`HonestClaimIsNeverRefused` follows by sums over the leaves: what the other claims
were paid is at most what their leaves grant, so what is left of the cap and of a
solvent vault covers this one. `SolvencyIsKept` compares what a step takes from the
vault with what it takes from what is still owed.

`PromiseKept` has one lemma per action of the program: the step it maps to in
`VestingGrants`, or that it maps to none. Its invariant `RefinementInv` is `LedgerInv`
with `VaultsStartEmpty`, since a distributor opens with an empty fund although anybody
may send tokens to any account that exists.

The sums are those of the community modules, whose recursion over a set is a function
chosen by its equation. `SumProofs` shows that such a function exists for every finite
set (`SetInduction`, by a smallest counterexample) and then what sums do: one element
more, one value changed, a partition, a bound. An induction theorem of the library that
takes a predicate is out of the provers' reach; a smallest counterexample is not.

### The schedule

`ScheduleInv` says that what the one claim of `MCVesting` has withdrawn is unlocked. The
two theorems are then `NoTruncation` and `QuotientIsFloor`: a quotient is the greatest
number whose product with the divisor does not exceed the dividend.

### The tree

`TreeInv` says that the file, when there is one, is `NewTree` of rows that
`new_from_csv` accepted. It is simple; the work is in what `NewTree` is, in four steps.

1. *The folds are what they seem.* A proof is verified by a fold of hashes, nodes are
   made by a fold of rows, both with recursive functions over sets of indices.
   `FoldsExist` and `FoldsAgree` show there is exactly one such function, `FoldUnfolds`
   that it takes the elements in order. `ClimbsExist` does the same for the levels of a
   tree and for the index of a node on them.
2. *The shape* (`TreeShape`). Levels halve, rounded up, until one node is left; `Tree`
   stops there, whatever the number of leaves.
3. *Proofs.* `ProofVerifies` climbs from a leaf: the hash after k elements of the proof
   is the node at the halved index on level k, with the last node of an odd level its own
   sibling. `ProofCommits` goes down from the root: hashes are terms, so the two parts of
   an inner node are known, and a leaf hash is no inner node because of the prefixes. It
   asks nothing of the proof, neither its length nor what it is made of. Together they
   are `VerifyIsMembership`, which is why `MerkleDistributor` may have a set of leaves
   for a root and membership for `Verify`.
4. *Amounts.* `RowIsCounted`: after each row the nodes are one for each claimant so far,
   with the sums of his rows in every category, whether the row was merged into a node
   or made one. `NodesShape`, `GrantsAreSums` and `CapsOfRows` follow; and a total that
   fits its word has parts that fit theirs (`TotalBoundsAll`), which is why the checked
   sums fail exactly when the total overflows.

### The command line

`CommandsOnlyInstruct` maps every step of a session or of the network to one of the
program, so that `ClaimsArePermanent`, `ClawbackIsFinal` and `TermsAreFixed` can be used
of the steps in between. `CliInv` says that what a process was told of its transactions
is true *for good* (`KnowsTheChain`): whether its answer comes at once, or others have
changed the chain in the meantime. A process that waits is in the command that sends
what it waits for, and a stray transaction is of its session's command
(`IsInItsCommand`, `StrayInv`): a late transaction is then still an instruction that
the process might have sent.

Lamports are the one thing a process is told of that is not for good: an address that
holds them only is in use as soon as an account is made there (`LamportsInv`). A process in
`claim_locked` has therefore seen a claim, or lamports that are still there or have become
one (`SeesClaim`), which is `OnlyLamportsMislead`. `SuccessIsReal` needs none of it:
without a claim `claim_locked` is refused.

### The server

Steps of the server leave the chain alone, which gives it `LedgerInv`. `ApiInv` adds
that a snapshot of accounts is the chain's past, from which it moved on in one direction
only (`SnapshotIsPast`); that it is newer than the last answer (`SnapshotIsNews`, from
which `StatusNeverGoesBack`); and that answers stay true (`ReplyInv`).
`ReportedHasVested` evaluates a snapshot with the host's clock: by monotony it is below
the share at the later of the two clocks, and the snapshot is at most as far as the chain.

### The page

`PageInv` says that the last render is served: either the page shows what belongs to its
wallet, or a fetch is under way that will (`LastRenderIsServed`). An answer for another
render changes the display and thereby renders again, so that a fresh fetch starts.
`AnswersArePast` orders what an answer carries and what the chain has by the one
direction in which a status moves. Once the server has erred for the connected wallet
(`Erred`), a missing field counts as served too, and what counted before still does
(`NothingIsTakenBack`); an error for a wallet of before counts for nothing, as it ranks
below every status of a user with a leaf.

### Only model-checked

- Liveness, which is out of the prover's reach: `GrantsArePaidOrClawedBack`,
  `EveryDistributorIsClawedBack`, `RerunsArePaid`, `EveryRequestEnds`, `ComesToRest`,
  `ClicksGetTheClaim`.
- The four disagreements below, which are counterexamples.

Each inductive invariant was checked by TLC on small instances before it was proved.

## Findings

1. *Claims after the window.* The comments of `new_claim` and `claim_locked` say
   the claim window must not have expired. Nothing compares the clock with
   `clawback_start_ts`: claims go on until somebody claws back.
2. *A clawback to the vault.* `set_clawback_receiver` accepts the distributor's own
   vault. The clawback then moves nothing and closes the distributor for good.
3. *Wrapping grants.* `ui_amount_to_token_amount` multiplies unchecked; the release
   build wraps.
4. *Short proofs.* `App.js` sends the first two hashes of the proof, which is the
   proof in trees of three and four leaves only.

More came up that no run is spent on:

- `new-distributor` prints an error and exits normally when its transaction failed and
  nothing was created, so a script cannot tell (`Fail` of `Cli` has it).
- Whoever creates the vault's associated account before `new_distributor` blocks that
  (mint, version) for good: the account is `init`, and the advice to run the command
  again (`cli.rs:380`) does not help. `MayInit` has it.
- `claim` creates the token account only together with the claim: a claimant who
  closed it afterwards must open it by other means. `RerunsArePaid` has this as a
  premise.
- `claim` takes any account at its claim's address for the claim, and anybody may send
  lamports there: every run then skips `new_claim` and fails in `claim_locked`, until the
  claim is made by other means. `RerunsArePaid` has this as a premise, `OnlyLamportsMislead`
  says it is the only way. The same at the address of the token account, for `claim` and
  for the page: nobody creates the account, and `new_claim` fails.
- The page shows `undefined` and `NaN` when the server answers with an error, in the place
  of values that were right, and an error that alternates with an answer keeps it
  fetching. `ShowsItsWallet` and `ComesToRest` say so.
- The page cannot claim a grant of which a part is 2^53 or more: `anchor.BN` throws at such
  a number. `ClicksGetTheClaim` has this as a premise.
- The server never compares the root of its tree file with the one on chain, so
  `/proof` may serve proofs the program refuses. `ClientsCanCheckProofs` shows what a
  client can do about it; none in the repository does.
- A host whose clock is behind the chain panics in `/status` right after a withdrawal;
  `PanicsOnlyBehindTheChain` shows this is the only way it panics. A host that is ahead
  reports as withdrawable what vests only by its own clock, which `ReportedHasVested`
  allows.
- `handle_error` has a 503 for an overloaded service that it never produces: the load
  shedder wraps a router that is always ready. The time limit is inside the buffer, so
  time spent queueing does not count.
- A claim made by the page does not refresh it. What `ShowsItsWallet` promises is
  therefore relative to the last render (`since`).

## What is assumed, and what is not modelled

- The owner and the mint of a token account never change, and a wallet closes only
  empty accounts.
- An instruction is atomic, and its error code is not part of the model.
- Rent, fees, priority fees, compute limits and signatures are the chain's.
- The accounts of the program always parse. The `Err` branches that deal with foreign
  bytes are taken for addresses that hold lamports only, and do what is done when there is
  no account: in `/status` an unparsed claim is none, and an unparsed distributor matches
  in `check_distributor_onchain_matches`, as `MissDistributor` has it.
- The read in the error branch of `new-distributor`, at the processed commitment,
  shows the chain as it is; an older view could miss another creator.
- The server's RPC node shows both accounts at one slot and never an older state than
  it has shown before. A node that falls back would take statuses back.
- `/`, `/users` and `/version` of the server answer constants, the keys of the tree and
  a part of `/distributor`. They are not modelled, nor are the numbers of the rate
  limit and of the buffer.
- `ClaimPage` sees an open, solvent distributor made from the server's tree, of which
  the pieces are the subject of `GrantsArePaidOrClawedBack` and `ClientsCanCheckProofs`.
  One tab, and one call of `handleClaim` at a time; the component is never unmounted.
  `ClaimTokens.js` is not used by `App.js`. The page divides the amounts it shows by
  1 000 000 000 in doubles, which the model leaves out: amounts that are equal as doubles
  are shown as equal.
- Events, display code of the pages, the legacy page, the Python tests and the
  deployment files are not modelled: nothing in the repository reads the events, and
  the program the legacy page talks to is not in it.
- The unsorted hashing and `Proof::verify` of the tree library are used by unit
  tests only.

## Plan

Done: every component with state of its own has its module, the program has an
abstract specification that it is proved to implement, and every safety property that
a run checks is a theorem.

Next:

1. Theorems that compose components, beyond what one run can hold: that the page's
   and the server's view of the chain are behaviours of the program seen through a
   mapping, as `CommandsOnlyInstruct` shows of the command line.
2. More of `VestingGrants`: that an airdrop whose fund is solvent can always pay what is
   due, from `SolvencyIsKept`, as a theorem of the abstract specification.
3. The hazards without a property, should the code change: what a run could then show is
   that a version can always be created, that `new-distributor` fails when nothing was
   created, that the server refuses a foreign tree file, and that a claim refreshes the
   page.
