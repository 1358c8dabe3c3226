--------------------------------- MODULE Cli ---------------------------------
(***************************************************************************)
(* The command line (cli/src/bin/cli.rs) against the chain.  A session is  *)
(* one process that runs one command, again and again if its user wants.   *)
(* It reads accounts through an RPC node that may lag, and sends           *)
(* transactions that may be refused, be dropped, or land after the client  *)
(* has given up on them.                                                   *)
(*                                                                         *)
(* Everybody else - other programs, other users - is on the chain as well: *)
(* a step that is not a session's is any step of MerkleDistributor.        *)
(***************************************************************************)
EXTENDS MerkleDistributor

CONSTANTS
    Session,        \* running command lines
    Commands,       \* what their users may have asked for
    Target,         \* the distributor all of them name by mint and version
    Tree,           \* the leaves of the tree file
    Ata             \* the associated token account of a wallet that uses one

Command ==
    [command : {"claim"}, keypair : Wallet]
      \cup [command : {"clawback"}, clawback_keypair : Wallet]
      \cup [command : {"set-admin"}, keypair : Wallet, new_admin : Wallet]
      \cup [command : {"new-distributor"}, keypair : Wallet,
            clawback_receiver_token_account : Account,
            args : NewDistributorArgs]

ASSUME CliAssumption ==
    /\ Commands \subseteq Command
    /\ Target \in Distributor
    /\ Tree \subseteq Leaf
    /\ \A l1, l2 \in Tree : l1.claimant = l2.claimant => l1 = l2
    /\ \A w \in DOMAIN Ata : Ata[w] \in TokenAccount /\ OwnerOf[Ata[w]] = w
    /\ \A cmd \in Commands :
        /\ cmd.command = "claim" => cmd.keypair \in DOMAIN Ata
        /\ cmd.command = "clawback" => cmd.clawback_keypair \in DOMAIN Ata

VARIABLES
    command,    \* command[s]: the arguments of s
    session,    \* session[s]: the state of the process
    stray,      \* transactions sent by a process that no longer waits for them
    funded      \* addresses that hold lamports and no account of a program

cliVars == <<vars, command, session, stray, funded>>

\* The accounts of a claimant that claim looks for.
ClaimStatusOf(w) == <<"claim_status", w>>
AtaOf(w) == <<"ata", w>>

Address == {"claim_status", "ata"} \X DOMAIN Ata

\* What is sent: an instruction, or new_claim after the instruction that creates
\* the claimant's token account.
Transaction ==
    {"create_and_new_claim", "new_claim", "claim_locked", "new_distributor",
     "clawback", "set_admin"}

\* at: what the process is doing; the name of a transaction stands for
\*     send_and_confirm_transaction_with_spinner of it.
\* tx: what has become of the transaction it waits for.
\* paid_before: what the claimant had been paid when the command started; it
\*     is read by the properties only.
SessionState ==
    [at : Transaction \cup {"idle", "get_account", "get_ata", "done", "failed"},
     tx : {"none", "pending", "ok", "err"},
     paid_before : Nat]

CliInit ==
    /\ Init
    /\ command \in [Session -> Commands]
    /\ session = [s \in Session |->
                    [at |-> "idle", tx |-> "none", paid_before |-> 0]]
    /\ stray = {}
    /\ funded = {}

------------------------------------------------------------------------------
(* Lamports.  Anybody may send some to any address, and what get_account is *)
(* then Ok about is no account of a program.  One that is made there later  *)
(* takes over the lamports.                                                 *)

IsInUse(address) ==
    IF address[1] = "claim_status"
      THEN HasClaim(Target, address[2])
      ELSE IsTokenAccount(Ata[address[2]])

\* get_account is Ok.
IsThere(address) == IsInUse(address) \/ address \in funded

SendLamports(address) ==
    /\ ~IsThere(address)
    /\ funded' = funded \cup {address}
    /\ UNCHANGED <<vars, command, session, stray>>

LamportsAreTakenOver == funded' = {a \in funded : ~IsInUse(a)'}

------------------------------------------------------------------------------
(* Transactions, with the accounts that the commands derive: they land and  *)
(* succeed.                                                                 *)

\* create_associated_token_account fails on an account that exists, and then so
\* does the whole transaction; new_claim fails on one that does not.
\* Mutant: the first two leaves of the tree are taken for one another.
NewClaimTx_AnyLeaf(s, creates) ==
    LET claimant == command[s].keypair
    IN  /\ creates <=> ~IsTokenAccount(Ata[claimant])
        /\ \E leaf \in Tree :
              NewClaim(Target, claimant, Ata[claimant],
                       leaf.amount_unlocked, leaf.amount_locked)

NewClaimTx(s, creates) ==
    LET claimant == command[s].keypair
    IN  /\ creates <=> ~IsTokenAccount(Ata[claimant])
        /\ \E leaf \in Tree :
              /\ leaf.claimant = claimant
              /\ NewClaim(Target, claimant, Ata[claimant],
                          leaf.amount_unlocked, leaf.amount_locked)

ClaimLockedTx(s) ==
    ClaimLocked(Target, command[s].keypair, Ata[command[s].keypair])

NewDistributorTx(s) ==
    NewDistributor(Target, command[s].keypair,
                   command[s].clawback_receiver_token_account, command[s].args)

\* `to` is the associated account of the clawback keypair; the program insists
\* on the recorded receiver.
ClawbackTx(s) ==
    /\ Open(Target)
    /\ distributor[Target].clawback_receiver = Ata[command[s].clawback_keypair]
    /\ Clawback(Target)

SetAdminTx(s) == SetAdmin(Target, command[s].keypair, command[s].new_admin)

Execute(s, tx) ==
    \/ tx = "create_and_new_claim" /\ NewClaimTx(s, TRUE)
    \/ tx = "new_claim"            /\ NewClaimTx(s, FALSE)
    \/ tx = "claim_locked"         /\ ClaimLockedTx(s)
    \/ tx = "new_distributor"      /\ NewDistributorTx(s)
    \/ tx = "clawback"             /\ ClawbackTx(s)
    \/ tx = "set_admin"            /\ SetAdminTx(s)

IsWaiting(s) == session[s].tx = "pending"

\* The transaction a session waits for lands.
Land(s) ==
    /\ IsWaiting(s)
    /\ Execute(s, session[s].at)
    /\ LamportsAreTakenOver
    /\ session' = [session EXCEPT ![s].tx = "ok"]
    /\ UNCHANGED <<command, stray>>

\* It is refused by the program or by the node, or it expires.
Refuse(s) ==
    /\ IsWaiting(s)
    /\ session' = [session EXCEPT ![s].tx = "err"]
    /\ UNCHANGED <<vars, command, stray, funded>>

\* The client is unable to confirm it: it has landed, or it still may.
GiveUp(s) ==
    /\ session[s].tx \in {"pending", "ok"}
    /\ stray' = IF IsWaiting(s) THEN stray \cup {<<s, session[s].at>>} ELSE stray
    /\ session' = [session EXCEPT ![s].tx = "err"]
    /\ UNCHANGED <<vars, command, funded>>

\* A transaction nobody waits for lands, or expires.
StrayLands(tx) ==
    /\ Execute(tx[1], tx[2])
    /\ LamportsAreTakenOver
    /\ stray' = stray \ {tx}
    /\ UNCHANGED <<command, session>>

StrayExpires(tx) ==
    /\ stray' = stray \ {tx}
    /\ UNCHANGED <<vars, command, session, funded>>

------------------------------------------------------------------------------
(* The commands.                                                           *)

\* Mutant: the result of the last transaction is kept.
Goto_KeepsResult(s, at) ==
    /\ session' = [session EXCEPT ![s].at = at]
    /\ UNCHANGED <<vars, command, stray, funded>>

Goto(s, at) ==
    /\ session' = [session EXCEPT ![s].at = at, ![s].tx = "none"]
    /\ UNCHANGED <<vars, command, stray, funded>>

Send(s, ix) ==
    /\ session' = [session EXCEPT ![s].at = ix, ![s].tx = "pending"]
    /\ UNCHANGED <<vars, command, stray, funded>>

HasNode(w) == \E leaf \in Tree : leaf.claimant = w

\* main: the first thing every command does.
Start(s) ==
    LET cmd == command[s].command
    IN  /\ session[s].at \in {"idle", "done", "failed"}
        /\ session' = [session EXCEPT ![s] =
             [at |-> CASE cmd = "clawback"  -> "clawback"
                       [] cmd = "set-admin" -> "set_admin"
                       [] OTHER             -> "get_account",
              tx |-> IF cmd \in {"clawback", "set-admin"}
                       THEN "pending" ELSE "none",
              paid_before |-> IF cmd = "claim"
                                THEN Paid(Target, command[s].keypair)
                                ELSE 0]]
        /\ UNCHANGED <<vars, command, stray, funded>>

\* process_claim: there is an account at the claim_status address, a claim or
\* not, so only claim_locked.
\* Mutant: a claim that exists is taken to be complete.
FindClaim_Done(s) ==
    /\ session[s].at = "get_account"
    /\ command[s].command = "claim"
    /\ IsThere(ClaimStatusOf(command[s].keypair))
    /\ Goto(s, "done")

FindClaim(s) ==
    /\ session[s].at = "get_account"
    /\ command[s].command = "claim"
    /\ IsThere(ClaimStatusOf(command[s].keypair))
    /\ Send(s, "claim_locked")

\* There is none, or the node does not know of it yet: process_new_claim first,
\* which panics when the claimant is not in the tree file.
\* Mutant: a claim that is not there is an error like any other.
MissClaim_Panics(s) ==
    /\ session[s].at = "get_account"
    /\ command[s].command = "claim"
    /\ Goto(s, "failed")

MissClaim(s) ==
    /\ session[s].at = "get_account"
    /\ command[s].command = "claim"
    /\ Goto(s, IF HasNode(command[s].keypair) THEN "get_ata" ELSE "failed")

\* process_new_claim: there is an account at the address of the claimant's token
\* account.
FindAta(s) ==
    /\ session[s].at = "get_ata"
    /\ IsThere(AtaOf(command[s].keypair))
    /\ Send(s, "new_claim")

\* There is none, or the node does not know of it yet.
MissAta(s) ==
    /\ session[s].at = "get_ata"
    /\ Send(s, "create_and_new_claim")

\* check_distributor_onchain_matches.
\* Mutant: only the root is compared.
OnchainMatches_RootOnly(cmd) == distributor[Target].root = cmd.args.root

OnchainMatches(cmd) ==
    LET onchain == distributor[Target]
    IN  /\ onchain.root = cmd.args.root
        /\ onchain.max_total_claim = cmd.args.max_total_claim
        /\ onchain.max_num_nodes = cmd.args.max_num_nodes
        /\ onchain.start_ts = cmd.args.start_vesting_ts
        /\ onchain.end_ts = cmd.args.end_vesting_ts
        /\ onchain.clawback_start_ts = cmd.args.clawback_start_ts
        /\ onchain.clawback_receiver = cmd.clawback_receiver_token_account
        /\ onchain.admin = cmd.keypair

\* process_new_distributor: an account that does not match is a panic, one that
\* matches is created again all the same.
FindDistributor(s) ==
    /\ session[s].at = "get_account"
    /\ command[s].command = "new-distributor"
    /\ Exists(Target)
    /\ IF OnchainMatches(command[s])
         THEN Send(s, "new_distributor")
         ELSE Goto(s, "failed")

\* There is none, it is no distributor, or the node does not know of it yet.
MissDistributor(s) ==
    /\ session[s].at = "get_account"
    /\ command[s].command = "new-distributor"
    /\ Send(s, "new_distributor")

\* The node cannot be reached, or gives no blockhash: a panic in every command.
NodeFails(s) ==
    /\ \/ session[s].at \in {"get_account", "get_ata"}
       \/ session[s].at = "new_distributor" /\ session[s].tx = "err"
    /\ Goto(s, "failed")

\* send_and_confirm returned Ok.
Succeed(s) ==
    /\ session[s].tx = "ok"
    /\ IF session[s].at \in {"create_and_new_claim", "new_claim"}
         THEN Send(s, "claim_locked")
         ELSE Goto(s, "done")

\* It returned Err: an unwrap panics, except that new-distributor prints the
\* error and fails only if there is a distributor that does not match.  This read,
\* at the processed commitment, is taken to show the chain as it is.
\* Mutant: the result of new_claim is ignored.
Fail_Ignored(s) ==
    /\ session[s].tx = "err"
    /\ IF session[s].at \in {"create_and_new_claim", "new_claim"}
         THEN Send(s, "claim_locked")
         ELSE Goto(s, "failed")

\* Mutant: no command looks at the result.
Fail_Silent(s) ==
    /\ session[s].tx = "err"
    /\ Goto(s, "done")

Fail(s) ==
    /\ session[s].tx = "err"
    /\ IF /\ session[s].at = "new_distributor"
          /\ Exists(Target) => OnchainMatches(command[s])
         THEN Goto(s, "done")
         ELSE Goto(s, "failed")

\* The process is killed; what it has sent stays sent.
Kill(s) ==
    /\ session[s].at \notin {"idle", "done", "failed"}
    /\ stray' = IF IsWaiting(s) THEN stray \cup {<<s, session[s].at>>} ELSE stray
    /\ session' = [session EXCEPT ![s].at = "idle", ![s].tx = "none"]
    /\ UNCHANGED <<vars, command, funded>>

------------------------------------------------------------------------------
CliNext ==
    \/ Next /\ LamportsAreTakenOver /\ UNCHANGED <<command, session, stray>>
    \/ \E address \in Address : SendLamports(address)
    \/ \E s \in Session :
        \/ Start(s) \/ Kill(s)
        \/ FindClaim(s) \/ MissClaim(s)
        \/ FindAta(s) \/ MissAta(s)
        \/ FindDistributor(s) \/ MissDistributor(s)
        \/ NodeFails(s)
        \/ Succeed(s) \/ Fail(s)
        \/ Land(s) \/ Refuse(s) \/ GiveUp(s)
    \/ \E tx \in stray : StrayLands(tx) \/ StrayExpires(tx)

CliSpec == CliInit /\ [][CliNext]_cliVars

\* What get_account tells a process is so.
ReadsClaim(s) ==
    \/ FindClaim(s)
    \/ MissClaim(s) /\ ~IsThere(ClaimStatusOf(command[s].keypair))

ReadsAta(s) ==
    \/ FindAta(s)
    \/ MissAta(s) /\ ~IsThere(AtaOf(command[s].keypair))

\* Users run their command again when it has ended, and no call waits for ever.
\* Processes are not always killed at the same point, and the node is not always
\* behind, nor the network at fault, when one gets there.
CliIsFair ==
    /\ WF_cliVars(Tick /\ LamportsAreTakenOver
                       /\ UNCHANGED <<command, session, stray>>)
    /\ \A s \in Session :
        /\ WF_cliVars(Start(s) \/ Refuse(s) \/ Fail(s) \/ Succeed(s))
        /\ SF_cliVars(ReadsClaim(s))
        /\ SF_cliVars(ReadsAta(s))
        /\ SF_cliVars(Land(s))

FairCliSpec == CliSpec /\ CliIsFair

------------------------------------------------------------------------------
(* Properties.                                                             *)

Runs(s, name) == command[s].command = name

\* The terms on chain that no instruction can change are those of the command.
TermsAreMine(s) ==
    LET onchain == distributor[Target]
        mine    == command[s].args
    IN  /\ onchain.root = mine.root
        /\ onchain.max_total_claim = mine.max_total_claim
        /\ onchain.max_num_nodes = mine.max_num_nodes
        /\ onchain.start_ts = mine.start_vesting_ts
        /\ onchain.end_ts = mine.end_vesting_ts
        /\ onchain.clawback_start_ts = mine.clawback_start_ts

\* Types, and: a process that has a transaction, or the answer to one, is in the
\* call that sent it.
CliTypeOK ==
    /\ command \in [Session -> Commands]
    /\ session \in [Session -> SessionState]
    /\ \A s \in Session :
        session[s].tx # "none" => session[s].at \in Transaction
    /\ stray \subseteq (Session \X Transaction)
    /\ funded \subseteq Address
    /\ \A address \in funded : ~IsInUse(address)

\* claim skips new_claim only when there is a claim to withdraw from, however
\* late its view of the chain, whichever of its transactions were lost, and
\* whoever else claims for the same wallet - unless somebody has sent lamports to
\* the address of the claim, which it takes for one.
OnlyLamportsMislead ==
    \A s \in Session : session[s].at = "claim_locked" =>
        \/ HasClaim(Target, command[s].keypair)
        \/ ClaimStatusOf(command[s].keypair) \in funded

\* A command that reports success had its effect on the chain: a claim has paid
\* something since it was started, a clawback has closed the distributor.
SuccessIsReal ==
    \A s \in Session : session[s].at = "done" =>
        /\ Runs(s, "claim") =>
              Paid(Target, command[s].keypair) > session[s].paid_before
        /\ Runs(s, "clawback") => ClawedBack(Target)

\* new-distributor never ends normally on a distributor that has other terms
\* than its own, whoever created it and however the transactions were ordered.
AcceptedTermsAreMine ==
    [][\A s \in Session :
        /\ Runs(s, "new-distributor")
        /\ session[s].at # "done" /\ session'[s].at = "done"
        /\ Exists(Target)
        => TermsAreMine(s)]_cliVars

\* A claimant who runs claim again whenever it has ended is paid his whole
\* grant, whatever runs were killed, lost or overtaken before, unless the
\* distributor is clawed back first.  Two things stop him for good, and are
\* excluded: a token account that he does not keep open, as only
\* process_new_claim would create it, and lamports that stay at the address of a
\* claim that is yet to be made, which keep claim from ever making it.
RerunsArePaid ==
    \A s \in Session, leaf \in Tree :
        <>[](Runs(s, "claim") /\ leaf.claimant = command[s].keypair
               /\ IsTokenAccount(Ata[leaf.claimant])
               /\ ClaimStatusOf(leaf.claimant) \notin funded)
          => (IsSolvent(Target) /\ distributor[Target].root = Tree)
               ~> (\/ ClawedBack(Target)
                   \/ Paid(Target, leaf.claimant) = GrantOf(leaf))

==============================================================================
