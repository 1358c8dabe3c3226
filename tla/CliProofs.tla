------------------------------ MODULE CliProofs ------------------------------
(***************************************************************************)
(* Safety of the command line, for any number of sessions and commands, in *)
(* any order, on any chain that MerkleDistributor allows.                  *)
(***************************************************************************)
EXTENDS Cli, MerkleDistributorProofs

------------------------------------------------------------------------------
(* The inductive invariant.                                                *)

\* The command that sends a transaction.
CommandFor(tx) ==
    IF tx \in {"create_and_new_claim", "new_claim", "claim_locked"} THEN "claim"
    ELSE IF tx = "new_distributor" THEN "new-distributor"
    ELSE IF tx = "clawback" THEN "clawback"
    ELSE "set-admin"

\* A process is somewhere in the command it runs.
IsInItsCommand(s) ==
    /\ session[s].tx # "none" => session[s].at \in Transaction
    /\ session[s].at \in Transaction => Runs(s, CommandFor(session[s].at))
    /\ session[s].at = "get_ata" => Runs(s, "claim")

HasClaimed(s) == HasClaim(Target, command[s].keypair)

\* get_account has something at the address of the claim.
SeesClaim(s) == IsThere(ClaimStatusOf(command[s].keypair))

HasBeenPaid(s) == Paid(Target, command[s].keypair) > session[s].paid_before

\* What a process has been told of its transactions is true for good: a claim
\* that was made stays, what was paid stays paid, a clawback is final, and the
\* terms of a distributor that was created do not change.
KnowsTheChain(s) ==
    /\ Runs(s, "claim") =>
          session[s].paid_before <= Paid(Target, command[s].keypair)
    /\ session[s].at = "claim_locked" => SeesClaim(s)
    /\ session[s].tx = "ok" =>
        /\ session[s].at \in {"create_and_new_claim", "new_claim"} =>
              HasClaimed(s)
        /\ session[s].at = "claim_locked" => HasBeenPaid(s)
        /\ session[s].at = "clawback" => ClawedBack(Target)
        /\ session[s].at = "new_distributor" => Exists(Target) /\ TermsAreMine(s)
    /\ session[s].at = "done" =>
        /\ Runs(s, "claim") => HasBeenPaid(s)
        /\ Runs(s, "clawback") => ClawedBack(Target)

SessionInv(s) ==
    /\ session[s] \in SessionState
    /\ IsInItsCommand(s)
    /\ KnowsTheChain(s)

\* A transaction that nobody waits for was sent by the command of its session.
StrayInv ==
    \A tx \in stray : /\ tx \in Session \X Transaction
                      /\ Runs(tx[1], CommandFor(tx[2]))

\* Lamports lie where there is nothing else.
LamportsInv ==
    /\ funded \subseteq Address
    /\ \A address \in funded : ~IsInUse(address)

CliInv ==
    /\ TypeOK
    /\ command \in [Session -> Commands]
    /\ session \in [Session -> SessionState]
    /\ \A s \in Session : SessionInv(s)
    /\ StrayInv
    /\ LamportsInv

LEMMA InvTypes == CliInv => CliTypeOK
BY DEF CliInv, SessionInv, IsInItsCommand, StrayInv, LamportsInv, CliTypeOK

------------------------------------------------------------------------------
(* What sessions do to the chain are instructions of the program.          *)

LEMMA CommandKinds ==
    ASSUME NEW cmd \in Commands
    PROVE  /\ cmd.command \in {"claim", "clawback", "set-admin",
                               "new-distributor"}
           /\ cmd.command = "claim" =>
                /\ cmd.keypair \in Wallet
                /\ Ata[cmd.keypair] \in TokenAccount
           /\ cmd.command = "set-admin" =>
                cmd.keypair \in Wallet /\ cmd.new_admin \in Wallet
           /\ cmd.command = "new-distributor" =>
                /\ cmd.keypair \in Wallet
                /\ cmd.clawback_receiver_token_account \in Account
                /\ cmd.args \in NewDistributorArgs
<1>1. \/ cmd \in [command : {"claim"}, keypair : Wallet]
      \/ cmd \in [command : {"clawback"}, clawback_keypair : Wallet]
      \/ cmd \in [command : {"set-admin"}, keypair : Wallet, new_admin : Wallet]
      \/ cmd \in [command : {"new-distributor"}, keypair : Wallet,
                  clawback_receiver_token_account : Account,
                  args : NewDistributorArgs]
  BY CliAssumption DEF Command
<1>2. cmd.command = "claim" => Ata[cmd.keypair] \in TokenAccount
  BY CliAssumption
<1>3. QED
  BY <1>1, <1>2

LEMMA ExecuteIsInstruction ==
    ASSUME command \in [Session -> Commands],
           NEW s \in Session, NEW tx \in Transaction,
           Runs(s, CommandFor(tx)), Execute(s, tx)
    PROVE  Next
<1> DEFINE cmd == command[s]
<1>1. cmd \in Commands /\ Target \in Distributor
  BY CliAssumption
<1>2. cmd.command = CommandFor(tx)
  BY DEF Runs
<1>3. CASE tx = "create_and_new_claim" \/ tx = "new_claim"
  <2>1. cmd.keypair \in Wallet /\ Ata[cmd.keypair] \in TokenAccount
    BY <1>1, <1>2, <1>3, CommandKinds DEF CommandFor
  <2>2. NewClaimTx(s, TRUE) \/ NewClaimTx(s, FALSE)
    BY <1>3 DEF Execute
  <2>3. PICK leaf \in Tree : NewClaim(Target, cmd.keypair, Ata[cmd.keypair],
                                      leaf.amount_unlocked, leaf.amount_locked)
    BY <2>2 DEF NewClaimTx
  <2>4. leaf.amount_unlocked \in U64 /\ leaf.amount_locked \in U64
    BY CliAssumption DEF Leaf
  <2>5. QED
    BY <1>1, <2>1, <2>3, <2>4 DEF Next
<1>4. CASE tx = "claim_locked"
  <2>1. cmd.keypair \in Wallet /\ Ata[cmd.keypair] \in TokenAccount
    BY <1>1, <1>2, <1>4, CommandKinds DEF CommandFor
  <2>2. ClaimLocked(Target, cmd.keypair, Ata[cmd.keypair])
    BY <1>4 DEF Execute, ClaimLockedTx
  <2>3. QED
    BY <1>1, <2>1, <2>2 DEF Next
<1>5. CASE tx = "new_distributor"
  <2>1. /\ cmd.keypair \in Wallet
        /\ cmd.clawback_receiver_token_account \in Account
        /\ cmd.args \in NewDistributorArgs
    BY <1>1, <1>2, <1>5, CommandKinds DEF CommandFor
  <2>2. NewDistributor(Target, cmd.keypair,
                       cmd.clawback_receiver_token_account, cmd.args)
    BY <1>5 DEF Execute, NewDistributorTx
  <2>3. QED
    BY <1>1, <2>1, <2>2 DEF Next
<1>6. CASE tx = "clawback"
  BY <1>1, <1>6 DEF Execute, ClawbackTx, Next
<1>7. CASE tx = "set_admin"
  <2>1. cmd.keypair \in Wallet /\ cmd.new_admin \in Wallet
    BY <1>1, <1>2, <1>7, CommandKinds DEF CommandFor
  <2>2. SetAdmin(Target, cmd.keypair, cmd.new_admin)
    BY <1>7 DEF Execute, SetAdminTx
  <2>3. QED
    BY <1>1, <2>1, <2>2 DEF Next
<1>8. QED
  BY <1>3, <1>4, <1>5, <1>6, <1>7 DEF Transaction

\* One session, or the network, or somebody else: a case of CliNext.
LEMMA CliCases ==
    ASSUME CliNext
    PROVE  \/ /\ Next /\ LamportsAreTakenOver
              /\ UNCHANGED <<command, session, stray>>
           \/ \E address \in Address : SendLamports(address)
           \/ \E s \in Session : \/ Start(s)
                                 \/ Kill(s)
                                 \/ FindClaim(s)
                                 \/ MissClaim(s)
                                 \/ FindAta(s)
                                 \/ MissAta(s)
                                 \/ FindDistributor(s)
                                 \/ MissDistributor(s)
                                 \/ NodeFails(s)
                                 \/ Succeed(s)
                                 \/ Fail(s)
                                 \/ Land(s)
                                 \/ Refuse(s)
                                 \/ GiveUp(s)
           \/ \E tx \in stray : StrayLands(tx) \/ StrayExpires(tx)
BY DEF CliNext

LEMMA ChainStep == ASSUME CliInv, [CliNext]_cliVars PROVE [Next]_vars
<1>1. command \in [Session -> Commands]
  BY DEF CliInv
<1>2. ASSUME NEW s \in Session, Land(s) PROVE Next
  <2>1. session[s].at \in Transaction /\ Runs(s, CommandFor(session[s].at))
    BY <1>2 DEF CliInv, SessionInv, IsInItsCommand, Land, IsWaiting
  <2>2. QED
    BY <1>1, <1>2, <2>1, ExecuteIsInstruction DEF Land
<1>3. ASSUME NEW tx \in stray, StrayLands(tx) PROVE Next
  <2>1. /\ tx[1] \in Session
        /\ tx[2] \in Transaction
        /\ Runs(tx[1], CommandFor(tx[2]))
    BY DEF CliInv, StrayInv
  <2>2. QED
    BY <1>1, <1>3, <2>1, ExecuteIsInstruction DEF StrayLands
<1>4. ASSUME NEW s \in Session,
             \/ Start(s) \/ Kill(s) \/ FindClaim(s) \/ MissClaim(s)
             \/ FindAta(s) \/ MissAta(s) \/ FindDistributor(s)
             \/ MissDistributor(s) \/ NodeFails(s) \/ Succeed(s) \/ Fail(s)
             \/ Refuse(s) \/ GiveUp(s)
      PROVE  UNCHANGED vars
  <2>1. \A at : Goto(s, at) \/ Send(s, at) => UNCHANGED vars
    BY DEF Goto, Send
  <2>2. QED
    BY <1>4, <2>1
    DEF Start, Kill, FindClaim, MissClaim, FindAta, MissAta, FindDistributor,
        MissDistributor, NodeFails, Succeed, Fail, Refuse, GiveUp
<1>5. CASE UNCHANGED cliVars
  BY <1>5 DEF cliVars
<1>6. QED
  BY <1>2, <1>3, <1>4, <1>5, CliCases DEF StrayExpires, SendLamports

------------------------------------------------------------------------------
(* What a step of the chain leaves true.                                   *)

LEMMA ClaimsOnlyGrow ==
    ASSUME TypeOK, [Next]_vars, NEW d \in Distributor, NEW w \in Wallet
    PROVE  /\ HasClaim(d, w) => HasClaim(d, w)'
           /\ Paid(d, w) \in Nat /\ Paid(d, w)' \in Nat
           /\ Paid(d, w) <= Paid(d, w)'
<1>1. Paid(d, w) \in Nat /\ Paid(d, w)' \in Nat
  <2>1. Paid(d, w) \in Nat
    BY PaidIsNatural
  <2>2. claim_status'[d][w] \in ClaimStatus \cup {NoAccount}
    BY StepTypes DEF TypeOK
  <2>3. CASE HasClaim(d, w)'
    <3>1. claim_status'[d][w] \in ClaimStatus
      BY <2>2, <2>3 DEF HasClaim
    <3>2. QED
      BY <2>1, <2>3, <3>1, AmountsAreNatural DEF Paid, ClaimStatus
  <2>4. CASE ~HasClaim(d, w)'
    BY <2>1, <2>4 DEF Paid
  <2>5. QED
    BY <2>3, <2>4
<1>2. CASE claim_status'[d] = claim_status[d]
  BY <1>1, <1>2 DEF HasClaim, Paid
<1>3. ASSUME NEW v \in Wallet, NEW to \in TokenAccount, NEW amount \in U64,
             Pays(d, v, to, amount)
      PROVE  /\ HasClaim(d, w) => HasClaim(d, w)'
             /\ Paid(d, w) <= Paid(d, w)'
  <2>1. amount \in Int /\ amount >= 0
    BY AmountsAreNatural
  <2>2. ClaimsOn(d)' = ClaimsOn(d) \cup {v}
    BY <1>3 DEF Pays
  <2>3. HasClaim(d, w) => HasClaim(d, w)'
    BY <2>2 DEF ClaimsOn
  <2>4. CASE v = w
    BY <1>1, <1>3, <2>1, <2>3, <2>4 DEF Pays
  <2>5. CASE v # w
    BY <1>1, <1>3, <2>3, <2>5 DEF Pays
  <2>6. QED
    BY <2>4, <2>5, <2>3
<1>4. QED
  BY <1>1, <1>2, <1>3, ClaimsStep, NewClaimPays, ClaimLockedPays,
     ClaimLockedAmount

LEMMA ClawbacksStay ==
    ASSUME TypeOK, [Next]_vars, NEW d \in Distributor, ClawedBack(d)
    PROVE  ClawedBack(d)'
BY StepKeepsTerms DEF ClawedBack, KeepsTerms

\* Lamports stay at their address until an account is made there.
LamportsStay == LamportsInv' /\ \A address \in funded : IsThere(address)'

LEMMA LamportsStep ==
    ASSUME LamportsInv, LamportsAreTakenOver \/ UNCHANGED <<vars, funded>>
    PROVE  LamportsStay
<1>1. CASE LamportsAreTakenOver
  BY <1>1 DEF LamportsInv, LamportsStay, LamportsAreTakenOver, IsThere
<1>2. CASE UNCHANGED <<vars, funded>>
  <2>1. \A address : IsInUse(address)' <=> IsInUse(address)
    BY <1>2 DEF vars, IsInUse, HasClaim, IsTokenAccount
  <2>2. QED
    BY <1>2, <2>1 DEF LamportsInv, LamportsStay, IsThere
<1>3. QED
  BY <1>1, <1>2

LEMMA ClaimIsThere ==
    ASSUME NEW w
    PROVE  IsThere(ClaimStatusOf(w)) <=>
             HasClaim(Target, w) \/ ClaimStatusOf(w) \in funded
<1>1. ClaimStatusOf(w)[1] = "claim_status" /\ ClaimStatusOf(w)[2] = w
  BY DEF ClaimStatusOf
<1>2. QED
  BY <1>1 DEF IsThere, IsInUse

\* What a process knows of the chain it goes on knowing.
LEMMA KnowledgeLasts ==
    ASSUME CliInv, [Next]_vars, command' = command, NEW s \in Session
    PROVE  /\ HasClaimed(s) /\ Runs(s, "claim") => HasClaimed(s)'
           /\ Runs(s, "claim") =>
                /\ Paid(Target, command[s].keypair) \in Nat
                /\ Paid(Target, command[s].keypair)' \in Nat
                /\ Paid(Target, command[s].keypair)
                     <= Paid(Target, command[s].keypair)'
           /\ ClawedBack(Target) => ClawedBack(Target)'
           /\ Exists(Target) /\ TermsAreMine(s) =>
                Exists(Target)' /\ TermsAreMine(s)'
<1>1. TypeOK /\ Target \in Distributor /\ command[s] \in Commands
  BY CliAssumption DEF CliInv
<1>2. Runs(s, "claim") => command[s].keypair \in Wallet
  BY <1>1, CommandKinds DEF Runs
<1>3. command'[s] = command[s]
  OBVIOUS
<1>4. Exists(Target) /\ TermsAreMine(s) => Exists(Target)' /\ TermsAreMine(s)'
  BY <1>1, <1>3, StepKeepsTerms, KeptTerms DEF TermsAreMine
<1>5. ASSUME Runs(s, "claim")
      PROVE  /\ HasClaimed(s) => HasClaimed(s)'
             /\ Paid(Target, command[s].keypair) \in Nat
             /\ Paid(Target, command[s].keypair)' \in Nat
             /\ Paid(Target, command[s].keypair)
                  <= Paid(Target, command[s].keypair)'
  <2>1. PICK w \in Wallet : command[s].keypair = w
    BY <1>2, <1>5
  <2>2. command'[s].keypair = w
    BY <1>3, <2>1
  <2>3. /\ HasClaim(Target, w) => HasClaim(Target, w)'
        /\ Paid(Target, w) \in Nat /\ Paid(Target, w)' \in Nat
        /\ Paid(Target, w) <= Paid(Target, w)'
    BY <1>1, ClaimsOnlyGrow
  <2>4. /\ Paid(Target, command[s].keypair) = Paid(Target, w)
        /\ Paid(Target, command[s].keypair)' = Paid(Target, w)'
        /\ HasClaimed(s) <=> HasClaim(Target, w)
        /\ HasClaimed(s)' <=> HasClaim(Target, w)'
    BY <2>1, <2>2 DEF HasClaimed, Paid, HasClaim
  <2>5. QED
    BY <2>3, <2>4
<1>6. QED
  BY <1>1, <1>4, <1>5, ClawbacksStay

LEMMA AccountLasts ==
    ASSUME CliInv, [Next]_vars, LamportsStay, command' = command,
           NEW s \in Session, Runs(s, "claim"), SeesClaim(s)
    PROVE  SeesClaim(s)'
<1> DEFINE w == command[s].keypair
<1>1. command'[s].keypair = w
  OBVIOUS
<1>2. CASE HasClaim(Target, w)
  <2>1. HasClaimed(s)'
    BY <1>2, KnowledgeLasts DEF HasClaimed
  <2>2. HasClaim(Target, w)'
    BY <1>1, <2>1 DEF HasClaimed, HasClaim
  <2>3. IsInUse(ClaimStatusOf(w))'
    BY <2>2 DEF IsInUse, ClaimStatusOf, HasClaim
  <2>4. QED
    BY <1>1, <2>3 DEF SeesClaim, IsThere, ClaimStatusOf
<1>3. CASE ~HasClaim(Target, w)
  <2>1. ClaimStatusOf(w) \in funded
    BY <1>3, ClaimIsThere DEF SeesClaim
  <2>2. IsThere(ClaimStatusOf(w))'
    BY <2>1 DEF LamportsStay
  <2>3. QED
    BY <1>1, <2>2 DEF SeesClaim, ClaimStatusOf
<1>4. QED
  BY <1>2, <1>3

------------------------------------------------------------------------------
(* What a step does to the state of a process.                             *)

At == Transaction \cup {"idle", "get_account", "get_ata", "done", "failed"}

Result == {"none", "pending", "ok", "err"}

\* A process goes on elsewhere, or learns what has become of its transaction.
Moved(s, at, tx) ==
    /\ session' \in [Session -> SessionState]
    /\ session'[s].at = at
    /\ session'[s].tx = tx
    /\ session'[s].paid_before = session[s].paid_before
    /\ \A r \in Session : r # s => session'[r] = session[r]

LEMMA StateSet ==
    ASSUME session \in [Session -> SessionState], NEW s \in Session,
           NEW at \in At, NEW tx \in Result
    PROVE  /\ session' = [session EXCEPT ![s].at = at, ![s].tx = tx]
                => Moved(s, at, tx)
           /\ session' = [session EXCEPT ![s].tx = tx]
                => Moved(s, session[s].at, tx)
<1>1. session[s] \in [at : At, tx : Result, paid_before : Nat]
  BY DEF SessionState, At, Result
<1> DEFINE new(a) == [session[s] EXCEPT !.at = a, !.tx = tx]
           same   == [session[s] EXCEPT !.tx = tx]
<1>2. /\ new(at) \in [at : At, tx : Result, paid_before : Nat]
      /\ new(at).at = at
      /\ new(at).tx = tx
      /\ new(at).paid_before = session[s].paid_before
  BY <1>1
<1>3. /\ same \in [at : At, tx : Result, paid_before : Nat]
      /\ same.at = session[s].at
      /\ same.tx = tx
      /\ same.paid_before = session[s].paid_before
  BY <1>1
<1>4. [session EXCEPT ![s].at = at, ![s].tx = tx]
        = [session EXCEPT ![s] = new(at)]
  BY <1>1
<1>5. [session EXCEPT ![s].tx = tx] = [session EXCEPT ![s] = same]
  BY <1>1
<1>6. SessionState = [at : At, tx : Result, paid_before : Nat]
  BY DEF SessionState, At, Result
<1> HIDE DEF new, same
<1>7. ASSUME session' = [session EXCEPT ![s] = new(at)]
      PROVE  Moved(s, at, tx)
  BY <1>2, <1>6, <1>7 DEF Moved
<1>8. ASSUME session' = [session EXCEPT ![s] = same]
      PROVE  Moved(s, session[s].at, tx)
  BY <1>3, <1>6, <1>8 DEF Moved
<1>9. QED
  BY <1>4, <1>5, <1>7, <1>8

LEMMA Moves ==
    ASSUME session \in [Session -> SessionState], NEW s \in Session
    PROVE  /\ \A at \in At : Goto(s, at) => Moved(s, at, "none")
           /\ \A ix \in Transaction : Send(s, ix) => Moved(s, ix, "pending")
           /\ Land(s) => Moved(s, session[s].at, "ok")
           /\ Refuse(s) \/ GiveUp(s) => Moved(s, session[s].at, "err")
           /\ Kill(s) => Moved(s, "idle", "none")
<1>1. Transaction \subseteq At /\ "idle" \in At
  BY DEF At
<1>2. \A tx \in {"none", "pending", "ok", "err"} : tx \in Result
  BY DEF Result
<1>3. \A at \in At : Goto(s, at) => Moved(s, at, "none")
  BY <1>2, StateSet DEF Goto
<1>4. \A ix \in Transaction : Send(s, ix) => Moved(s, ix, "pending")
  BY <1>1, <1>2, StateSet DEF Send
<1>5. Land(s) => Moved(s, session[s].at, "ok")
  BY <1>1, <1>2, StateSet DEF Land
<1>6. Refuse(s) \/ GiveUp(s) => Moved(s, session[s].at, "err")
  BY <1>1, <1>2, StateSet DEF Refuse, GiveUp
<1>7. Kill(s) => Moved(s, "idle", "none")
  BY <1>1, <1>2, StateSet DEF Kill
<1>8. QED
  BY <1>3, <1>4, <1>5, <1>6, <1>7

------------------------------------------------------------------------------
(* The steps of a process, and of its transactions.                        *)

\* A transaction that lands has the effect that its command looks for.
LEMMA LandingTakesEffect ==
    ASSUME CliInv, NEW s \in Session, Land(s)
    PROVE  /\ session[s].at \in {"create_and_new_claim", "new_claim"} =>
                HasClaimed(s)'
           /\ session[s].at = "claim_locked" =>
                Paid(Target, command[s].keypair)'
                  > Paid(Target, command[s].keypair)
           /\ session[s].at = "clawback" => ClawedBack(Target)'
           /\ session[s].at = "new_distributor" =>
                Exists(Target)' /\ TermsAreMine(s)'
<1> DEFINE cmd == command[s]
           at  == session[s].at
<1>1. /\ TypeOK /\ Target \in Distributor
      /\ cmd \in Commands
      /\ at \in Transaction /\ cmd.command = CommandFor(at)
      /\ command' = command
      /\ Execute(s, at)
  BY CliAssumption
  DEF CliInv, SessionInv, IsInItsCommand, Land, IsWaiting, Runs
<1>2. ASSUME at \in {"create_and_new_claim", "new_claim"}
      PROVE  HasClaimed(s)'
  <2>1. cmd.keypair \in Wallet
    BY <1>1, <1>2, CommandKinds DEF CommandFor
  <2>2. NewClaimTx(s, TRUE) \/ NewClaimTx(s, FALSE)
    BY <1>1, <1>2 DEF Execute
  <2>3. PICK leaf \in Tree : NewClaim(Target, cmd.keypair, Ata[cmd.keypair],
                                      leaf.amount_unlocked, leaf.amount_locked)
    BY <2>2 DEF NewClaimTx
  <2> DEFINE new == [locked_amount           |-> leaf.amount_locked,
                     locked_amount_withdrawn |-> 0,
                     unlocked_amount         |-> leaf.amount_unlocked]
  <2>4. leaf.amount_unlocked \in U64 /\ leaf.amount_locked \in U64
    BY CliAssumption DEF Leaf
  <2>5. new \in ClaimStatus
    BY <2>4, WidthAssumption DEF ClaimStatus, U64
  <2>6. claim_status'[Target][cmd.keypair] = new
    BY <1>1, <2>1, <2>3 DEF NewClaim, TypeOK
  <2>7. QED
    BY <1>1, <2>5, <2>6, NoAccountAssumption DEF HasClaimed, HasClaim
<1>3. ASSUME at = "claim_locked"
      PROVE  Paid(Target, cmd.keypair)' > Paid(Target, cmd.keypair)
  <2>1. PICK w \in Wallet : cmd.keypair = w /\ Ata[w] \in TokenAccount
    BY <1>1, <1>3, CommandKinds DEF CommandFor
  <2>2. ClaimLocked(Target, w, Ata[w])
    BY <1>1, <1>3, <2>1 DEF Execute, ClaimLockedTx
  <2>3. /\ Withdrawable(Target, w) \in Int
        /\ Withdrawable(Target, w) > 0
    BY <1>1, <2>1, <2>2, ClaimLockedAmount, AmountsAreNatural
  <2>4. Paid(Target, w)' = Paid(Target, w) + Withdrawable(Target, w)
    BY <1>1, <2>1, <2>2, ClaimLockedPays DEF Pays
  <2>5. Paid(Target, w) \in Int
    BY <1>1, PaidIsNatural
  <2>6. Paid(Target, w)' > Paid(Target, w)
    BY <2>3, <2>4, <2>5
  <2>7. /\ Paid(Target, cmd.keypair) = Paid(Target, w)
        /\ Paid(Target, cmd.keypair)' = Paid(Target, w)'
    BY <1>1, <2>1 DEF Paid, HasClaim
  <2>8. QED
    BY <2>6, <2>7
<1>4. ASSUME at = "clawback" PROVE ClawedBack(Target)'
  <2>1. Clawback(Target) /\ Exists(Target)
    BY <1>1, <1>4 DEF Execute, ClawbackTx, Open
  <2>2. distributor'[Target].clawed_back
    BY <1>1, <2>1, ExistingAccounts
    DEF Clawback, TypeOK, DistributorAccount
  <2>3. Next
    BY <1>1, <2>1 DEF Next
  <2>4. QED
    BY <1>1, <2>1, <2>2, <2>3, StepKeepsTerms DEF ClawedBack
<1>5. ASSUME at = "new_distributor" PROVE Exists(Target)' /\ TermsAreMine(s)'
  <2>1. /\ cmd.keypair \in Wallet
        /\ cmd.clawback_receiver_token_account \in Account
        /\ cmd.args \in Args
    BY <1>1, <1>5, CommandKinds, ArgsAssumption DEF CommandFor
  <2>2. NewDistributor(Target, cmd.keypair,
                       cmd.clawback_receiver_token_account, cmd.args)
    BY <1>1, <1>5 DEF Execute, NewDistributorTx
  <2> DEFINE new == [root                 |-> cmd.args.root,
                     max_total_claim      |-> cmd.args.max_total_claim,
                     max_num_nodes        |-> cmd.args.max_num_nodes,
                     total_amount_claimed |-> 0,
                     num_nodes_claimed    |-> 0,
                     start_ts             |-> cmd.args.start_vesting_ts,
                     end_ts               |-> cmd.args.end_vesting_ts,
                     clawback_start_ts    |-> cmd.args.clawback_start_ts,
                     clawback_receiver    |->
                        cmd.clawback_receiver_token_account,
                     admin                |-> cmd.keypair,
                     clawed_back          |-> FALSE]
  <2>3. distributor'[Target] = new
    BY <1>1, <2>2 DEF NewDistributor, TypeOK
  <2>4. new \in DistributorAccount
    BY <2>1, WidthAssumption DEF DistributorAccount, Args, U64
  <2>5. Exists(Target)'
    BY <2>3, <2>4, NoAccountAssumption DEF Exists
  <2>6. TermsAreMine(s)'
    BY <1>1, <2>3 DEF TermsAreMine
  <2>7. QED
    BY <2>5, <2>6
<1>6. QED
  BY <1>2, <1>3, <1>4, <1>5

\* A process that does nothing is in the place it was.
LEMMA OthersGoOn ==
    ASSUME CliInv, [Next]_vars, LamportsStay, command' = command,
           NEW s \in Session, session'[s] = session[s]
    PROVE  SessionInv(s)'
<1>1. SessionInv(s)
  BY DEF CliInv
<1>2. session[s].paid_before \in Nat
  BY DEF CliInv, SessionState
<1>3. IsInItsCommand(s)'
  BY <1>1 DEF SessionInv, IsInItsCommand, Runs
<1>4. KnowsTheChain(s)'
  <2> DEFINE before == session[s].paid_before
             paid   == Paid(Target, command[s].keypair)
  <2>1. session'[s].at = session[s].at /\ session'[s].tx = session[s].tx
        /\ session'[s].paid_before = before
        /\ \A name : Runs(s, name)' <=> Runs(s, name)
    BY DEF Runs
  <2>2. Runs(s, "claim") => /\ before <= paid => before <= paid'
                            /\ HasBeenPaid(s) => HasBeenPaid(s)'
    BY <1>2, <2>1, KnowledgeLasts DEF HasBeenPaid
  <2>3. /\ session[s].at \in {"create_and_new_claim", "new_claim",
                              "claim_locked"} => Runs(s, "claim")
        /\ IsInItsCommand(s)
    BY <1>1 DEF SessionInv, IsInItsCommand, CommandFor, Transaction
  <2> HIDE DEF before, paid
  <2>4. QED
    BY <1>1, <2>1, <2>2, <2>3, KnowledgeLasts, AccountLasts
    DEF SessionInv, KnowsTheChain, before, paid
<1>5. QED
  BY <1>1, <1>3, <1>4 DEF SessionInv

\* What a process that goes on elsewhere has to know.
LEMMA MovesToInv ==
    ASSUME CliInv, NEW s \in Session, NEW at \in At, NEW tx \in Result,
           Moved(s, at, tx), UNCHANGED <<vars, command, funded>>, StrayInv',
           tx # "ok",
           tx # "none" => at \in Transaction,
           at \in Transaction => Runs(s, CommandFor(at)),
           at = "get_ata" => Runs(s, "claim"),
           at = "claim_locked" => SeesClaim(s),
           at = "done" => /\ Runs(s, "claim") => HasBeenPaid(s)
                          /\ Runs(s, "clawback") => ClawedBack(Target)
    PROVE  CliInv'
<1>1. /\ session' \in [Session -> SessionState]
      /\ session'[s].at = at
      /\ session'[s].tx = tx
      /\ session'[s].paid_before = session[s].paid_before
      /\ \A r \in Session : r # s => session'[r] = session[r]
  BY DEF Moved
<1>2. UNCHANGED vars /\ command' = command /\ [Next]_vars /\ LamportsStay
  BY LamportsStep DEF CliInv
<1>3. \A r \in Session : r # s => SessionInv(r)'
  BY <1>1, <1>2, OthersGoOn
<1>4. SessionInv(s)'
  <2>1. /\ HasClaimed(s)' <=> HasClaimed(s)
        /\ Paid(Target, command[s].keypair)'
             = Paid(Target, command[s].keypair)
        /\ ClawedBack(Target)' <=> ClawedBack(Target)
        /\ \A name : Runs(s, name)' <=> Runs(s, name)
    BY <1>2 DEF vars, HasClaimed, HasClaim, Paid, ClawedBack, Exists, Runs
  <2>2. HasBeenPaid(s)' <=> HasBeenPaid(s)
    BY <1>1, <2>1 DEF HasBeenPaid
  <2>3. KnowsTheChain(s)
    BY DEF CliInv, SessionInv
  <2>4. at = "claim_locked" => Runs(s, "claim")
    BY DEF CommandFor, Transaction
  <2>5. at = "claim_locked" => SeesClaim(s)'
    BY <1>2, <2>4, AccountLasts
  <2>6. KnowsTheChain(s)'
    BY <1>1, <2>1, <2>2, <2>3, <2>5 DEF KnowsTheChain
  <2>7. IsInItsCommand(s)'
    BY <1>1, <2>1 DEF IsInItsCommand
  <2>8. QED
    BY <1>1, <2>6, <2>7 DEF SessionInv
<1>5. TypeOK' /\ LamportsInv'
  BY <1>2, StepTypes DEF CliInv, LamportsStay
<1>6. QED
  BY <1>1, <1>2, <1>3, <1>4, <1>5 DEF CliInv

LEMMA StartInv == ASSUME CliInv, NEW s \in Session, Start(s) PROVE CliInv'
<1> DEFINE cmd    == command[s].command
           at     == IF cmd = "clawback" THEN "clawback"
                     ELSE IF cmd = "set-admin" THEN "set_admin"
                     ELSE "get_account"
           tx     == IF cmd \in {"clawback", "set-admin"} THEN "pending"
                                                          ELSE "none"
           before == IF cmd = "claim" THEN Paid(Target, command[s].keypair)
                                      ELSE 0
           new    == [at |-> at, tx |-> tx, paid_before |-> before]
<1>1. /\ TypeOK
      /\ command[s] \in Commands
      /\ session \in [Session -> SessionState]
      /\ UNCHANGED vars /\ command' = command /\ stray' = stray
      /\ [Next]_vars /\ LamportsStay
  BY LamportsStep DEF CliInv, Start
<1>2. session' = [session EXCEPT ![s] = new]
  BY DEF Start
<1>3. before \in Nat
  <2>1. Runs(s, "claim") => before \in Nat
    BY <1>1, KnowledgeLasts DEF Runs
  <2>2. QED
    BY <2>1 DEF Runs
<1>4. new \in SessionState
  BY <1>3 DEF SessionState, Transaction
<1>5. session' \in [Session -> SessionState] /\ session'[s] = new
      /\ \A r \in Session : r # s => session'[r] = session[r]
  BY <1>1, <1>2, <1>4
<1>6. \A r \in Session : r # s => SessionInv(r)'
  BY <1>1, <1>5, OthersGoOn
<1>7. /\ session'[s].at = at
      /\ session'[s].tx = tx
      /\ session'[s].paid_before = before
  BY <1>5
<1>8. IsInItsCommand(s)'
  BY <1>1, <1>7 DEF IsInItsCommand, Runs, CommandFor, Transaction
<1>9. KnowsTheChain(s)'
  <2>1. Paid(Target, command[s].keypair)' = Paid(Target, command[s].keypair)
    BY <1>1 DEF vars, Paid, HasClaim
  <2>2. Runs(s, "claim")' <=> cmd = "claim"
    BY <1>1 DEF Runs
  <2>3. tx # "ok" /\ at # "claim_locked" /\ at # "done"
    OBVIOUS
  <2>4. Runs(s, "claim")' =>
          session'[s].paid_before <= Paid(Target, command[s].keypair)'
    BY <1>3, <1>7, <2>1, <2>2
  <2> HIDE DEF at, tx, before, new
  <2>5. QED
    BY <1>7, <2>3, <2>4 DEF KnowsTheChain
<1>10. SessionInv(s)'
  BY <1>4, <1>5, <1>8, <1>9 DEF SessionInv
<1>11. TypeOK' /\ StrayInv' /\ LamportsInv'
  BY <1>1, StepTypes DEF CliInv, StrayInv, LamportsStay, Runs
<1>12. QED
  BY <1>1, <1>5, <1>6, <1>10, <1>11 DEF CliInv

\* Transactions are sent by the command they belong to.
LEMMA SendInv ==
    ASSUME CliInv, NEW s \in Session, NEW ix \in Transaction, Send(s, ix),
           Runs(s, CommandFor(ix)), ix = "claim_locked" => SeesClaim(s)
    PROVE  CliInv'
<1>1. Moved(s, ix, "pending") /\ UNCHANGED <<vars, command, stray, funded>>
  BY Moves DEF CliInv, Send
<1>2. ix \in At /\ ix \notin {"get_ata", "done"} /\ "pending" \in Result
  BY DEF At, Result, Transaction
<1>3. StrayInv'
  BY <1>1 DEF CliInv, StrayInv, Runs
<1>4. QED
  BY <1>1, <1>2, <1>3, MovesToInv

LEMMA GotoInv ==
    ASSUME CliInv, NEW s \in Session, NEW at \in {"get_ata", "done", "failed"},
           Goto(s, at), at = "get_ata" => Runs(s, "claim"),
           at = "done" => /\ Runs(s, "claim") => HasBeenPaid(s)
                          /\ Runs(s, "clawback") => ClawedBack(Target)
    PROVE  CliInv'
<1>1. at \in At /\ at \notin Transaction /\ "none" \in Result
      /\ at # "claim_locked"
  BY DEF At, Result, Transaction
<1>2. Moved(s, at, "none") /\ UNCHANGED <<vars, command, stray, funded>>
  BY <1>1, Moves DEF CliInv, Goto
<1>3. StrayInv'
  BY <1>2 DEF CliInv, StrayInv, Runs
<1>4. QED
  BY <1>1, <1>2, <1>3, MovesToInv

\* Waiting ends with an answer, or without one.
LEMMA AnswerInv ==
    ASSUME CliInv, NEW s \in Session, Refuse(s) \/ GiveUp(s) PROVE CliInv'
<1>1. /\ Moved(s, session[s].at, "err")
      /\ UNCHANGED <<vars, command, funded>>
  BY Moves DEF CliInv, Refuse, GiveUp
<1>2. /\ session[s].at \in Transaction
      /\ Runs(s, CommandFor(session[s].at))
      /\ session[s].at = "claim_locked" => SeesClaim(s)
  BY DEF CliInv, SessionInv, IsInItsCommand, KnowsTheChain, Refuse, GiveUp,
         IsWaiting
<1>3. /\ session[s].at \in At
      /\ session[s].at \notin {"get_ata", "done"}
      /\ "err" \in Result
  BY <1>2 DEF At, Result, Transaction
<1>4. \/ stray' = stray
      \/ stray' = stray \cup {<<s, session[s].at>>}
  BY DEF Refuse, GiveUp
<1>5. StrayInv'
  BY <1>1, <1>2, <1>4 DEF CliInv, StrayInv, Runs
<1>6. QED
  BY <1>1, <1>2, <1>3, <1>5, MovesToInv

LEMMA KillInv == ASSUME CliInv, NEW s \in Session, Kill(s) PROVE CliInv'
<1>1. Moved(s, "idle", "none") /\ UNCHANGED <<vars, command, funded>>
  BY Moves DEF CliInv, Kill
<1>2. IsWaiting(s) => /\ session[s].at \in Transaction
                      /\ Runs(s, CommandFor(session[s].at))
  BY DEF CliInv, SessionInv, IsInItsCommand, IsWaiting
<1>3. "idle" \in At /\ "idle" \notin Transaction /\ "none" \in Result
  BY DEF At, Result, Transaction
<1>4. \/ stray' = stray
      \/ IsWaiting(s) /\ stray' = stray \cup {<<s, session[s].at>>}
  BY DEF Kill
<1>5. StrayInv'
  BY <1>1, <1>2, <1>4 DEF CliInv, StrayInv, Runs
<1>6. QED
  BY <1>1, <1>3, <1>5, MovesToInv

LEMMA LandInv == ASSUME CliInv, NEW s \in Session, Land(s) PROVE CliInv'
<1> DEFINE at == session[s].at
<1>1. Moved(s, at, "ok") /\ command' = command /\ stray' = stray
  BY Moves DEF CliInv, Land
<1>2. [Next]_vars /\ LamportsStay
  <2>1. CliNext
    BY DEF CliNext
  <2>2. QED
    BY <2>1, ChainStep, LamportsStep DEF CliInv, Land
<1>3. /\ session' \in [Session -> SessionState]
      /\ session'[s].at = at
      /\ session'[s].tx = "ok"
      /\ session'[s].paid_before = session[s].paid_before
      /\ \A r \in Session : r # s => session'[r] = session[r]
  BY <1>1 DEF Moved
<1>4. \A r \in Session : r # s => SessionInv(r)'
  BY <1>1, <1>2, <1>3, OthersGoOn
<1>5. /\ at \in Transaction
      /\ Runs(s, CommandFor(at))
      /\ KnowsTheChain(s)
      /\ session[s].paid_before \in Nat
      /\ \A name : Runs(s, name)' <=> Runs(s, name)
  BY <1>1 DEF CliInv, SessionInv, IsInItsCommand, Land, IsWaiting, Runs,
              SessionState
<1>6. at # "done" /\ at # "get_ata"
      /\ (at \in {"create_and_new_claim", "new_claim", "claim_locked"}
            => Runs(s, "claim"))
  BY <1>5 DEF Transaction, CommandFor
<1>7. IsInItsCommand(s)'
  BY <1>3, <1>5, <1>6 DEF IsInItsCommand
<1>8. KnowsTheChain(s)'
  <2> DEFINE before == session[s].paid_before
             paid   == Paid(Target, command[s].keypair)
  <2>1. Runs(s, "claim") => /\ before <= paid
                            /\ before <= paid'
                            /\ paid' > paid => paid' > before
    BY <1>2, <1>1, <1>5, KnowledgeLasts DEF KnowsTheChain
  <2>2. at = "claim_locked" => paid' > paid /\ SeesClaim(s)'
    BY <1>1, <1>2, <1>5, <1>6, LandingTakesEffect, AccountLasts
    DEF KnowsTheChain
  <2>3. at = "claim_locked" => HasBeenPaid(s)'
    BY <1>3, <1>6, <2>1, <2>2 DEF HasBeenPaid
  <2> HIDE DEF at, before, paid
  <2>4. Runs(s, "claim")' =>
          session'[s].paid_before <= Paid(Target, command[s].keypair)'
    BY <1>3, <1>5, <2>1 DEF before, paid
  <2>5. QED
    BY <1>3, <1>6, <2>2, <2>3, <2>4, LandingTakesEffect
    DEF KnowsTheChain, at
<1>9. SessionInv(s)'
  BY <1>3, <1>7, <1>8 DEF SessionInv
<1>10. TypeOK' /\ StrayInv' /\ LamportsInv'
  BY <1>1, <1>2, StepTypes DEF CliInv, StrayInv, LamportsStay, Runs
<1>11. QED
  BY <1>1, <1>3, <1>4, <1>9, <1>10 DEF CliInv

\* The chain moves, with or without a transaction that was left behind.
LEMMA ChainInv ==
    ASSUME CliInv, [CliNext]_cliVars, command' = command, session' = session,
           stray' \subseteq stray, LamportsStay
    PROVE  CliInv'
<1>1. [Next]_vars
  BY ChainStep
<1>2. \A s \in Session : SessionInv(s)'
  BY <1>1, OthersGoOn
<1>3. TypeOK' /\ StrayInv' /\ LamportsInv'
  BY <1>1, StepTypes DEF CliInv, StrayInv, LamportsStay, Runs
<1>4. QED
  BY <1>2, <1>3 DEF CliInv

\* Somebody sends lamports.
LEMMA SendLamportsInv ==
    ASSUME CliInv, NEW address \in Address, SendLamports(address)
    PROVE  CliInv'
<1>1. [CliNext]_cliVars
  BY DEF CliNext
<1>2. /\ UNCHANGED <<vars, command, session, stray>>
      /\ funded' = funded \cup {address}
      /\ ~IsInUse(address)
  BY DEF SendLamports, IsThere
<1>3. \A a : IsInUse(a)' <=> IsInUse(a)
  BY <1>2 DEF vars, IsInUse, HasClaim, IsTokenAccount
<1>4. LamportsStay
  BY <1>2, <1>3 DEF CliInv, LamportsInv, LamportsStay, IsThere
<1>5. QED
  BY <1>1, <1>2, <1>4, ChainInv

\* The steps of claim.
LEMMA ClaimInv ==
    ASSUME CliInv, NEW s \in Session,
           FindClaim(s) \/ MissClaim(s) \/ FindAta(s) \/ MissAta(s)
    PROVE  CliInv'
<1>1. session[s].at = "get_ata" => Runs(s, "claim")
  BY DEF CliInv, SessionInv, IsInItsCommand
<1>2. {"claim_locked", "new_claim", "create_and_new_claim"} \subseteq Transaction
  BY DEF Transaction
<1>3. CASE FindClaim(s)
  <2>1. Send(s, "claim_locked") /\ SeesClaim(s) /\ Runs(s, "claim")
    BY <1>3 DEF FindClaim, SeesClaim, Runs
  <2>2. QED
    BY <1>2, <2>1, SendInv DEF CommandFor
<1>4. CASE MissClaim(s)
  <2>1. Runs(s, "claim") /\ (Goto(s, "get_ata") \/ Goto(s, "failed"))
    BY <1>4 DEF MissClaim, Runs
  <2>2. QED
    BY <2>1, GotoInv
<1>5. CASE FindAta(s) \/ MissAta(s)
  <2>1. /\ Runs(s, "claim")
        /\ Send(s, "new_claim") \/ Send(s, "create_and_new_claim")
    BY <1>1, <1>5 DEF FindAta, MissAta
  <2>2. QED
    BY <1>2, <2>1, SendInv DEF CommandFor
<1>6. QED
  BY <1>3, <1>4, <1>5

\* The steps of new-distributor, and those that end a command.
LEMMA CommandInv ==
    ASSUME CliInv, NEW s \in Session,
           \/ FindDistributor(s) \/ MissDistributor(s) \/ NodeFails(s)
           \/ Succeed(s) \/ Fail(s)
    PROVE  CliInv'
<1>1. IsInItsCommand(s) /\ KnowsTheChain(s)
  BY DEF CliInv, SessionInv
<1>2. {"claim_locked", "new_distributor"} \subseteq Transaction
  BY DEF Transaction
<1>3. CASE FindDistributor(s) \/ MissDistributor(s)
  <2>1. /\ Runs(s, "new-distributor")
        /\ Send(s, "new_distributor") \/ Goto(s, "failed")
    BY <1>3 DEF FindDistributor, MissDistributor, Runs
  <2>2. QED
    BY <1>2, <2>1, SendInv, GotoInv DEF CommandFor
<1>4. CASE NodeFails(s)
  BY <1>4, GotoInv DEF NodeFails
<1>5. CASE Succeed(s)
  <2>1. session[s].tx = "ok" /\ session[s].at \in Transaction
    BY <1>1, <1>5 DEF Succeed, IsInItsCommand
  <2>2. CASE session[s].at \in {"create_and_new_claim", "new_claim"}
    <3>1. Send(s, "claim_locked") /\ SeesClaim(s) /\ Runs(s, "claim")
      BY <1>1, <1>5, <2>1, <2>2, ClaimIsThere
      DEF Succeed, KnowsTheChain, IsInItsCommand, CommandFor, HasClaimed,
          SeesClaim
    <3>2. QED
      BY <1>2, <3>1, SendInv DEF CommandFor
  <2>3. CASE session[s].at \notin {"create_and_new_claim", "new_claim"}
    <3>1. Goto(s, "done")
      BY <1>5, <2>3 DEF Succeed
    <3>2. Runs(s, "claim") => session[s].at = "claim_locked"
      BY <1>1, <2>1, <2>3 DEF IsInItsCommand, CommandFor, Runs, Transaction
    <3>3. Runs(s, "clawback") => session[s].at = "clawback"
      BY <1>1, <2>1, <2>3 DEF IsInItsCommand, CommandFor, Runs, Transaction
    <3>4. QED
      BY <1>1, <2>1, <3>1, <3>2, <3>3, GotoInv DEF KnowsTheChain
  <2>4. QED
    BY <2>2, <2>3
<1>6. CASE Fail(s)
  <2>1. Goto(s, "failed") \/ (session[s].at = "new_distributor"
                                /\ Goto(s, "done"))
    BY <1>6 DEF Fail
  <2>2. session[s].at = "new_distributor" =>
          ~Runs(s, "claim") /\ ~Runs(s, "clawback")
    BY <1>1, <1>2 DEF IsInItsCommand, CommandFor, Runs
  <2>3. QED
    BY <2>1, <2>2, GotoInv
<1>7. QED
  BY <1>3, <1>4, <1>5, <1>6

LEMMA InitCli == ASSUME CliInit PROVE CliInv
<1>1. TypeOK
  BY InitTypes DEF CliInit
<1>2. \A s \in Session : session[s] = [at |-> "idle", tx |-> "none",
                                       paid_before |-> 0]
  BY DEF CliInit
<1>3. session \in [Session -> SessionState]
  BY DEF CliInit, SessionState
<1>4. ASSUME NEW s \in Session PROVE SessionInv(s)
  <2>1. /\ session[s].at = "idle" /\ session[s].tx = "none"
        /\ session[s].paid_before = 0
    BY <1>2
  <2>2. Runs(s, "claim") => Paid(Target, command[s].keypair) \in Nat
    BY <1>1, CommandKinds, CliAssumption, PaidIsNatural DEF CliInit, Runs
  <2>3. QED
    BY <1>3, <2>1, <2>2
    DEF SessionInv, IsInItsCommand, KnowsTheChain, Transaction
<1>5. QED
  BY <1>1, <1>3, <1>4 DEF CliInv, StrayInv, LamportsInv, CliInit

LEMMA StepCli == ASSUME CliInv, [CliNext]_cliVars PROVE CliInv'
<1>1. CASE /\ Next /\ LamportsAreTakenOver
           /\ UNCHANGED <<command, session, stray>>
  BY <1>1, LamportsStep, ChainInv DEF CliInv
<1>2. CASE UNCHANGED cliVars
  BY <1>2, LamportsStep, ChainInv DEF CliInv, cliVars
<1>3. ASSUME NEW tx \in stray, StrayLands(tx) \/ StrayExpires(tx)
      PROVE  CliInv'
  BY <1>3, LamportsStep, ChainInv DEF CliInv, StrayLands, StrayExpires
<1>4. QED
  BY <1>1, <1>2, <1>3, CliCases, SendLamportsInv, StartInv, KillInv, ClaimInv, CommandInv,
     LandInv, AnswerInv

LEMMA CliInvariant == CliSpec => []CliInv
<1>1. CliInit => CliInv
  BY InitCli
<1>2. CliInv /\ [CliNext]_cliVars => CliInv'
  BY StepCli
<1>3. QED
  BY <1>1, <1>2, PTL DEF CliSpec

------------------------------------------------------------------------------
(* The theorems.                                                           *)

\* Whatever the command lines do, in whatever order their transactions land,
\* the chain goes through a behaviour of the program: what is proved of the
\* program holds with them around.
THEOREM CommandsOnlyInstruct == CliSpec => Spec
<1>1. CliInit => Init
  BY DEF CliInit
<1>2. CliInv /\ [CliNext]_cliVars => [Next]_vars
  BY ChainStep
<1>3. QED
  BY <1>1, <1>2, CliInvariant, PTL DEF CliSpec, Spec

\* A process waits only in the call that sent its transaction.
THEOREM CliTypeCorrect == CliSpec => []CliTypeOK
BY InvTypes, CliInvariant, PTL

\* claim_locked is sent without a claim only to an address that somebody has sent
\* lamports to.
THEOREM SkipsCorrect == CliSpec => []OnlyLamportsMislead
<1>1. CliInv => OnlyLamportsMislead
  BY ClaimIsThere
  DEF CliInv, SessionInv, KnowsTheChain, SeesClaim, OnlyLamportsMislead
<1>2. QED
  BY <1>1, CliInvariant, PTL

\* A claim that reports success was paid, a clawback that does has closed.
THEOREM SuccessCorrect == CliSpec => []SuccessIsReal
<1>1. CliInv => SuccessIsReal
  BY DEF CliInv, SessionInv, KnowsTheChain, HasBeenPaid, SuccessIsReal
<1>2. QED
  BY <1>1, CliInvariant, PTL

\* A process moves only in its own steps, and reports success only when its
\* last call has returned.
LEMMA OneAtATime ==
    ASSUME CliInv, NEW r \in Session, NEW s \in Session, r # s,
           \/ Start(r) \/ Kill(r) \/ FindClaim(r) \/ MissClaim(r)
           \/ FindAta(r) \/ MissAta(r) \/ FindDistributor(r)
           \/ MissDistributor(r) \/ NodeFails(r) \/ Succeed(r) \/ Fail(r)
           \/ Land(r) \/ Refuse(r) \/ GiveUp(r)
    PROVE  session'[s] = session[s]
<1>1. session \in [Session -> SessionState]
  BY DEF CliInv
<1>2. \A at : Goto(r, at) \/ Send(r, at) => session'[s] = session[s]
  BY <1>1 DEF Goto, Send
<1>3. Land(r) \/ Refuse(r) \/ GiveUp(r) \/ Kill(r) \/ Start(r)
        => session'[s] = session[s]
  BY <1>1 DEF Land, Refuse, GiveUp, Kill, Start
<1>4. QED
  BY <1>2, <1>3
  DEF FindClaim, MissClaim, FindAta, MissAta, FindDistributor,
      MissDistributor, NodeFails, Succeed, Fail

LEMMA DoneComesLast ==
    ASSUME CliInv, NEW s \in Session,
           session[s].at # "done", session'[s].at = "done",
           \/ Start(s) \/ Kill(s) \/ FindClaim(s) \/ MissClaim(s)
           \/ FindAta(s) \/ MissAta(s) \/ FindDistributor(s)
           \/ MissDistributor(s) \/ NodeFails(s) \/ Succeed(s) \/ Fail(s)
           \/ Land(s) \/ Refuse(s) \/ GiveUp(s)
    PROVE  \/ Succeed(s)
           \/ /\ session[s].at = "new_distributor"
              /\ OnchainMatches(command[s]) \/ ~Exists(Target)
<1>1. session \in [Session -> SessionState]
  BY DEF CliInv
<1>2. {"failed", "get_ata"} \subseteq At /\ "done" \notin Transaction
      /\ {"claim_locked", "new_claim", "create_and_new_claim",
          "new_distributor"} \subseteq Transaction
  BY DEF At, Transaction
<1>3. \A at \in {"failed", "get_ata"} : ~Goto(s, at)
  BY <1>1, <1>2, Moves DEF Moved
<1>4. \A ix \in Transaction : ~Send(s, ix)
  BY <1>1, <1>2, Moves DEF Moved
<1>5. ~Land(s) /\ ~Refuse(s) /\ ~GiveUp(s) /\ ~Kill(s)
  BY <1>1, Moves DEF Moved
<1>6. ~Start(s)
  BY <1>1 DEF Start
<1>7. ~FindClaim(s) /\ ~MissClaim(s) /\ ~FindAta(s) /\ ~MissAta(s)
      /\ ~FindDistributor(s) /\ ~MissDistributor(s) /\ ~NodeFails(s)
  BY <1>2, <1>3, <1>4
  DEF FindClaim, MissClaim, FindAta, MissAta, FindDistributor,
      MissDistributor, NodeFails
<1>8. CASE Fail(s)
  BY <1>3, <1>8 DEF Fail
<1>9. QED
  BY <1>5, <1>6, <1>7, <1>8

\* new-distributor ends normally on no distributor but one of its own terms.
THEOREM AcceptanceCorrect == CliSpec => AcceptedTermsAreMine
<1> DEFINE Accepts == \A s \in Session :
                        /\ Runs(s, "new-distributor")
                        /\ session[s].at # "done" /\ session'[s].at = "done"
                        /\ Exists(Target)
                        => TermsAreMine(s)
<1>1. ASSUME CliInv, [CliNext]_cliVars PROVE Accepts
  <2> SUFFICES ASSUME NEW s \in Session, Runs(s, "new-distributor"),
                      session[s].at # "done", session'[s].at = "done",
                      Exists(Target)
               PROVE  TermsAreMine(s)
    OBVIOUS
  <2>1. IsInItsCommand(s) /\ KnowsTheChain(s)
        /\ session \in [Session -> SessionState]
    BY <1>1 DEF CliInv, SessionInv
  <2>2. PICK r \in Session :
           \/ Start(r) \/ Kill(r) \/ FindClaim(r) \/ MissClaim(r)
           \/ FindAta(r) \/ MissAta(r) \/ FindDistributor(r)
           \/ MissDistributor(r) \/ NodeFails(r) \/ Succeed(r) \/ Fail(r)
           \/ Land(r) \/ Refuse(r) \/ GiveUp(r)
    <3>1. session'[s] # session[s]
      OBVIOUS
    <3>2. QED
      BY <1>1, <3>1, CliCases
      DEF StrayLands, StrayExpires, SendLamports, cliVars
  <2>3. r = s
    BY <1>1, <2>2, OneAtATime
  <2>4. CASE Succeed(s)
    <3>1. session[s].tx = "ok" /\ session[s].at \in Transaction
      BY <2>1, <2>4 DEF Succeed, IsInItsCommand
    <3>2. session[s].at = "new_distributor"
      BY <2>1, <3>1 DEF IsInItsCommand, CommandFor, Runs, Transaction
    <3>3. QED
      BY <2>1, <3>1, <3>2 DEF KnowsTheChain
  <2>5. CASE OnchainMatches(command[s])
    BY <2>5 DEF OnchainMatches, TermsAreMine
  <2>6. QED
    BY <1>1, <2>2, <2>3, <2>4, <2>5, DoneComesLast
<1>2. QED
  BY <1>1, CliInvariant, PTL DEF CliSpec, AcceptedTermsAreMine

===============================================================================
