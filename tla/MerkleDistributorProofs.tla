----------------------- MODULE MerkleDistributorProofs -----------------------
(***************************************************************************)
(* The on-chain program, for every set of wallets, accounts and            *)
(* distributors, every word size and all terms: its safety, where the      *)
(* tokens of a distributor go, and that it keeps the promise of            *)
(* VestingGrants.                                                          *)
(***************************************************************************)
EXTENDS MerkleDistributorRefinement, VestingProofs, SumProofs

\* One instruction, with its signers and arguments: a case of Next.
LEMMA NextCases ==
    ASSUME Next
    PROVE  \/ Tick
           \/ \E from \in TokenAccount, to \in Account, amount \in U64 :
                TransferTokens(from, to, amount)
           \/ \E a \in Account : OpenAccount(a)
           \/ \E a \in TokenAccount : CloseAccount(a)
           \/ \E d \in Distributor, admin \in Wallet, a \in Account,
                 args \in NewDistributorArgs : NewDistributor(d, admin, a, args)
           \/ \E d \in Distributor, w \in Wallet, to \in TokenAccount,
                 u \in U64, l \in U64 : NewClaim(d, w, to, u, l)
           \/ \E d \in Distributor, w \in Wallet, to \in TokenAccount :
                 ClaimLocked(d, w, to)
           \/ \E d \in Distributor : Clawback(d)
           \/ \E d \in Distributor, w \in Wallet, a \in Account :
                 SetClawbackReceiver(d, w, a)
           \/ \E d \in Distributor, w \in Wallet, new \in Wallet :
                 SetAdmin(d, w, new)
BY DEF Next

\* A word holds the integers up to its maximum.
LEMMA WordsAreIntegers ==
    /\ U64 \subseteq Nat
    /\ I64 \subseteq Int
    /\ Time \subseteq I64
    /\ 0 .. MaxI64 \subseteq I64
    /\ \A t \in Time : t \in 0 .. MaxI64
BY WidthAssumption, TimeAssumption DEF U64, I64

\* The order of instants.
LEMMA InstantsAreOrdered ==
    ASSUME NEW t1 \in I64, NEW t2 \in I64, NEW t3 \in I64, t1 <= t2, t2 <= t3
    PROVE  t1 <= t3
<1>1. t1 \in Int /\ t2 \in Int /\ t3 \in Int
  BY WordsAreIntegers
<1>2. QED
  BY <1>1

\* An account that exists holds a distributor, a claim that exists a claim.
LEMMA ExistingAccounts ==
    ASSUME TypeOK, NEW d \in Distributor
    PROVE  /\ Exists(d) => distributor[d] \in DistributorAccount
           /\ \A w \in Wallet :
                HasClaim(d, w) => claim_status[d][w] \in ClaimStatus
BY DEF TypeOK, Exists, HasClaim

\* A transfer that succeeds leaves every balance a word.
LEMMA TransferKeepsWords ==
    ASSUME TypeOK, NEW from \in Account, NEW to \in Account, NEW amount \in U64,
           CanTransfer(from, to, amount)
    PROVE  Transferred(from, to, amount) \in [Account -> U64]
<1> SUFFICES ASSUME NEW a \in Account
             PROVE  Transferred(from, to, amount)[a] \in U64
  BY DEF Transferred
<1>1. balance[a] \in U64 /\ balance[from] \in U64
  BY DEF TypeOK
<1>2. CASE a = from /\ a # to
  BY <1>1, <1>2, WidthAssumption DEF Transferred, CanTransfer, U64
<1>3. CASE a # from /\ a = to
  BY <1>1, <1>3, WidthAssumption DEF Transferred, CanTransfer, U64
<1>4. CASE (a = from) <=> (a = to)
  BY <1>1, <1>4, WidthAssumption DEF Transferred, CanTransfer, U64
<1>5. QED
  BY <1>2, <1>3, <1>4

------------------------------------------------------------------------------
(* Types.                                                                  *)

LEMMA InitTypes == Init => TypeOK
<1> SUFFICES ASSUME Init PROVE TypeOK
  OBVIOUS
<1>1. clock \in Time
  BY DEF Init
<1>2. distributor \in [Distributor -> DistributorAccount \cup {NoAccount}]
  BY DEF Init
<1>3. claim_status \in
         [Distributor -> [Wallet -> ClaimStatus \cup {NoAccount}]]
  BY DEF Init
<1>4. balance \in [Account -> U64]
  <2>1. 0 \in U64
    BY WidthAssumption DEF U64
  <2>2. QED
    BY <2>1, AccountAssumption DEF Init, Account
<1>5. open_accounts \subseteq Account
  BY DEF Init, Account
<1>6. QED
  BY <1>1, <1>2, <1>3, <1>4, <1>5 DEF TypeOK

LEMMA TickTypes == ASSUME TypeOK, Tick PROVE TypeOK'
BY DEF TypeOK, Tick

LEMMA TransferTypes ==
    ASSUME TypeOK, NEW from \in TokenAccount, NEW to \in Account,
           NEW amount \in U64, TransferTokens(from, to, amount)
    PROVE  TypeOK'
<1>1. balance' \in [Account -> U64]
  BY TransferKeepsWords DEF TransferTokens, Account
<1>2. QED
  BY <1>1 DEF TypeOK, TransferTokens

LEMMA AccountTypes ==
    ASSUME TypeOK,
           \/ \E a \in Account : OpenAccount(a)
           \/ \E a \in TokenAccount : CloseAccount(a)
    PROVE  TypeOK'
BY DEF TypeOK, OpenAccount, CloseAccount

LEMMA NewDistributorTypes ==
    ASSUME TypeOK, NEW d \in Distributor, NEW admin \in Wallet,
           NEW a \in Account, NEW args \in NewDistributorArgs,
           NewDistributor(d, admin, a, args)
    PROVE  TypeOK'
<1> DEFINE new == [root                 |-> args.root,
                   max_total_claim      |-> args.max_total_claim,
                   max_num_nodes        |-> args.max_num_nodes,
                   total_amount_claimed |-> 0,
                   num_nodes_claimed    |-> 0,
                   start_ts             |-> args.start_vesting_ts,
                   end_ts               |-> args.end_vesting_ts,
                   clawback_start_ts    |-> args.clawback_start_ts,
                   clawback_receiver    |-> a,
                   admin                |-> admin,
                   clawed_back          |-> FALSE]
<1>1. args \in Args /\ 0 \in U64
  BY ArgsAssumption, WidthAssumption DEF U64
<1>2. new \in DistributorAccount
  BY <1>1 DEF Args, DistributorAccount
<1>3. distributor' = [distributor EXCEPT ![d] = new]
  BY DEF NewDistributor
<1> HIDE DEF new
<1>4. distributor' \in [Distributor -> DistributorAccount \cup {NoAccount}]
  BY <1>2, <1>3 DEF TypeOK
<1>5. open_accounts' \subseteq Account
  BY DEF TypeOK, NewDistributor, Account
<1>6. QED
  BY <1>4, <1>5 DEF TypeOK, NewDistributor

\* A payment within the caps leaves the counters of an open distributor words.
LEMMA RecordedTypes ==
    ASSUME TypeOK, NEW d \in Distributor, Open(d), NEW nodes \in {0, 1},
           NEW amount \in U64,
           nodes = 1 => WithinMaxNumNodes(d), WithinMaxTotalClaim(d, amount)
    PROVE  Recorded(d, nodes, amount)
             \in [Distributor -> DistributorAccount \cup {NoAccount}]
<1> DEFINE old == distributor[d]
           new == [old EXCEPT !.num_nodes_claimed = @ + nodes,
                              !.total_amount_claimed = @ + amount]
<1>1. old \in DistributorAccount
  BY ExistingAccounts DEF Open
<1>2. old.num_nodes_claimed + nodes \in U64
  <2>1. CASE nodes = 1
    BY <2>1 DEF WithinMaxNumNodes
  <2>2. CASE nodes = 0
    <3>1. old.num_nodes_claimed \in U64
      BY <1>1 DEF DistributorAccount
    <3>2. \A n \in U64 : n + 0 = n
      BY WordsAreIntegers
    <3> HIDE DEF old
    <3>3. QED
      BY <2>2, <3>1, <3>2
  <2>3. QED
    BY <2>1, <2>2
<1>3. old.total_amount_claimed + amount \in U64
  BY DEF WithinMaxTotalClaim
<1>4. new \in DistributorAccount
  BY <1>1, <1>2, <1>3 DEF DistributorAccount
<1>5. Recorded(d, nodes, amount) = [distributor EXCEPT ![d] = new]
  BY <1>1 DEF Recorded, TypeOK, DistributorAccount
<1> HIDE DEF new
<1>6. QED
  BY <1>4, <1>5 DEF TypeOK

LEMMA NewClaimTypes ==
    ASSUME TypeOK, NEW d \in Distributor, NEW w \in Wallet,
           NEW to \in TokenAccount, NEW u \in U64, NEW l \in U64,
           NewClaim(d, w, to, u, l)
    PROVE  TypeOK'
<1>1. balance' \in [Account -> U64]
  BY TransferKeepsWords DEF NewClaim, Account
<1>2. distributor' \in [Distributor -> DistributorAccount \cup {NoAccount}]
  BY RecordedTypes DEF NewClaim
<1>3. claim_status' \in [Distributor -> [Wallet -> ClaimStatus \cup {NoAccount}]]
  <2>1. [locked_amount |-> l, locked_amount_withdrawn |-> 0,
         unlocked_amount |-> u] \in ClaimStatus
    BY WidthAssumption DEF ClaimStatus, U64
  <2>2. QED
    BY <2>1 DEF NewClaim, TypeOK
<1>4. open_accounts' \subseteq Account
  BY DEF TypeOK, NewClaim, Account
<1>5. QED
  BY <1>1, <1>2, <1>3, <1>4 DEF TypeOK, NewClaim

\* What claim_locked pays is an amount, and leaves what was withdrawn from the
\* claim equal to what is unlocked now.
LEMMA ClaimLockedAmount ==
    ASSUME TypeOK, NEW d \in Distributor, NEW w \in Wallet,
           NEW to \in TokenAccount, ClaimLocked(d, w, to)
    PROVE  /\ distributor[d] \in DistributorAccount
           /\ claim_status[d][w] \in ClaimStatus
           /\ Withdrawable(d, w) \in U64
           /\ Withdrawable(d, w) > 0
           /\ claim_status[d][w].locked_amount_withdrawn + Withdrawable(d, w)
                = UnlockedAmount(claim_status[d][w], clock,
                                 distributor[d].start_ts, distributor[d].end_ts)
           /\ claim_status[d][w].locked_amount_withdrawn + Withdrawable(d, w)
                \in U64
<1> DEFINE cs == claim_status[d][w]
           unlocked == UnlockedAmount(cs, clock, distributor[d].start_ts,
                                      distributor[d].end_ts)
<1>1. distributor[d] \in DistributorAccount /\ cs \in ClaimStatus
  BY ExistingAccounts DEF ClaimLocked, Open
<1>2. /\ clock \in I64
      /\ distributor[d].start_ts \in I64
      /\ distributor[d].end_ts \in I64
  BY <1>1, WordsAreIntegers DEF TypeOK, DistributorAccount
<1>3. unlocked \in U64
  BY <1>1, <1>2, UnlockedIsBounded
<1>4. cs.locked_amount_withdrawn \in U64
  BY <1>1 DEF ClaimStatus
<1>5. Withdrawable(d, w) = unlocked - cs.locked_amount_withdrawn
  BY DEF Withdrawable, AmountWithdrawable
<1>6. Withdrawable(d, w) > 0
  BY DEF ClaimLocked
<1> HIDE DEF cs, unlocked
<1>7. Withdrawable(d, w) \in U64
      /\ cs.locked_amount_withdrawn + Withdrawable(d, w) = unlocked
  BY <1>3, <1>4, <1>5, <1>6, WidthAssumption DEF U64
<1>8. QED
  BY <1>1, <1>3, <1>6, <1>7 DEF cs, unlocked

\* Storing a withdrawal changes one field of one claim.
LEMMA WithdrawnClaim ==
    ASSUME TypeOK, NEW d \in Distributor, NEW w \in Wallet,
           claim_status[d][w] \in ClaimStatus, NEW amount
    PROVE  LET new == [claim_status[d][w] EXCEPT
                          !.locked_amount_withdrawn = @ + amount]
           IN  Withdrawn(d, w, amount) = [claim_status EXCEPT ![d][w] = new]
BY DEF TypeOK, Withdrawn, ClaimStatus

\* A claim after claim_locked.
LEMMA ClaimAfterWithdrawal ==
    ASSUME TypeOK, NEW d \in Distributor, NEW w \in Wallet,
           NEW to \in TokenAccount, ClaimLocked(d, w, to)
    PROVE  claim_status'[d][w] =
             [claim_status[d][w] EXCEPT
                !.locked_amount_withdrawn = @ + Withdrawable(d, w)]
<1> DEFINE new == [claim_status[d][w] EXCEPT
                     !.locked_amount_withdrawn = @ + Withdrawable(d, w)]
<1>1. Withdrawn(d, w, Withdrawable(d, w)) = [claim_status EXCEPT ![d][w] = new]
  BY ClaimLockedAmount, WithdrawnClaim
<1> HIDE DEF new
<1>2. claim_status' = [claim_status EXCEPT ![d][w] = new]
  BY <1>1 DEF ClaimLocked
<1>3. claim_status'[d][w] = new
  BY <1>2 DEF TypeOK
<1>4. QED
  BY <1>3 DEF new

LEMMA ClaimLockedTypes ==
    ASSUME TypeOK, NEW d \in Distributor, NEW w \in Wallet,
           NEW to \in TokenAccount, ClaimLocked(d, w, to)
    PROVE  TypeOK'
<1> DEFINE amount == Withdrawable(d, w)
           new == [claim_status[d][w] EXCEPT
                      !.locked_amount_withdrawn = @ + amount]
<1>1. amount \in U64 /\ claim_status[d][w] \in ClaimStatus
      /\ claim_status[d][w].locked_amount_withdrawn + amount \in U64
  BY ClaimLockedAmount
<1>2. balance' \in [Account -> U64]
  BY <1>1, TransferKeepsWords DEF ClaimLocked, Account
<1>3. distributor' \in [Distributor -> DistributorAccount \cup {NoAccount}]
  BY <1>1, RecordedTypes DEF ClaimLocked
<1>4. claim_status' \in [Distributor -> [Wallet -> ClaimStatus \cup {NoAccount}]]
  <2>1. new \in ClaimStatus
    BY <1>1 DEF ClaimStatus
  <2>2. claim_status' = [claim_status EXCEPT ![d][w] = new]
    BY <1>1, WithdrawnClaim DEF ClaimLocked
  <2> HIDE DEF new
  <2>3. QED
    BY <2>1, <2>2 DEF TypeOK
<1>5. QED
  BY <1>2, <1>3, <1>4 DEF TypeOK, ClaimLocked

LEMMA ClawbackTypes ==
    ASSUME TypeOK, NEW d \in Distributor, Clawback(d)
    PROVE  TypeOK'
<1>1. distributor[d] \in DistributorAccount
  BY ExistingAccounts DEF Clawback, Open
<1>2. balance' \in [Account -> U64]
  <2>1. distributor[d].clawback_receiver \in Account /\ d \in Account
        /\ balance[d] \in U64
    BY <1>1 DEF DistributorAccount, TypeOK, Account
  <2>2. QED
    BY <2>1, TransferKeepsWords DEF Clawback
<1>3. distributor' \in [Distributor -> DistributorAccount \cup {NoAccount}]
  BY <1>1 DEF Clawback, TypeOK, DistributorAccount
<1>4. QED
  BY <1>2, <1>3 DEF TypeOK, Clawback

LEMMA SetClawbackReceiverTypes ==
    ASSUME TypeOK, NEW d \in Distributor, NEW w \in Wallet, NEW a \in Account,
           SetClawbackReceiver(d, w, a)
    PROVE  TypeOK'
<1>1. distributor[d] \in DistributorAccount
  BY ExistingAccounts DEF SetClawbackReceiver
<1>2. distributor' \in [Distributor -> DistributorAccount \cup {NoAccount}]
  BY <1>1 DEF SetClawbackReceiver, TypeOK, DistributorAccount
<1>3. QED
  BY <1>2 DEF TypeOK, SetClawbackReceiver

LEMMA SetAdminTypes ==
    ASSUME TypeOK, NEW d \in Distributor, NEW w \in Wallet, NEW new \in Wallet,
           SetAdmin(d, w, new)
    PROVE  TypeOK'
<1>1. distributor[d] \in DistributorAccount
  BY ExistingAccounts DEF SetAdmin
<1>2. distributor' \in [Distributor -> DistributorAccount \cup {NoAccount}]
  BY <1>1 DEF SetAdmin, TypeOK, DistributorAccount
<1>3. QED
  BY <1>2 DEF TypeOK, SetAdmin

LEMMA StepTypes == ASSUME TypeOK, [Next]_vars PROVE TypeOK'
<1>1. CASE UNCHANGED vars
  BY <1>1 DEF vars, TypeOK
<1>2. CASE Next
  BY <1>2, NextCases, TickTypes, TransferTypes, AccountTypes,
     NewDistributorTypes,
     NewClaimTypes, ClaimLockedTypes, ClawbackTypes, SetClawbackReceiverTypes,
     SetAdminTypes
<1>3. QED
  BY <1>1, <1>2

\* Every account keeps its type: no counter, claim or balance leaves its word.
THEOREM TypeCorrect == Spec => []TypeOK
<1>1. Init => TypeOK
  BY InitTypes
<1>2. TypeOK /\ [Next]_vars => TypeOK'
  BY StepTypes
<1>3. QED
  BY <1>1, <1>2, PTL DEF Spec

------------------------------------------------------------------------------
(* What a step leaves alone.                                               *)

FixedTerms == {"root", "max_total_claim", "max_num_nodes",
               "start_ts", "end_ts", "clawback_start_ts"}

\* A distributor's account after a step, seen from the one before it.
KeepsTerms(old, new) ==
    /\ new \in DistributorAccount
    /\ \A term \in FixedTerms : new[term] = old[term]
    /\ old.clawed_back => new.clawed_back

LEMMA KeptTerms ==
    ASSUME NEW old, NEW new, KeepsTerms(old, new)
    PROVE  /\ new.root = old.root
           /\ new.max_total_claim = old.max_total_claim
           /\ new.max_num_nodes = old.max_num_nodes
           /\ new.start_ts = old.start_ts
           /\ new.end_ts = old.end_ts
           /\ new.clawback_start_ts = old.clawback_start_ts
BY DEF KeepsTerms, FixedTerms

LEMMA RecordedKeepsTerms ==
    ASSUME TypeOK, NEW d \in Distributor, Open(d), NEW nodes \in {0, 1},
           NEW amount \in U64,
           nodes = 1 => WithinMaxNumNodes(d), WithinMaxTotalClaim(d, amount),
           NEW e \in Distributor, Exists(e)
    PROVE  /\ KeepsTerms(distributor[e], Recorded(d, nodes, amount)[e])
           /\ Recorded(d, nodes, amount)[e].clawed_back
                = distributor[e].clawed_back
<1>1. distributor[e] \in DistributorAccount
  BY ExistingAccounts
<1>2. Recorded(d, nodes, amount)[e]
        \in DistributorAccount \cup {NoAccount}
  BY RecordedTypes
<1>3. CASE e # d
  BY <1>1, <1>3 DEF Recorded, KeepsTerms, TypeOK
<1>4. CASE e = d
  <2> DEFINE new == [distributor[d] EXCEPT !.num_nodes_claimed = @ + nodes,
                                           !.total_amount_claimed = @ + amount]
  <2>1. Recorded(d, nodes, amount)[d] = new
    BY <1>1, <1>4 DEF Recorded, TypeOK, DistributorAccount
  <2>2. \A term \in FixedTerms \cup {"clawed_back"} :
            new[term] = distributor[d][term]
    BY <1>1, <1>4 DEF FixedTerms, DistributorAccount
  <2>3. new \in DistributorAccount
    <3>1. new.total_amount_claimed = distributor[d].total_amount_claimed + amount
      BY <1>1, <1>4 DEF DistributorAccount
    <3>2. new.num_nodes_claimed \in U64
      <4>1. CASE nodes = 1
        BY <1>1, <1>4, <4>1 DEF DistributorAccount, WithinMaxNumNodes
      <4>2. CASE nodes = 0
        BY <1>1, <1>4, <4>2, WordsAreIntegers DEF DistributorAccount
      <4>3. QED
        BY <4>1, <4>2
    <3>3. QED
      BY <1>1, <1>4, <3>1, <3>2 DEF DistributorAccount, WithinMaxTotalClaim
  <2> HIDE DEF new
  <2>4. QED
    BY <1>4, <2>1, <2>2, <2>3 DEF KeepsTerms
<1>5. QED
  BY <1>3, <1>4

\* The heart of TermsAreFixed: no instruction re-creates a distributor, alters
\* its terms or opens it again.
LEMMA StepKeepsTerms ==
    ASSUME TypeOK, [Next]_vars, NEW d \in Distributor, Exists(d)
    PROVE  KeepsTerms(distributor[d], distributor'[d]) /\ Exists(d)'
<1>1. distributor[d] \in DistributorAccount
  BY ExistingAccounts
<1>2. ASSUME distributor'[d] = distributor[d]
      PROVE  KeepsTerms(distributor[d], distributor'[d])
  BY <1>1, <1>2 DEF KeepsTerms
<1>3. KeepsTerms(distributor[d], distributor'[d])
  <2>1. CASE UNCHANGED vars
    BY <1>2, <2>1 DEF vars
  <2>2. CASE Tick
    BY <1>2, <2>2 DEF Tick
  <2>3. ASSUME NEW from \in TokenAccount, NEW to \in Account,
               NEW amount \in U64, TransferTokens(from, to, amount)
        PROVE  KeepsTerms(distributor[d], distributor'[d])
    BY <1>2, <2>3 DEF TransferTokens
  <2>4. ASSUME \/ \E a \in Account : OpenAccount(a)
               \/ \E a \in TokenAccount : CloseAccount(a)
        PROVE  KeepsTerms(distributor[d], distributor'[d])
    BY <1>2, <2>4 DEF OpenAccount, CloseAccount
  <2>5. ASSUME NEW e \in Distributor, NEW admin \in Wallet, NEW a \in Account,
               NEW args \in NewDistributorArgs, NewDistributor(e, admin, a, args)
        PROVE  KeepsTerms(distributor[d], distributor'[d])
    <3>1. d # e
      BY <2>5 DEF NewDistributor, MayInit, Exists
    <3>2. QED
      BY <1>2, <2>5, <3>1 DEF NewDistributor, TypeOK
  <2>6. ASSUME NEW e \in Distributor, NEW w \in Wallet, NEW to \in TokenAccount,
               NEW u \in U64, NEW l \in U64, NewClaim(e, w, to, u, l)
        PROVE  KeepsTerms(distributor[d], distributor'[d])
    BY <2>6, RecordedKeepsTerms DEF NewClaim
  <2>7. ASSUME NEW e \in Distributor, NEW w \in Wallet, NEW to \in TokenAccount,
               ClaimLocked(e, w, to)
        PROVE  KeepsTerms(distributor[d], distributor'[d])
    <3>1. Withdrawable(e, w) \in U64
      BY <2>7, ClaimLockedAmount
    <3>2. QED
      BY <2>7, <3>1, RecordedKeepsTerms DEF ClaimLocked
  <2>8. ASSUME NEW e \in Distributor, Clawback(e)
        PROVE  KeepsTerms(distributor[d], distributor'[d])
    <3>1. CASE d # e
      BY <1>2, <2>8, <3>1 DEF Clawback, TypeOK
    <3>2. CASE d = e
      BY <1>1, <2>8, <3>2
      DEF Clawback, TypeOK, KeepsTerms, FixedTerms, DistributorAccount
    <3>3. QED
      BY <3>1, <3>2
  <2>9. ASSUME NEW e \in Distributor, NEW w \in Wallet, NEW a \in Account,
               SetClawbackReceiver(e, w, a)
        PROVE  KeepsTerms(distributor[d], distributor'[d])
    <3>1. CASE d # e
      BY <1>2, <2>9, <3>1 DEF SetClawbackReceiver, TypeOK
    <3>2. CASE d = e
      BY <1>1, <2>9, <3>2
      DEF SetClawbackReceiver, TypeOK, KeepsTerms, FixedTerms, DistributorAccount
    <3>3. QED
      BY <3>1, <3>2
  <2>10. ASSUME NEW e \in Distributor, NEW w \in Wallet, NEW new \in Wallet,
               SetAdmin(e, w, new)
        PROVE  KeepsTerms(distributor[d], distributor'[d])
    <3>1. CASE d # e
      BY <1>2, <2>10, <3>1 DEF SetAdmin, TypeOK
    <3>2. CASE d = e
      BY <1>1, <2>10, <3>2
      DEF SetAdmin, TypeOK, KeepsTerms, FixedTerms, DistributorAccount
    <3>3. QED
      BY <3>1, <3>2
  <2>11. QED
    BY <2>1, <2>2, <2>3, <2>4, <2>5, <2>6, <2>7, <2>8, <2>9, <2>10,
       NextCases
<1>4. QED
  BY <1>3, NoAccountAssumption DEF KeepsTerms, Exists

\* The terms of a distributor are fixed when it is created.
THEOREM FixedTermsCorrect == Spec => TermsAreFixed
<1>1. TypeOK /\ [Next]_vars =>
        [\A d \in Distributor : Exists(d) =>
            /\ Exists(d)'
            /\ \A term \in {"root", "max_total_claim", "max_num_nodes",
                            "start_ts", "end_ts", "clawback_start_ts"} :
                 distributor'[d][term] = distributor[d][term]]_vars
  BY StepKeepsTerms DEF KeepsTerms, FixedTerms
<1>2. QED
  BY <1>1, TypeCorrect, PTL DEF Spec, TermsAreFixed

------------------------------------------------------------------------------
(* Schedules, claims and the clawback.                                     *)

\* What new_distributor checks of the timestamps, kept for good.
SchedulesHold ==
    \A d \in Distributor : Exists(d) =>
        /\ distributor[d].start_ts \in 0 .. MaxI64
        /\ distributor[d].end_ts \in 0 .. MaxI64
        /\ distributor[d].clawback_start_ts
             >= distributor[d].end_ts + SECONDS_PER_DAY

\* What was withdrawn from a claim is unlocked by now.
ClaimsFollowSchedules ==
    \A d \in Distributor, w \in Wallet : HasClaim(d, w) =>
        /\ Exists(d)
        /\ claim_status[d][w].locked_amount_withdrawn
             <= UnlockedAmount(claim_status[d][w], clock,
                               distributor[d].start_ts, distributor[d].end_ts)

ClawbacksWereDue ==
    \A d \in Distributor :
        ClawedBack(d) => clock >= distributor[d].clawback_start_ts

\* The inductive invariant: NeverAheadOfVesting compares a claim with the
\* schedule of its distributor at the present instant, so it needs the claim's
\* distributor to exist and its schedule to be one that vesting cannot
\* overflow on; NoClawbackBeforeGrantsVest needs the delay between the two
\* ends of the schedule, checked once, and the instant of the clawback.
VestingInv ==
    /\ TypeOK
    /\ SchedulesHold
    /\ ClaimsFollowSchedules
    /\ ClawbacksWereDue

LEMMA InitVesting == Init => VestingInv
<1> SUFFICES ASSUME Init PROVE VestingInv
  OBVIOUS
<1>1. \A d \in Distributor : ~Exists(d) /\ \A w \in Wallet : ~HasClaim(d, w)
  BY DEF Init, Exists, HasClaim
<1>2. QED
  BY <1>1, InitTypes
  DEF VestingInv, SchedulesHold, ClaimsFollowSchedules, ClawbacksWereDue,
      ClawedBack

\* Time never runs backwards.
LEMMA ClockAdvances ==
    ASSUME TypeOK, [Next]_vars
    PROVE  clock \in I64 /\ clock' \in I64 /\ clock <= clock'
<1>1. clock \in I64 /\ clock' \in I64
  BY StepTypes, WordsAreIntegers DEF TypeOK
<1>2. clock' = clock \/ Tick
  <2>1. \A from, to, amount : TransferTokens(from, to, amount) => clock' = clock
    BY DEF TransferTokens
  <2>2. \A a : OpenAccount(a) \/ CloseAccount(a) => clock' = clock
    BY DEF OpenAccount, CloseAccount
  <2>3. \A d, admin, a, args : NewDistributor(d, admin, a, args) => clock' = clock
    BY DEF NewDistributor
  <2>4. \A d, w, to, u, l : NewClaim(d, w, to, u, l) => clock' = clock
    BY DEF NewClaim
  <2>5. \A d, w, to : ClaimLocked(d, w, to) => clock' = clock
    BY DEF ClaimLocked
  <2>6. \A d : Clawback(d) => clock' = clock
    BY DEF Clawback
  <2>7. \A d, w, a : SetClawbackReceiver(d, w, a) \/ SetAdmin(d, w, a) =>
          clock' = clock
    BY DEF SetClawbackReceiver, SetAdmin
  <2>8. QED
    BY NextCases, <2>1, <2>2, <2>3, <2>4, <2>5, <2>6, <2>7 DEF vars
<1>3. QED
  BY <1>1, <1>2, WordsAreIntegers DEF Tick

\* A distributor comes into being by new_distributor only.
LEMMA OnlyNewDistributorCreates ==
    ASSUME TypeOK, [Next]_vars, NEW d \in Distributor, ~Exists(d), Exists(d)'
    PROVE  \E admin \in Wallet, a \in Account, args \in NewDistributorArgs :
                NewDistributor(d, admin, a, args)
<1>1. distributor[d] = NoAccount /\ distributor'[d] # NoAccount
  BY DEF Exists
<1>2. ASSUME distributor' = distributor PROVE FALSE
  BY <1>1, <1>2
<1>3. ASSUME NEW e \in Distributor, NEW admin \in Wallet, NEW a \in Account,
             NEW args \in NewDistributorArgs, NewDistributor(e, admin, a, args)
      PROVE  e = d
  BY <1>1, <1>3 DEF NewDistributor, TypeOK
<1>4. ASSUME NEW e \in Distributor, NEW w \in Wallet, NEW to \in TokenAccount,
             NEW u \in U64, NEW l \in U64, NewClaim(e, w, to, u, l)
      PROVE  FALSE
  BY <1>1, <1>4 DEF NewClaim, Open, Exists, Recorded, TypeOK
<1>5. ASSUME NEW e \in Distributor, NEW w \in Wallet, NEW to \in TokenAccount,
             ClaimLocked(e, w, to)
      PROVE  FALSE
  BY <1>1, <1>5 DEF ClaimLocked, Open, Exists, Recorded, TypeOK
<1>6. ASSUME NEW e \in Distributor, Clawback(e)
      PROVE  FALSE
  BY <1>1, <1>6 DEF Clawback, Open, Exists, TypeOK
<1>7. ASSUME NEW e \in Distributor, NEW w \in Wallet, NEW a \in Account,
             SetClawbackReceiver(e, w, a)
      PROVE  FALSE
  BY <1>1, <1>7 DEF SetClawbackReceiver, Exists, TypeOK
<1>8. ASSUME NEW e \in Distributor, NEW w \in Wallet, NEW new \in Wallet,
             SetAdmin(e, w, new)
      PROVE  FALSE
  BY <1>1, <1>8 DEF SetAdmin, Exists, TypeOK
<1>9. Next
  BY <1>2 DEF vars
<1>10. QED
  BY <1>2, <1>3, <1>4, <1>5, <1>6, <1>7, <1>8, <1>9, NextCases
  DEF Tick, TransferTokens, OpenAccount, CloseAccount

LEMMA StepSchedules ==
    ASSUME VestingInv, [Next]_vars PROVE SchedulesHold'
<1> SUFFICES ASSUME NEW d \in Distributor, Exists(d)'
             PROVE  /\ distributor'[d].start_ts \in 0 .. MaxI64
                    /\ distributor'[d].end_ts \in 0 .. MaxI64
                    /\ distributor'[d].clawback_start_ts
                         >= distributor'[d].end_ts + SECONDS_PER_DAY
  BY DEF SchedulesHold
<1>1. TypeOK
  BY DEF VestingInv
<1>2. CASE Exists(d)
  BY <1>1, <1>2, StepKeepsTerms, KeptTerms DEF VestingInv, SchedulesHold
<1>3. CASE ~Exists(d)
  <2>1. PICK admin \in Wallet, a \in Account, args \in NewDistributorArgs :
            NewDistributor(d, admin, a, args)
    BY <1>1, <1>3, OnlyNewDistributorCreates
  <2>2. /\ distributor'[d].start_ts = args.start_vesting_ts
        /\ distributor'[d].end_ts = args.end_vesting_ts
        /\ distributor'[d].clawback_start_ts = args.clawback_start_ts
    BY <1>1, <2>1 DEF NewDistributor, TypeOK
  <2>3. args \in Args /\ TimestampsAreValid(args)
    BY <2>1, ArgsAssumption DEF NewDistributor
  <2>4. clock \in 0 .. MaxI64
    BY <1>1, TimeAssumption DEF TypeOK
  <2>5. QED
    BY <2>2, <2>3, <2>4, WidthAssumption DEF Args, TimestampsAreValid, I64
<1>4. QED
  BY <1>2, <1>3

\* A distributor is closed by clawback only.
LEMMA OnlyClawbackCloses ==
    ASSUME TypeOK, [Next]_vars, NEW d \in Distributor, Exists(d),
           ~ClawedBack(d), ClawedBack(d)'
    PROVE  Clawback(d)
<1>1. /\ distributor[d] \in DistributorAccount
      /\ distributor[d].clawed_back = FALSE
      /\ distributor'[d].clawed_back
  BY ExistingAccounts DEF ClawedBack, DistributorAccount
<1>2. ASSUME distributor'[d] = distributor[d] PROVE FALSE
  BY <1>1, <1>2
<1>3. ASSUME NEW e \in Distributor, NEW admin \in Wallet, NEW a \in Account,
             NEW args \in NewDistributorArgs, NewDistributor(e, admin, a, args)
      PROVE  FALSE
  BY <1>2, <1>3 DEF NewDistributor, MayInit, Exists, TypeOK
<1>4. ASSUME NEW e \in Distributor, NEW w \in Wallet, NEW to \in TokenAccount,
             NEW u \in U64, NEW l \in U64, NewClaim(e, w, to, u, l)
      PROVE  FALSE
  BY <1>1, <1>4, RecordedKeepsTerms DEF NewClaim
<1>5. ASSUME NEW e \in Distributor, NEW w \in Wallet, NEW to \in TokenAccount,
             ClaimLocked(e, w, to)
      PROVE  FALSE
  BY <1>1, <1>5, ClaimLockedAmount, RecordedKeepsTerms DEF ClaimLocked
<1>6. ASSUME NEW e \in Distributor, Clawback(e) PROVE e = d
  BY <1>2, <1>6 DEF Clawback, TypeOK
<1>7. ASSUME NEW e \in Distributor, NEW w \in Wallet, NEW a \in Account,
             SetClawbackReceiver(e, w, a)
      PROVE  FALSE
  BY <1>1, <1>7 DEF SetClawbackReceiver, TypeOK, DistributorAccount
<1>8. ASSUME NEW e \in Distributor, NEW w \in Wallet, NEW new \in Wallet,
             SetAdmin(e, w, new)
      PROVE  FALSE
  BY <1>1, <1>8 DEF SetAdmin, TypeOK, DistributorAccount
<1>9. QED
  BY <1>2, <1>3, <1>4, <1>5, <1>6, <1>7, <1>8, NextCases
  DEF vars, Tick, TransferTokens, OpenAccount, CloseAccount

\* A claim appears by new_claim, and changes by its own claim_locked only.
LEMMA ClaimStep ==
    ASSUME TypeOK, [Next]_vars, NEW d \in Distributor, NEW w \in Wallet
    PROVE  \/ claim_status'[d][w] = claim_status[d][w]
           \/ \E to \in TokenAccount, u \in U64, l \in U64 :
                NewClaim(d, w, to, u, l)
           \/ \E to \in TokenAccount : ClaimLocked(d, w, to)
<1>1. ASSUME NEW e \in Distributor, NEW v \in Wallet, NEW to \in TokenAccount,
             NEW u \in U64, NEW l \in U64, NewClaim(e, v, to, u, l),
             claim_status'[d][w] # claim_status[d][w]
      PROVE  e = d /\ v = w
  BY <1>1 DEF NewClaim, TypeOK
<1>2. ASSUME NEW e \in Distributor, NEW v \in Wallet, NEW to \in TokenAccount,
             ClaimLocked(e, v, to),
             claim_status'[d][w] # claim_status[d][w]
      PROVE  e = d /\ v = w
  BY <1>2 DEF ClaimLocked, Withdrawn, TypeOK
<1>3. QED
  BY <1>1, <1>2, NextCases
  DEF vars, Tick, TransferTokens, OpenAccount, CloseAccount, NewDistributor,
      Clawback, SetClawbackReceiver, SetAdmin

LEMMA StepClaims ==
    ASSUME VestingInv, [Next]_vars PROVE ClaimsFollowSchedules'
<1> SUFFICES ASSUME NEW d \in Distributor, NEW w \in Wallet, HasClaim(d, w)'
             PROVE  /\ Exists(d)'
                    /\ claim_status'[d][w].locked_amount_withdrawn
                         <= UnlockedAmount(claim_status'[d][w], clock',
                                           distributor'[d].start_ts,
                                           distributor'[d].end_ts)
  BY DEF ClaimsFollowSchedules
<1> DEFINE old == claim_status[d][w]
           new == claim_status'[d][w]
           Unlocked(cs, t) == UnlockedAmount(cs, t, distributor[d].start_ts,
                                             distributor[d].end_ts)
<1>1. TypeOK /\ TypeOK' /\ new \in ClaimStatus
  <2>1. TypeOK /\ TypeOK'
    BY StepTypes DEF VestingInv
  <2>2. QED
    BY <2>1 DEF TypeOK, HasClaim
<1>2. clock \in I64 /\ clock' \in I64 /\ clock <= clock'
  BY <1>1, ClockAdvances
<1>3. Exists(d)
  BY <1>1, ClaimStep DEF VestingInv, ClaimsFollowSchedules, HasClaim, NewClaim,
     ClaimLocked, Open
<1>4. /\ Exists(d)'
      /\ distributor'[d].start_ts = distributor[d].start_ts
      /\ distributor'[d].end_ts = distributor[d].end_ts
  BY <1>1, <1>3, StepKeepsTerms, KeptTerms
<1>5. distributor[d].start_ts \in I64 /\ distributor[d].end_ts \in I64
  BY <1>1, <1>3, ExistingAccounts DEF DistributorAccount
<1>6. new.locked_amount_withdrawn <= Unlocked(new, clock')
  <2>1. CASE new = old
    <3>1. new.locked_amount_withdrawn <= Unlocked(new, clock)
      BY <2>1 DEF VestingInv, ClaimsFollowSchedules, HasClaim
    <3>2. Unlocked(new, clock) <= Unlocked(new, clock')
      BY <1>1, <1>2, <1>5, UnlockedIsMonotone
    <3>3. /\ Unlocked(new, clock) \in U64
          /\ Unlocked(new, clock') \in U64
          /\ new.locked_amount_withdrawn \in U64
      BY <1>1, <1>2, <1>5, UnlockedIsBounded DEF ClaimStatus
    <3> HIDE DEF new, Unlocked
    <3>4. QED
      BY <3>1, <3>2, <3>3, WidthAssumption DEF U64
  <2>2. ASSUME NEW to \in TokenAccount, NEW u \in U64, NEW l \in U64,
               NewClaim(d, w, to, u, l)
        PROVE  new.locked_amount_withdrawn <= Unlocked(new, clock')
    <3>1. new.locked_amount_withdrawn = 0
      BY <1>1, <2>2 DEF NewClaim, TypeOK
    <3>2. Unlocked(new, clock') \in U64
      BY <1>1, <1>2, <1>5, UnlockedIsBounded
    <3>3. QED
      BY <3>1, <3>2, WidthAssumption DEF U64
  <2>3. ASSUME NEW to \in TokenAccount, ClaimLocked(d, w, to)
        PROVE  new.locked_amount_withdrawn <= Unlocked(new, clock')
    <3> DEFINE amount == Withdrawable(d, w)
    <3>1. /\ old \in ClaimStatus
          /\ old.locked_amount_withdrawn + amount = Unlocked(old, clock)
          /\ Unlocked(old, clock) \in U64
      BY <1>1, <2>3, ClaimLockedAmount
    <3>2. new = [old EXCEPT !.locked_amount_withdrawn = @ + amount]
      BY <1>1, <2>3, ClaimAfterWithdrawal
    <3>3. /\ new.locked_amount_withdrawn = old.locked_amount_withdrawn + amount
          /\ new.locked_amount = old.locked_amount
      BY <3>1, <3>2 DEF ClaimStatus
    <3>4. Unlocked(new, clock') = Unlocked(old, clock)
      BY <2>3, <3>3 DEF ClaimLocked, UnlockedAmount
    <3>5. new.locked_amount_withdrawn = Unlocked(new, clock')
      BY <3>1, <3>3, <3>4
    <3>6. Unlocked(new, clock') \in Nat
      BY <3>1, <3>4, WidthAssumption DEF U64
    <3>7. QED
      BY <3>5, <3>6
  <2>4. QED
    BY <1>1, <2>1, <2>2, <2>3, ClaimStep
<1>7. QED
  BY <1>4, <1>6

LEMMA StepClawbacks ==
    ASSUME VestingInv, [Next]_vars PROVE ClawbacksWereDue'
<1> SUFFICES ASSUME NEW d \in Distributor, ClawedBack(d)'
             PROVE  clock' >= distributor'[d].clawback_start_ts
  BY DEF ClawbacksWereDue
<1>1. TypeOK /\ clock \in I64 /\ clock' \in I64 /\ clock <= clock'
  BY ClockAdvances DEF VestingInv
<1>2. CASE ~Exists(d)
  BY <1>1, <1>2, OnlyNewDistributorCreates
  DEF ClawedBack, NewDistributor, TypeOK
<1>3. CASE Exists(d)
  <2>1. /\ distributor'[d].clawback_start_ts = distributor[d].clawback_start_ts
        /\ distributor[d].clawback_start_ts \in I64
    BY <1>1, <1>3, StepKeepsTerms, KeptTerms, ExistingAccounts
    DEF DistributorAccount
  <2>2. CASE ClawedBack(d)
    <3>1. clock >= distributor[d].clawback_start_ts
      BY <2>2 DEF VestingInv, ClawbacksWereDue
    <3>2. QED
      BY <1>1, <2>1, <3>1, InstantsAreOrdered
  <2>3. CASE ~ClawedBack(d)
    <3>1. Clawback(d)
      BY <1>1, <1>3, <2>3, OnlyClawbackCloses
    <3>2. clock >= distributor[d].clawback_start_ts
      BY <3>1 DEF Clawback
    <3>3. QED
      BY <1>1, <2>1, <3>2, InstantsAreOrdered
  <2>4. QED
    BY <2>2, <2>3
<1>4. QED
  BY <1>2, <1>3

LEMMA StepVesting ==
    ASSUME VestingInv, [Next]_vars PROVE VestingInv'
BY StepTypes, StepSchedules, StepClaims, StepClawbacks DEF VestingInv

LEMMA VestingInvariant == Spec => []VestingInv
<1>1. Init => VestingInv
  BY InitVesting
<1>2. VestingInv /\ [Next]_vars => VestingInv'
  BY StepVesting
<1>3. QED
  BY <1>1, <1>2, PTL DEF Spec

\* Whenever the claim is withdrawn from, and however often, it never runs
\* ahead of its schedule: amount_withdrawable never fails on the chain's clock.
THEOREM VestingCorrect == Spec => []NeverAheadOfVesting
<1>1. VestingInv => NeverAheadOfVesting
  <2> SUFFICES ASSUME VestingInv, NEW d \in Distributor, NEW w \in Wallet,
                      HasClaim(d, w)
               PROVE  Exists(d) /\ WithdrawableIsOk(d, w)
    BY DEF NeverAheadOfVesting
  <2>1. Exists(d) /\ claim_status[d][w] \in ClaimStatus
    BY ExistingAccounts DEF VestingInv, ClaimsFollowSchedules
  <2>2. /\ clock \in 0 .. MaxI64
        /\ distributor[d].start_ts \in 0 .. MaxI64
        /\ distributor[d].end_ts \in 0 .. MaxI64
    BY <2>1, WordsAreIntegers DEF VestingInv, SchedulesHold, TypeOK
  <2>3. UnlockedAmountIsOk(claim_status[d][w], clock,
                           distributor[d].start_ts, distributor[d].end_ts)
    BY <2>1, <2>2, UnlockedNeverOverflows
  <2>4. QED
    BY <2>1, <2>3
    DEF VestingInv, ClaimsFollowSchedules, WithdrawableIsOk,
        AmountWithdrawableIsOk
<1>2. QED
  BY <1>1, VestingInvariant, PTL

\* The clawback leaves every claimant a day after the end of the schedule.
THEOREM ClawbackDelayCorrect == Spec => []NoClawbackBeforeGrantsVest
<1>1. VestingInv => NoClawbackBeforeGrantsVest
  <2> SUFFICES ASSUME VestingInv, NEW d \in Distributor, ClawedBack(d)
               PROVE  clock >= distributor[d].end_ts + SECONDS_PER_DAY
    BY DEF NoClawbackBeforeGrantsVest
  <2>1. /\ clock \in Int
        /\ distributor[d].end_ts \in Int
        /\ distributor[d].clawback_start_ts \in Int
        /\ SECONDS_PER_DAY \in Int
    <3>1. clock \in Int
      BY WordsAreIntegers DEF VestingInv, TypeOK
    <3>2. distributor[d] \in DistributorAccount
      BY ExistingAccounts DEF VestingInv, ClawedBack
    <3>3. QED
      BY <3>1, <3>2, WidthAssumption, TimeAssumption
      DEF DistributorAccount, I64
  <2>2. /\ clock >= distributor[d].clawback_start_ts
        /\ distributor[d].clawback_start_ts
             >= distributor[d].end_ts + SECONDS_PER_DAY
    BY DEF VestingInv, ClawbacksWereDue, SchedulesHold, ClawedBack
  <2>3. QED
    BY <2>1, <2>2
<1>2. QED
  BY <1>1, VestingInvariant, PTL

------------------------------------------------------------------------------
(* What a step may never do.                                               *)

\* A transfer debits its source only.
LEMMA OthersAreNotDebited ==
    ASSUME TypeOK, NEW from \in Account, NEW to \in Account, NEW amount \in U64,
           NEW a \in Account, a # from
    PROVE  Transferred(from, to, amount)[a] >= balance[a]
BY WidthAssumption DEF TypeOK, Transferred, U64

\* A vault is debited by the claims on its distributor and by its clawback.
LEMMA VaultStep ==
    ASSUME TypeOK, [Next]_vars, NEW d \in Distributor
    PROVE  \/ balance'[d] >= balance[d]
           \/ \E w \in Wallet, to \in TokenAccount, u \in U64, l \in U64 :
                NewClaim(d, w, to, u, l)
           \/ \E w \in Wallet, to \in TokenAccount : ClaimLocked(d, w, to)
           \/ Clawback(d)
<1>1. d \in Account /\ balance[d] \in U64
  BY DEF TypeOK, Account
<1>2. ASSUME balance' = balance PROVE balance'[d] >= balance[d]
  BY <1>1, <1>2, WidthAssumption DEF U64
<1>3. ASSUME NEW from \in TokenAccount, NEW to \in Account, NEW amount \in U64,
             TransferTokens(from, to, amount)
      PROVE  balance'[d] >= balance[d]
  BY <1>1, <1>3, OthersAreNotDebited, AccountAssumption
  DEF TransferTokens, Account
<1>4. ASSUME NEW e \in Distributor, NEW w \in Wallet, NEW to \in TokenAccount,
             NEW u \in U64, NEW l \in U64, NewClaim(e, w, to, u, l), e # d
      PROVE  balance'[d] >= balance[d]
  BY <1>1, <1>4, OthersAreNotDebited DEF NewClaim, Account
<1>5. ASSUME NEW e \in Distributor, NEW w \in Wallet, NEW to \in TokenAccount,
             ClaimLocked(e, w, to), e # d
      PROVE  balance'[d] >= balance[d]
  <2>1. Withdrawable(e, w) \in U64
    BY <1>5, ClaimLockedAmount
  <2>2. QED
    BY <1>1, <1>5, <2>1, OthersAreNotDebited DEF ClaimLocked, Account
<1>6. ASSUME NEW e \in Distributor, Clawback(e), e # d
      PROVE  balance'[d] >= balance[d]
  <2>1. /\ e \in Account
        /\ balance[e] \in U64
        /\ distributor[e].clawback_receiver \in Account
    BY <1>6, ExistingAccounts
    DEF Clawback, Open, DistributorAccount, TypeOK, Account
  <2>2. QED
    BY <1>1, <1>6, <2>1, OthersAreNotDebited DEF Clawback
<1>7. QED
  BY <1>2, <1>3, <1>4, <1>5, <1>6, NextCases
  DEF vars, Tick, OpenAccount, CloseAccount, NewDistributor,
      SetClawbackReceiver, SetAdmin

\* The counters of an existing distributor change with its own claims only.
LEMMA CounterStep ==
    ASSUME TypeOK, [Next]_vars, NEW d \in Distributor, Exists(d)
    PROVE  \/ /\ distributor'[d].total_amount_claimed
                   = distributor[d].total_amount_claimed
              /\ distributor'[d].num_nodes_claimed
                   = distributor[d].num_nodes_claimed
           \/ \E w \in Wallet, to \in TokenAccount, u \in U64, l \in U64 :
                NewClaim(d, w, to, u, l)
           \/ \E w \in Wallet, to \in TokenAccount : ClaimLocked(d, w, to)
<1>1. distributor[d] \in DistributorAccount
  BY ExistingAccounts
<1> DEFINE Same ==
        /\ distributor'[d].total_amount_claimed
             = distributor[d].total_amount_claimed
        /\ distributor'[d].num_nodes_claimed = distributor[d].num_nodes_claimed
<1>2. ASSUME distributor'[d] = distributor[d] PROVE Same
  BY <1>2
<1>3. ASSUME NEW e \in Distributor, NEW admin \in Wallet, NEW a \in Account,
             NEW args \in NewDistributorArgs, NewDistributor(e, admin, a, args)
      PROVE  Same
  BY <1>2, <1>3 DEF NewDistributor, MayInit, Exists, TypeOK
<1>4. ASSUME NEW e \in Distributor, NEW w \in Wallet, NEW to \in TokenAccount,
             NEW u \in U64, NEW l \in U64, NewClaim(e, w, to, u, l), e # d
      PROVE  Same
  BY <1>2, <1>4 DEF NewClaim, Recorded, TypeOK
<1>5. ASSUME NEW e \in Distributor, NEW w \in Wallet, NEW to \in TokenAccount,
             ClaimLocked(e, w, to), e # d
      PROVE  Same
  BY <1>2, <1>5 DEF ClaimLocked, Recorded, TypeOK
<1>6. ASSUME NEW e \in Distributor, Clawback(e) PROVE Same
  BY <1>1, <1>6 DEF Clawback, TypeOK, DistributorAccount
<1>7. ASSUME NEW e \in Distributor, NEW w \in Wallet, NEW a \in Account,
             SetClawbackReceiver(e, w, a)
      PROVE  Same
  BY <1>1, <1>7 DEF SetClawbackReceiver, TypeOK, DistributorAccount
<1>8. ASSUME NEW e \in Distributor, NEW w \in Wallet, NEW new \in Wallet,
             SetAdmin(e, w, new)
      PROVE  Same
  BY <1>1, <1>8 DEF SetAdmin, TypeOK, DistributorAccount
<1>9. QED
  BY <1>2, <1>3, <1>4, <1>5, <1>6, <1>7, <1>8, NextCases
  DEF vars, Tick, TransferTokens, OpenAccount, CloseAccount

\* Neither claim instruction reaches a distributor that was clawed back.
LEMMA ClosedMeansNoClaims ==
    ASSUME NEW d, ClawedBack(d)
    PROVE  /\ ~Clawback(d)
           /\ \A w, to, u, l : ~NewClaim(d, w, to, u, l)
           /\ \A w, to : ~ClaimLocked(d, w, to)
BY DEF ClawedBack, Clawback, NewClaim, ClaimLocked, Open

\* Once clawed back, a distributor pays nobody and records nothing.
THEOREM ClawbackIsFinalCorrect == Spec => ClawbackIsFinal
<1>1. ASSUME TypeOK, [Next]_vars, NEW d \in Distributor, ClawedBack(d)
      PROVE  /\ distributor'[d].clawed_back
             /\ distributor'[d].total_amount_claimed
                  = distributor[d].total_amount_claimed
             /\ claim_status'[d] = claim_status[d]
             /\ balance'[d] >= balance[d]
  <2>1. Exists(d)
    BY <1>1 DEF ClawedBack
  <2>2. distributor'[d].clawed_back
    BY <1>1, <2>1, StepKeepsTerms DEF KeepsTerms, ClawedBack
  <2>3. distributor'[d].total_amount_claimed
          = distributor[d].total_amount_claimed
    BY <1>1, <2>1, CounterStep, ClosedMeansNoClaims
  <2>4. claim_status'[d] = claim_status[d]
    <3>1. /\ claim_status[d] \in [Wallet -> ClaimStatus \cup {NoAccount}]
          /\ claim_status'[d] \in [Wallet -> ClaimStatus \cup {NoAccount}]
      BY <1>1, StepTypes DEF TypeOK
    <3>2. \A w \in Wallet : claim_status'[d][w] = claim_status[d][w]
      BY <1>1, ClaimStep, ClosedMeansNoClaims
    <3>3. QED
      BY <3>1, <3>2
  <2>5. balance'[d] >= balance[d]
    BY <1>1, VaultStep, ClosedMeansNoClaims
  <2>6. QED
    BY <2>2, <2>3, <2>4, <2>5
<1>2. TypeOK /\ [Next]_vars =>
        [\A d \in Distributor : ClawedBack(d) =>
            /\ distributor'[d].clawed_back
            /\ distributor'[d].total_amount_claimed
                 = distributor[d].total_amount_claimed
            /\ claim_status'[d] = claim_status[d]
            /\ balance'[d] >= balance[d]]_vars
  BY <1>1
<1>3. QED
  BY <1>2, TypeCorrect, PTL DEF Spec, ClawbackIsFinal

LEMMA StepKeepsClaims ==
    ASSUME TypeOK, [Next]_vars, NEW d \in Distributor, NEW w \in Wallet,
           HasClaim(d, w)
    PROVE  /\ HasClaim(d, w)'
           /\ claim_status'[d][w].locked_amount
                = claim_status[d][w].locked_amount
           /\ claim_status'[d][w].unlocked_amount
                = claim_status[d][w].unlocked_amount
           /\ claim_status'[d][w].locked_amount_withdrawn
                >= claim_status[d][w].locked_amount_withdrawn
<1> DEFINE old == claim_status[d][w]
           new == claim_status'[d][w]
<1>1. old \in ClaimStatus
  BY ExistingAccounts
<1>2. CASE new = old
  BY <1>1, <1>2, WidthAssumption DEF HasClaim, ClaimStatus, U64
<1>3. ASSUME NEW to \in TokenAccount, ClaimLocked(d, w, to), new # old
      PROVE  /\ new \in ClaimStatus
             /\ new.locked_amount = old.locked_amount
             /\ new.unlocked_amount = old.unlocked_amount
             /\ new.locked_amount_withdrawn >= old.locked_amount_withdrawn
  <2> DEFINE amount == Withdrawable(d, w)
  <2>1. amount \in U64
    BY <1>3, ClaimLockedAmount
  <2>2. new = [old EXCEPT !.locked_amount_withdrawn = @ + amount]
    BY <1>3, ClaimAfterWithdrawal
  <2>3. old.locked_amount_withdrawn + amount \in U64
    BY <1>3, ClaimLockedAmount
  <2> HIDE DEF amount
  <2>4. QED
    BY <1>1, <2>1, <2>2, <2>3, WidthAssumption DEF ClaimStatus, U64
<1>4. \A to, u, l : ~NewClaim(d, w, to, u, l)
  BY DEF NewClaim, MayInit, HasClaim
<1>5. CASE \E to \in TokenAccount : ClaimLocked(d, w, to)
  BY <1>2, <1>3, <1>5, NoAccountAssumption DEF HasClaim
<1>6. QED
  BY <1>2, <1>4, <1>5, ClaimStep

\* A claim is made once, its grant is fixed, and its withdrawals only grow.
THEOREM ClaimsArePermanentCorrect == Spec => ClaimsArePermanent
<1>1. TypeOK /\ [Next]_vars =>
        [\A d \in Distributor, w \in Wallet : HasClaim(d, w) =>
            /\ HasClaim(d, w)'
            /\ claim_status'[d][w].locked_amount
                 = claim_status[d][w].locked_amount
            /\ claim_status'[d][w].unlocked_amount
                 = claim_status[d][w].unlocked_amount
            /\ claim_status'[d][w].locked_amount_withdrawn
                 >= claim_status[d][w].locked_amount_withdrawn]_vars
  BY StepKeepsClaims
<1>2. QED
  BY <1>1, TypeCorrect, PTL DEF Spec, ClaimsArePermanent

------------------------------------------------------------------------------
(*****************************************************************************)
(* Where the tokens of a distributor go: the vault, the counters and the     *)
(* claims tell the same story, the caps hold, and a vault that holds what a  *)
(* consistent tree still owes never refuses or short-changes one of its      *)
(* claimants.                                                                *)
(*****************************************************************************)

\* A payment of d to w, as new_claim and claim_locked make it.
Pays(d, w, to, amount) ==
    /\ Open(d)
    /\ amount \in U64
    /\ OwnerOf[to] = w
    /\ balance'[d] = balance[d] - amount
    /\ balance'[to] = balance[to] + amount
    /\ \A v \in Wallet :
          Paid(d, v)' = Paid(d, v) + (IF v = w THEN amount ELSE 0)
    /\ ClaimsOn(d)' = ClaimsOn(d) \cup {w}
    /\ WithinMaxTotalClaim(d, amount)
    /\ ~HasClaim(d, w) => WithinMaxNumNodes(d)
    /\ distributor'[d].total_amount_claimed
         = distributor[d].total_amount_claimed + amount
    /\ distributor'[d].num_nodes_claimed
         = distributor[d].num_nodes_claimed
             + (IF HasClaim(d, w) THEN 0 ELSE 1)

LEMMA PaidIsNatural ==
    ASSUME TypeOK, NEW d \in Distributor, NEW w \in Wallet
    PROVE  Paid(d, w) \in Nat
<1>1. CASE HasClaim(d, w)
  <2>1. claim_status[d][w] \in ClaimStatus
    BY <1>1, ExistingAccounts
  <2>2. QED
    BY <2>1, AmountsAreNatural DEF Paid, ClaimStatus
<1>2. CASE ~HasClaim(d, w)
  BY <1>2 DEF Paid
<1>3. QED
  BY <1>1, <1>2

\* A vault and the token account of a wallet are different accounts.
LEMMA PaymentMovesTokens ==
    ASSUME TypeOK, NEW d \in Distributor, NEW to \in TokenAccount,
           NEW amount \in U64
    PROVE  /\ Transferred(d, to, amount)[d] = balance[d] - amount
           /\ Transferred(d, to, amount)[to] = balance[to] + amount
<1>1. d # to /\ d \in Account /\ to \in Account
  BY AccountAssumption DEF Account
<1>2. balance[d] \in Int /\ balance[to] \in Int /\ amount \in Int
  BY <1>1, AmountsAreNatural DEF TypeOK
<1>3. QED
  BY <1>1, <1>2 DEF Transferred

\* The counters after a payment.
LEMMA RecordedCounters ==
    ASSUME TypeOK, NEW d \in Distributor, Open(d), NEW nodes, NEW amount
    PROVE  /\ Recorded(d, nodes, amount)[d].total_amount_claimed
                = distributor[d].total_amount_claimed + amount
           /\ Recorded(d, nodes, amount)[d].num_nodes_claimed
                = distributor[d].num_nodes_claimed + nodes
<1>1. distributor[d] \in DistributorAccount
  BY ExistingAccounts DEF Open
<1>2. QED
  BY <1>1 DEF TypeOK, Recorded, DistributorAccount

\* What a step leaves of a claim it does not touch has been paid as before.
LEMMA UntouchedIsUnpaid ==
    ASSUME TypeOK, NEW d \in Distributor, NEW v \in Wallet,
           claim_status'[d][v] = claim_status[d][v]
    PROVE  /\ Paid(d, v)' = Paid(d, v)
           /\ HasClaim(d, v)' <=> HasClaim(d, v)
BY DEF Paid, HasClaim

LEMMA NewClaimPays ==
    ASSUME TypeOK, NEW d \in Distributor, NEW w \in Wallet,
           NEW to \in TokenAccount, NEW u \in U64, NEW l \in U64,
           NewClaim(d, w, to, u, l)
    PROVE  Pays(d, w, to, u)
<1> DEFINE new == [locked_amount           |-> l,
                   locked_amount_withdrawn |-> 0,
                   unlocked_amount         |-> u]
<1>1. /\ Open(d)
      /\ ~HasClaim(d, w)
      /\ OwnerOf[to] = w
      /\ WithinMaxTotalClaim(d, u)
      /\ WithinMaxNumNodes(d)
      /\ balance' = Transferred(d, to, u)
      /\ distributor' = Recorded(d, 1, u)
      /\ claim_status' = [claim_status EXCEPT ![d][w] = new]
  BY DEF NewClaim, MayInit, MayReceiveClaim
<1>2. balance'[d] = balance[d] - u /\ balance'[to] = balance[to] + u
  BY <1>1, PaymentMovesTokens
<1>3. /\ distributor'[d].total_amount_claimed
           = distributor[d].total_amount_claimed + u
      /\ distributor'[d].num_nodes_claimed = distributor[d].num_nodes_claimed + 1
  BY <1>1, RecordedCounters
<1>4. claim_status'[d][w] = new
      /\ \A v \in Wallet : v # w => claim_status'[d][v] = claim_status[d][v]
  BY <1>1 DEF TypeOK
<1>5. new \in ClaimStatus
  BY WidthAssumption DEF ClaimStatus, U64
<1>6. HasClaim(d, w)' /\ Paid(d, w)' = u + 0
  <2>1. new # NoAccount
    BY <1>5, NoAccountAssumption
  <2>2. QED
    BY <1>4, <2>1 DEF HasClaim, Paid
<1>7. Paid(d, w) = 0
  BY <1>1 DEF Paid
<1>8. \A v \in Wallet : Paid(d, v)' = Paid(d, v) + (IF v = w THEN u ELSE 0)
  <2>1. Paid(d, w)' = Paid(d, w) + u
    BY <1>6, <1>7, AmountsAreNatural
  <2>2. ASSUME NEW v \in Wallet, v # w PROVE Paid(d, v)' = Paid(d, v) + 0
    BY <1>4, <2>2, UntouchedIsUnpaid, PaidIsNatural
  <2>3. QED
    BY <2>1, <2>2
<1>9. ClaimsOn(d)' = ClaimsOn(d) \cup {w}
  BY <1>4, <1>6, UntouchedIsUnpaid DEF ClaimsOn
<1>10. QED
  BY <1>1, <1>2, <1>3, <1>8, <1>9 DEF Pays

LEMMA ClaimLockedPays ==
    ASSUME TypeOK, NEW d \in Distributor, NEW w \in Wallet,
           NEW to \in TokenAccount, ClaimLocked(d, w, to)
    PROVE  Pays(d, w, to, Withdrawable(d, w))
<1> DEFINE amount == Withdrawable(d, w)
           cs     == claim_status[d][w]
<1>1. /\ Open(d)
      /\ HasClaim(d, w)
      /\ OwnerOf[to] = w
      /\ WithinMaxTotalClaim(d, amount)
      /\ balance' = Transferred(d, to, amount)
      /\ distributor' = Recorded(d, 0, amount)
      /\ claim_status' = Withdrawn(d, w, amount)
  BY DEF ClaimLocked, MayReceiveClaim
<1>2. amount \in U64 /\ cs \in ClaimStatus /\ distributor[d] \in DistributorAccount
  BY ClaimLockedAmount
<1>3. claim_status'[d][w] = [cs EXCEPT !.locked_amount_withdrawn = @ + amount]
  BY ClaimAfterWithdrawal
<1> HIDE DEF amount
<1>4. balance'[d] = balance[d] - amount /\ balance'[to] = balance[to] + amount
  BY <1>1, <1>2, PaymentMovesTokens
<1>5. /\ distributor'[d].total_amount_claimed
           = distributor[d].total_amount_claimed + amount
      /\ distributor'[d].num_nodes_claimed = distributor[d].num_nodes_claimed + 0
  BY <1>1, RecordedCounters
<1>6. \A v \in Wallet : v # w => claim_status'[d][v] = claim_status[d][v]
  BY <1>1 DEF TypeOK, Withdrawn
<1>7. HasClaim(d, w)'
  <2>1. claim_status'[d][w] \in ClaimStatus
    <3>1. cs.locked_amount_withdrawn + amount \in U64
      BY ClaimLockedAmount DEF amount
    <3>2. QED
      BY <1>2, <1>3, <3>1 DEF ClaimStatus
  <2>2. QED
    BY <2>1, NoAccountAssumption DEF HasClaim
<1>8. Paid(d, w)' = Paid(d, w) + amount
  <2>1. /\ cs.unlocked_amount \in Int
        /\ cs.locked_amount_withdrawn \in Int
        /\ amount \in Int
    BY <1>2, AmountsAreNatural DEF ClaimStatus
  <2>2. /\ claim_status'[d][w].unlocked_amount = cs.unlocked_amount
        /\ claim_status'[d][w].locked_amount_withdrawn
             = cs.locked_amount_withdrawn + amount
    BY <1>2, <1>3 DEF ClaimStatus
  <2>3. /\ Paid(d, w)' = cs.unlocked_amount
                           + (cs.locked_amount_withdrawn + amount)
        /\ Paid(d, w) = cs.unlocked_amount + cs.locked_amount_withdrawn
    BY <1>1, <1>7, <2>2 DEF Paid
  <2>4. QED
    BY <2>1, <2>3
<1>9. \A v \in Wallet : Paid(d, v)' = Paid(d, v) + (IF v = w THEN amount ELSE 0)
  <2>1. ASSUME NEW v \in Wallet, v # w PROVE Paid(d, v)' = Paid(d, v) + 0
    BY <1>6, <2>1, UntouchedIsUnpaid, PaidIsNatural
  <2>2. QED
    BY <1>8, <2>1
<1>10. ClaimsOn(d)' = ClaimsOn(d) \cup {w}
  BY <1>6, <1>7, UntouchedIsUnpaid DEF ClaimsOn
<1>11. QED
  BY <1>1, <1>2, <1>4, <1>5, <1>9, <1>10 DEF Pays, amount

\* Only its own payments change the claims on a distributor.
LEMMA ClaimsStep ==
    ASSUME TypeOK, [Next]_vars, NEW d \in Distributor
    PROVE  \/ claim_status'[d] = claim_status[d]
           \/ \E w \in Wallet, to \in TokenAccount, u \in U64, l \in U64 :
                NewClaim(d, w, to, u, l)
           \/ \E w \in Wallet, to \in TokenAccount : ClaimLocked(d, w, to)
<1>1. /\ claim_status[d] \in [Wallet -> ClaimStatus \cup {NoAccount}]
      /\ claim_status'[d] \in [Wallet -> ClaimStatus \cup {NoAccount}]
  BY StepTypes DEF TypeOK
<1>2. SUFFICES ASSUME \A w \in Wallet :
                         claim_status'[d][w] = claim_status[d][w]
               PROVE  claim_status'[d] = claim_status[d]
  BY ClaimStep
<1>3. QED
  BY <1>1, <1>2

\* Seen from one existing distributor, a step is a payment, or the clawback, or
\* leaves claims and counters alone and takes nothing from the vault.
LEMMA PaymentStep ==
    ASSUME TypeOK, [Next]_vars, NEW d \in Distributor, Exists(d)
    PROVE  \/ \E w \in Wallet, to \in TokenAccount, amount \in U64 :
                Pays(d, w, to, amount)
           \/ /\ claim_status'[d] = claim_status[d]
              /\ distributor'[d].total_amount_claimed
                   = distributor[d].total_amount_claimed
              /\ distributor'[d].num_nodes_claimed
                   = distributor[d].num_nodes_claimed
              /\ balance'[d] >= balance[d] \/ Clawback(d)
<1>1. CASE \E w \in Wallet, to \in TokenAccount, u \in U64, l \in U64 :
              NewClaim(d, w, to, u, l)
  BY <1>1, NewClaimPays
<1>2. CASE \E w \in Wallet, to \in TokenAccount : ClaimLocked(d, w, to)
  BY <1>2, ClaimLockedPays, ClaimLockedAmount
<1>3. CASE /\ ~\E w \in Wallet, to \in TokenAccount, u \in U64, l \in U64 :
                   NewClaim(d, w, to, u, l)
           /\ ~\E w \in Wallet, to \in TokenAccount : ClaimLocked(d, w, to)
  <2>1. claim_status'[d] = claim_status[d]
    BY <1>3, ClaimsStep
  <2>2. /\ distributor'[d].total_amount_claimed
             = distributor[d].total_amount_claimed
        /\ distributor'[d].num_nodes_claimed = distributor[d].num_nodes_claimed
    BY <1>3, CounterStep
  <2>3. balance'[d] >= balance[d] \/ Clawback(d)
    BY <1>3, VaultStep
  <2>4. QED
    BY <2>1, <2>2, <2>3
<1>4. QED
  BY <1>1, <1>2, <1>3

\* A clawback that takes something from the vault empties it: it goes to
\* another account.
LEMMA ClawbackEmpties ==
    ASSUME TypeOK, NEW d \in Distributor, Clawback(d), balance'[d] < balance[d]
    PROVE  /\ distributor'[d].clawed_back
           /\ balance'[d] = 0
<1> DEFINE receiver == distributor[d].clawback_receiver
<1>1. distributor[d] \in DistributorAccount /\ d \in Account
      /\ balance[d] \in Int
  BY ExistingAccounts, AmountsAreNatural DEF Clawback, Open, TypeOK, Account
<1>2. balance' = Transferred(d, receiver, balance[d])
  BY DEF Clawback
<1>3. receiver # d
  <2>1. CASE receiver = d
    <3>1. balance'[d] = balance[d] - balance[d] + balance[d]
      BY <1>1, <1>2, <2>1 DEF Transferred
    <3>2. QED
      BY <1>1, <3>1
  <2>2. QED
    BY <2>1
<1>4. balance'[d] = balance[d] - balance[d] + 0
  BY <1>1, <1>2, <1>3 DEF Transferred
<1>5. distributor'[d].clawed_back
  BY <1>1 DEF Clawback, TypeOK, DistributorAccount
<1>6. QED
  BY <1>1, <1>4, <1>5

\* Tokens leave a vault as recorded payments or as the whole clawback.
THEOREM VaultOnlyPaysClaimsCorrect == Spec => VaultOnlyPaysClaims
<1> DEFINE Justified(d) ==
        \/ /\ Open(d)
           /\ distributor'[d].clawed_back
           /\ balance'[d] = 0
           /\ claim_status' = claim_status
        \/ \E w \in Wallet, to \in TokenAccount :
            LET amount == balance[d] - balance'[d]
            IN  /\ OwnerOf[to] = w
                /\ balance'[to] = balance[to] + amount
                /\ Paid(d, w)' = Paid(d, w) + amount
                /\ distributor'[d].total_amount_claimed
                     = distributor[d].total_amount_claimed + amount
<1>1. ASSUME TypeOK, [Next]_vars, NEW d \in Distributor,
             balance'[d] < balance[d]
      PROVE  Justified(d)
  <2>1. balance[d] \in Int /\ balance'[d] \in Int
    BY <1>1, StepTypes, AmountsAreNatural DEF TypeOK, Account
  <2>2. ASSUME NEW w \in Wallet, NEW to \in TokenAccount, NEW amount \in U64,
               Pays(d, w, to, amount)
        PROVE  Justified(d)
    <3>1. amount \in Int /\ amount = balance[d] - balance'[d]
      BY <2>1, <2>2, AmountsAreNatural DEF Pays
    <3>2. Paid(d, w)' = Paid(d, w) + amount
      BY <2>2 DEF Pays
    <3> HIDE DEF Justified
    <3>3. /\ OwnerOf[to] = w
          /\ balance'[to] = balance[to] + amount
          /\ distributor'[d].total_amount_claimed
               = distributor[d].total_amount_claimed + amount
      BY <2>2 DEF Pays
    <3>4. QED
      BY <3>1, <3>2, <3>3 DEF Justified
  <2>3. CASE Clawback(d)
    BY <1>1, <2>3, ClawbackEmpties DEF Clawback
  <2>4. ASSUME balance'[d] >= balance[d] PROVE FALSE
    BY <1>1, <2>1, <2>4
  <2> HIDE DEF Justified
  <2>5. QED
    BY <1>1, <2>2, <2>3, <2>4, VaultStep, NewClaimPays, ClaimLockedPays,
       ClaimLockedAmount
<1>2. TypeOK /\ [Next]_vars =>
        [\A d \in Distributor : balance'[d] < balance[d] => Justified(d)]_vars
  BY <1>1
<1>3. QED
  BY <1>2, TypeCorrect, PTL DEF Spec, VaultOnlyPaysClaims, Justified

------------------------------------------------------------------------------
(* The counters.                                                           *)

\* What d has paid to each wallet.
PaidBy(d) == [w \in Wallet |-> Paid(d, w)]

LEMMA TotalPaidIsSum ==
    ASSUME NEW d
    PROVE  TotalPaid(d) = SumFunctionOnSet(PaidBy(d), Wallet)
BY DEF TotalPaid, SumFunction, PaidBy

LEMMA TotalPaidIsNatural ==
    ASSUME TypeOK, NEW d \in Distributor
    PROVE  /\ TotalPaid(d) \in Nat
           /\ IsFiniteSet(ClaimsOn(d))
           /\ Cardinality(ClaimsOn(d)) \in Nat
<1>1. IsFiniteSet(Wallet)
  BY AccountAssumption
<1>2. \A w \in Wallet : PaidBy(d)[w] \in Nat
  BY PaidIsNatural DEF PaidBy
<1>3. TotalPaid(d) \in Nat
  BY <1>1, <1>2, SumIsNatural, TotalPaidIsSum
<1>4. IsFiniteSet(ClaimsOn(d))
  <2>1. ClaimsOn(d) \in SUBSET Wallet
    BY DEF ClaimsOn
  <2>2. QED
    BY <1>1, <2>1, FS_Subset
<1>5. QED
  BY <1>3, <1>4, FS_CardinalityType

\* A distributor without claims has paid nothing.
LEMMA NothingPaid ==
    ASSUME TypeOK, NEW d \in Distributor, \A w \in Wallet : ~HasClaim(d, w)
    PROVE  TotalPaid(d) = 0 /\ Cardinality(ClaimsOn(d)) = 0
<1>1. \A w \in Wallet : PaidBy(d)[w] = 0
  BY DEF PaidBy, Paid
<1>2. SumFunctionOnSet(PaidBy(d), Wallet) = SumFunctionOnSet(PaidBy(d), {})
  BY <1>1, AccountAssumption, SumIgnoresZeros
<1>3. ClaimsOn(d) = {}
  BY DEF ClaimsOn
<1>4. QED
  BY <1>2, <1>3, SumOfNone, TotalPaidIsSum, FS_EmptySet

\* A payment adds to the total what it pays, and a claimant if it is his first.
LEMMA PaymentAdds ==
    ASSUME TypeOK, [Next]_vars, NEW d \in Distributor, NEW w \in Wallet,
           NEW to \in TokenAccount, NEW amount \in U64, Pays(d, w, to, amount)
    PROVE  /\ TotalPaid(d)' = TotalPaid(d) + amount
           /\ Cardinality(ClaimsOn(d))'
                = Cardinality(ClaimsOn(d)) + (IF HasClaim(d, w) THEN 0 ELSE 1)
<1>1. IsFiniteSet(Wallet) /\ amount \in Int
  BY AccountAssumption, AmountsAreNatural
<1>2. \A v \in Wallet : /\ PaidBy(d)[v] \in Int
                        /\ PaidBy(d)'[v] \in Int
                        /\ v # w => PaidBy(d)'[v] = PaidBy(d)[v]
  <2> SUFFICES ASSUME NEW v \in Wallet
               PROVE  /\ Paid(d, v) \in Int
                      /\ Paid(d, v)' \in Int
                      /\ v # w => Paid(d, v)' = Paid(d, v)
    BY DEF PaidBy
  <2>1. Paid(d, v) \in Int
    BY PaidIsNatural
  <2>2. Paid(d, v)' = Paid(d, v) + (IF v = w THEN amount ELSE 0)
    BY DEF Pays
  <2>3. QED
    BY <1>1, <2>1, <2>2
<1>3. PaidBy(d)'[w] - PaidBy(d)[w] = amount
  <2>1. Paid(d, w) \in Int /\ Paid(d, w)' = Paid(d, w) + amount
    BY PaidIsNatural DEF Pays
  <2>2. Paid(d, w)' - Paid(d, w) = amount
    BY <1>1, <2>1
  <2>3. QED
    BY <2>2 DEF PaidBy
<1>4. SumFunctionOnSet(PaidBy(d)', Wallet)
        = SumFunctionOnSet(PaidBy(d), Wallet) + amount
  BY <1>1, <1>2, <1>3, SumChangesByOne
<1>5. TotalPaid(d)' = SumFunctionOnSet(PaidBy(d)', Wallet)
  BY DEF TotalPaid, SumFunction, PaidBy
<1>6. Cardinality(ClaimsOn(d) \cup {w})
        = Cardinality(ClaimsOn(d)) + (IF HasClaim(d, w) THEN 0 ELSE 1)
  <2>1. IsFiniteSet(ClaimsOn(d)) /\ Cardinality(ClaimsOn(d)) \in Nat
    BY TotalPaidIsNatural
  <2>2. w \in ClaimsOn(d) <=> HasClaim(d, w)
    BY DEF ClaimsOn
  <2>3. Cardinality(ClaimsOn(d) \cup {w})
          = IF w \in ClaimsOn(d) THEN Cardinality(ClaimsOn(d))
                                 ELSE Cardinality(ClaimsOn(d)) + 1
    BY <2>1, FS_AddElement
  <2>4. QED
    BY <2>1, <2>2, <2>3
<1>7. QED
  BY <1>4, <1>5, <1>6, TotalPaidIsSum DEF Pays

LEMMA NoPayment ==
    ASSUME NEW d \in Distributor, claim_status'[d] = claim_status[d]
    PROVE  /\ \A w \in Wallet : /\ Paid(d, w)' = Paid(d, w)
                                /\ HasClaim(d, w)' <=> HasClaim(d, w)
           /\ TotalPaid(d)' = TotalPaid(d)
           /\ ClaimsOn(d)' = ClaimsOn(d)
<1>1. \A w \in Wallet : /\ Paid(d, w)' = Paid(d, w)
                        /\ HasClaim(d, w)' <=> HasClaim(d, w)
  BY DEF Paid, HasClaim
<1>2. PaidBy(d)' = PaidBy(d)
  BY <1>1 DEF PaidBy
<1>3. TotalPaid(d)' = SumFunctionOnSet(PaidBy(d)', Wallet)
  BY DEF TotalPaid, SumFunction, PaidBy
<1>4. QED
  BY <1>1, <1>2, <1>3, TotalPaidIsSum DEF ClaimsOn

\* The counters respect the caps.
CountersWithinCaps ==
    \A d \in Distributor : Exists(d) =>
        /\ distributor[d].total_amount_claimed
             <= distributor[d].max_total_claim
        /\ distributor[d].num_nodes_claimed <= distributor[d].max_num_nodes

\* The entry a claim was made with is on its distributor's list.
ClaimsAreListed ==
    \A d \in Distributor, w \in Wallet : HasClaim(d, w) =>
        [claimant        |-> w,
         amount_unlocked |-> claim_status[d][w].unlocked_amount,
         amount_locked   |-> claim_status[d][w].locked_amount]
            \in distributor[d].root

\* The inductive invariant: the caps bound what the claims have been paid only
\* because the counters they are compared with are the sums of the claims; and
\* what is left for a leaf is known only if every claim was made with one.
LedgerInv ==
    /\ VestingInv
    /\ LedgerMatchesClaims
    /\ CountersWithinCaps
    /\ ClaimsAreListed

LEMMA InitLedger == Init => LedgerInv
<1> SUFFICES ASSUME Init PROVE LedgerInv
  OBVIOUS
<1>1. \A d \in Distributor : ~Exists(d) /\ \A w \in Wallet : ~HasClaim(d, w)
  BY DEF Init, Exists, HasClaim
<1>2. QED
  BY <1>1, InitVesting
  DEF LedgerInv, LedgerMatchesClaims, CountersWithinCaps, ClaimsAreListed

\* A distributor starts with no claims and counters of zero.
LEMMA NewDistributorIsUnpaid ==
    ASSUME VestingInv, [Next]_vars, NEW d \in Distributor, ~Exists(d), Exists(d)'
    PROVE  /\ distributor'[d].total_amount_claimed = 0
           /\ distributor'[d].num_nodes_claimed = 0
           /\ distributor'[d] \in DistributorAccount
           /\ \A w \in Wallet : ~HasClaim(d, w)'
           /\ TotalPaid(d)' = 0
           /\ Cardinality(ClaimsOn(d))' = 0
<1>1. TypeOK /\ TypeOK'
  BY StepTypes DEF VestingInv
<1>2. PICK admin \in Wallet, a \in Account, args \in NewDistributorArgs :
          NewDistributor(d, admin, a, args)
  BY <1>1, OnlyNewDistributorCreates
<1>3. /\ distributor'[d].total_amount_claimed = 0
      /\ distributor'[d].num_nodes_claimed = 0
  BY <1>1, <1>2 DEF NewDistributor, TypeOK
<1>4. distributor'[d] \in DistributorAccount
  BY <1>1 DEF TypeOK, Exists
<1>5. \A w \in Wallet : ~HasClaim(d, w)
  BY DEF VestingInv, ClaimsFollowSchedules
<1>6. claim_status'[d] = claim_status[d]
  BY <1>2 DEF NewDistributor
<1>7. \A w \in Wallet : ~HasClaim(d, w)'
  BY <1>5, <1>6, NoPayment
<1>8. TotalPaid(d) = 0 /\ Cardinality(ClaimsOn(d)) = 0
  BY <1>1, <1>5, NothingPaid
<1>9. TotalPaid(d)' = 0 /\ Cardinality(ClaimsOn(d))' = 0
  BY <1>6, <1>8, NoPayment
<1>10. QED
  BY <1>3, <1>4, <1>7, <1>9

LEMMA StepLedger ==
    ASSUME LedgerInv, [Next]_vars PROVE LedgerMatchesClaims'
<1> SUFFICES ASSUME NEW d \in Distributor, Exists(d)'
             PROVE  /\ distributor'[d].total_amount_claimed = TotalPaid(d)'
                    /\ distributor'[d].num_nodes_claimed
                         = Cardinality(ClaimsOn(d))'
  BY DEF LedgerMatchesClaims
<1>1. TypeOK /\ VestingInv
  BY DEF LedgerInv, VestingInv
<1>2. CASE ~Exists(d)
  BY <1>1, <1>2, NewDistributorIsUnpaid
<1>3. CASE Exists(d)
  <2>1. /\ distributor[d].total_amount_claimed = TotalPaid(d)
        /\ distributor[d].num_nodes_claimed = Cardinality(ClaimsOn(d))
    BY <1>3 DEF LedgerInv, LedgerMatchesClaims
  <2>2. ASSUME NEW w \in Wallet, NEW to \in TokenAccount, NEW amount \in U64,
               Pays(d, w, to, amount)
        PROVE  /\ distributor'[d].total_amount_claimed = TotalPaid(d)'
               /\ distributor'[d].num_nodes_claimed = Cardinality(ClaimsOn(d))'
    <3>1. /\ TotalPaid(d)' = TotalPaid(d) + amount
          /\ Cardinality(ClaimsOn(d))'
               = Cardinality(ClaimsOn(d)) + (IF HasClaim(d, w) THEN 0 ELSE 1)
      BY <1>1, <2>2, PaymentAdds
    <3>2. QED
      BY <2>1, <2>2, <3>1 DEF Pays
  <2>3. CASE /\ claim_status'[d] = claim_status[d]
             /\ distributor'[d].total_amount_claimed
                  = distributor[d].total_amount_claimed
             /\ distributor'[d].num_nodes_claimed
                  = distributor[d].num_nodes_claimed
    BY <2>1, <2>3, NoPayment
  <2>4. QED
    BY <1>1, <1>3, <2>2, <2>3, PaymentStep
<1>4. QED
  BY <1>2, <1>3

LEMMA StepCaps ==
    ASSUME LedgerInv, [Next]_vars PROVE CountersWithinCaps'
<1> SUFFICES ASSUME NEW d \in Distributor, Exists(d)'
             PROVE  /\ distributor'[d].total_amount_claimed
                         <= distributor'[d].max_total_claim
                    /\ distributor'[d].num_nodes_claimed
                         <= distributor'[d].max_num_nodes
  BY DEF CountersWithinCaps
<1>1. TypeOK /\ VestingInv
  BY DEF LedgerInv, VestingInv
<1>2. CASE ~Exists(d)
  BY <1>1, <1>2, NewDistributorIsUnpaid, AmountsAreNatural
  DEF DistributorAccount
<1>3. CASE Exists(d)
  <2>1. /\ distributor'[d].max_total_claim = distributor[d].max_total_claim
        /\ distributor'[d].max_num_nodes = distributor[d].max_num_nodes
    BY <1>1, <1>3, StepKeepsTerms, KeptTerms
  <2>2. /\ distributor[d].total_amount_claimed <= distributor[d].max_total_claim
        /\ distributor[d].num_nodes_claimed <= distributor[d].max_num_nodes
    BY <1>3 DEF LedgerInv, CountersWithinCaps
  <2>3. distributor[d].num_nodes_claimed \in Int
    BY <1>1, <1>3, ExistingAccounts, AmountsAreNatural DEF DistributorAccount
  <2>4. ASSUME NEW w \in Wallet, NEW to \in TokenAccount, NEW amount \in U64,
               Pays(d, w, to, amount)
        PROVE  /\ distributor'[d].total_amount_claimed
                    <= distributor[d].max_total_claim
               /\ distributor'[d].num_nodes_claimed
                    <= distributor[d].max_num_nodes
    <3>1. CASE HasClaim(d, w)
      BY <2>2, <2>3, <2>4, <3>1 DEF Pays, WithinMaxTotalClaim
    <3>2. CASE ~HasClaim(d, w)
      BY <2>4, <3>2 DEF Pays, WithinMaxTotalClaim, WithinMaxNumNodes
    <3>3. QED
      BY <3>1, <3>2
  <2>5. QED
    BY <1>1, <1>3, <2>1, <2>2, <2>4, PaymentStep
<1>4. QED
  BY <1>2, <1>3

LEMMA StepListed ==
    ASSUME LedgerInv, [Next]_vars PROVE ClaimsAreListed'
<1> DEFINE entry(w, cs) == [claimant        |-> w,
                            amount_unlocked |-> cs.unlocked_amount,
                            amount_locked   |-> cs.locked_amount]
<1> SUFFICES ASSUME NEW d \in Distributor, NEW w \in Wallet, HasClaim(d, w)'
             PROVE  entry(w, claim_status'[d][w]) \in distributor'[d].root
  BY DEF ClaimsAreListed
<1>1. TypeOK /\ VestingInv
  BY DEF LedgerInv, VestingInv
<1>2. CASE claim_status'[d][w] = claim_status[d][w]
  <2>1. HasClaim(d, w)
    BY <1>2 DEF HasClaim
  <2>2. Exists(d) /\ entry(w, claim_status[d][w]) \in distributor[d].root
    BY <2>1 DEF LedgerInv, ClaimsAreListed, VestingInv, ClaimsFollowSchedules
  <2>3. distributor'[d].root = distributor[d].root
    BY <1>1, <2>2, StepKeepsTerms, KeptTerms
  <2>4. QED
    BY <1>2, <2>2, <2>3
<1>3. ASSUME NEW to \in TokenAccount, NEW u \in U64, NEW l \in U64,
             NewClaim(d, w, to, u, l)
      PROVE  entry(w, claim_status'[d][w]) \in distributor'[d].root
  <2>1. claim_status'[d][w] = [locked_amount           |-> l,
                               locked_amount_withdrawn |-> 0,
                               unlocked_amount         |-> u]
    BY <1>1, <1>3 DEF NewClaim, TypeOK
  <2>2. [claimant |-> w, amount_unlocked |-> u, amount_locked |-> l]
          \in distributor[d].root
    BY <1>3 DEF NewClaim, Verify
  <2>3. distributor'[d].root = distributor[d].root
    BY <1>1, <1>3, StepKeepsTerms, KeptTerms DEF NewClaim, Open
  <2>4. QED
    BY <2>1, <2>2, <2>3
<1>4. ASSUME NEW to \in TokenAccount, ClaimLocked(d, w, to)
      PROVE  entry(w, claim_status'[d][w]) \in distributor'[d].root
  <2>1. claim_status[d][w] \in ClaimStatus
    BY <1>1, <1>4, ClaimLockedAmount
  <2>2. /\ claim_status'[d][w].unlocked_amount
             = claim_status[d][w].unlocked_amount
        /\ claim_status'[d][w].locked_amount = claim_status[d][w].locked_amount
    <3>1. claim_status'[d][w] = [claim_status[d][w] EXCEPT
                !.locked_amount_withdrawn = @ + Withdrawable(d, w)]
      BY <1>1, <1>4, ClaimAfterWithdrawal
    <3>2. QED
      BY <2>1, <3>1 DEF ClaimStatus
  <2>3. entry(w, claim_status[d][w]) \in distributor[d].root
    BY <1>4 DEF LedgerInv, ClaimsAreListed, ClaimLocked
  <2>4. distributor'[d].root = distributor[d].root
    BY <1>1, <1>4, StepKeepsTerms, KeptTerms DEF ClaimLocked, Open
  <2>5. QED
    BY <2>2, <2>3, <2>4
<1>5. QED
  BY <1>1, <1>2, <1>3, <1>4, ClaimStep

LEMMA LedgerInvariant == Spec => []LedgerInv
<1>1. Init => LedgerInv
  BY InitLedger
<1>2. LedgerInv /\ [Next]_vars => LedgerInv'
  BY StepVesting, StepLedger, StepCaps, StepListed DEF LedgerInv
<1>3. QED
  BY <1>1, <1>2, PTL DEF Spec

\* Every payment is counted once, and every claimant once.
THEOREM LedgerCorrect == Spec => []LedgerMatchesClaims
<1>1. LedgerInv => LedgerMatchesClaims
  BY DEF LedgerInv
<1>2. QED
  BY <1>1, LedgerInvariant, PTL

\* What the claims have been paid in all, and their number, respect the caps.
THEOREM CapsCorrect == Spec => []CapsHold
<1>1. LedgerInv => CapsHold
  BY DEF LedgerInv, LedgerMatchesClaims, CountersWithinCaps, CapsHold
<1>2. QED
  BY <1>1, LedgerInvariant, PTL

------------------------------------------------------------------------------
(* Solvency.                                                               *)

GrantsOf(d) == [leaf \in distributor[d].root |-> GrantOf(leaf)]

Owed(d) == [leaf \in distributor[d].root |->
              GrantOf(leaf) - Paid(d, leaf.claimant)]

LEMMA SumsOverTheTree ==
    ASSUME NEW d
    PROVE  /\ Outstanding(d) = SumFunctionOnSet(Owed(d), distributor[d].root)
           /\ SumFunction([leaf \in distributor[d].root |-> GrantOf(leaf)])
                = SumFunctionOnSet(GrantsOf(d), distributor[d].root)
BY DEF Outstanding, SumFunction, Owed, GrantsOf

LEMMA LeavesOfTheTree ==
    ASSUME TypeOK, NEW d \in Distributor, Exists(d),
           NEW leaf \in distributor[d].root
    PROVE  /\ leaf.claimant \in Wallet
           /\ leaf.amount_unlocked \in Nat
           /\ leaf.amount_locked \in Nat
           /\ GrantOf(leaf) \in Nat
<1>1. leaf \in Leaf
  BY ExistingAccounts DEF DistributorAccount
<1>2. QED
  BY <1>1, AmountsAreNatural DEF Leaf, GrantOf

\* One leaf for each claimant: there are no more leaves than wallets.
LEMMA TreeIsFinite ==
    ASSUME TypeOK, NEW d \in Distributor, Exists(d), TreeIsConsistent(d)
    PROVE  /\ IsFiniteSet(distributor[d].root)
           /\ Cardinality(distributor[d].root) \in Nat
<1> DEFINE root == distributor[d].root
           f    == [leaf \in root |-> leaf.claimant]
<1>1. f \in [root -> Wallet]
  BY LeavesOfTheTree
<1>2. \A l1, l2 \in root : f[l1] = f[l2] => l1 = l2
  BY DEF TreeIsConsistent
<1>3. f \in Injection(root, Wallet)
  BY <1>1, <1>2 DEF Injection, IsInjective
<1> HIDE DEF f
<1>4. IsFiniteSet(root)
  BY <1>3, AccountAssumption, FS_Injection
<1>5. QED
  BY <1>4, FS_CardinalityType

\* A claimant of a consistent tree has claimed his own leaf.
LEMMA ClaimIsItsLeaf ==
    ASSUME LedgerInv, NEW d \in Distributor, TreeIsConsistent(d),
           NEW leaf \in distributor[d].root, HasClaim(d, leaf.claimant),
           leaf.claimant \in Wallet
    PROVE  /\ claim_status[d][leaf.claimant].unlocked_amount
                = leaf.amount_unlocked
           /\ claim_status[d][leaf.claimant].locked_amount = leaf.amount_locked
<1> DEFINE w     == leaf.claimant
           entry == [claimant        |-> w,
                     amount_unlocked |-> claim_status[d][w].unlocked_amount,
                     amount_locked   |-> claim_status[d][w].locked_amount]
<1>1. entry \in distributor[d].root
  BY DEF LedgerInv, ClaimsAreListed
<1>2. entry.claimant = leaf.claimant
  OBVIOUS
<1>3. entry = leaf
  BY <1>1, <1>2 DEF TreeIsConsistent
<1>4. QED
  BY <1>3

\* A claim's payments, the next one included, stay within its grant.
LEMMA PaymentsStayWithinGrants ==
    ASSUME LedgerInv, NEW d \in Distributor, Exists(d), TreeIsConsistent(d),
           NEW leaf \in distributor[d].root
    PROVE  /\ Paid(d, leaf.claimant) \in Nat
           /\ Paid(d, leaf.claimant) <= GrantOf(leaf)
           /\ HasClaim(d, leaf.claimant) =>
                /\ Withdrawable(d, leaf.claimant) \in Nat
                /\ Paid(d, leaf.claimant) + Withdrawable(d, leaf.claimant)
                     <= GrantOf(leaf)
<1> DEFINE w  == leaf.claimant
           cs == claim_status[d][w]
           unlocked == UnlockedAmount(cs, clock, distributor[d].start_ts,
                                      distributor[d].end_ts)
<1>1. TypeOK /\ VestingInv
  BY DEF LedgerInv, VestingInv
<1>2. /\ w \in Wallet
      /\ leaf.amount_unlocked \in Nat
      /\ leaf.amount_locked \in Nat
  BY <1>1, LeavesOfTheTree
<1>3. Paid(d, w) \in Nat
  BY <1>1, <1>2, PaidIsNatural
<1>4. CASE ~HasClaim(d, w)
  BY <1>2, <1>3, <1>4 DEF Paid, GrantOf
<1>5. CASE HasClaim(d, w)
  <2>1. cs \in ClaimStatus /\ distributor[d] \in DistributorAccount
    BY <1>1, <1>2, <1>5, ExistingAccounts
  <2>2. /\ clock \in I64
        /\ distributor[d].start_ts \in I64
        /\ distributor[d].end_ts \in I64
    BY <1>1, <2>1, WordsAreIntegers DEF TypeOK, DistributorAccount
  <2>3. unlocked \in 0 .. cs.locked_amount /\ unlocked \in U64
    BY <2>1, <2>2, UnlockedIsBounded
  <2>4. cs.locked_amount_withdrawn <= unlocked
    BY <1>1, <1>2, <1>5 DEF VestingInv, ClaimsFollowSchedules
  <2>5. /\ cs.unlocked_amount = leaf.amount_unlocked
        /\ cs.locked_amount = leaf.amount_locked
    BY <1>2, <1>5, ClaimIsItsLeaf
  <2>6. cs.locked_amount_withdrawn \in Nat
    BY <2>1, AmountsAreNatural DEF ClaimStatus
  <2>7. /\ Paid(d, w) = leaf.amount_unlocked + cs.locked_amount_withdrawn
        /\ Withdrawable(d, w) = unlocked - cs.locked_amount_withdrawn
    BY <1>5, <2>5 DEF Paid, Withdrawable, AmountWithdrawable
  <2>8. unlocked \in 0 .. leaf.amount_locked
    BY <2>3, <2>5
  <2> HIDE DEF unlocked, cs
  <2>9. QED
    BY <1>2, <2>4, <2>6, <2>7, <2>8 DEF GrantOf
<1>6. QED
  BY <1>3, <1>4, <1>5

\* The grants of a consistent tree are what was paid and what is outstanding.
LEMMA PaidAndOutstanding ==
    ASSUME LedgerInv, NEW d \in Distributor, Exists(d), TreeIsConsistent(d)
    PROVE  /\ TotalPaid(d) \in Nat
           /\ Outstanding(d) \in Nat
           /\ TotalPaid(d) + Outstanding(d) <= distributor[d].max_total_claim
           /\ \A leaf \in distributor[d].root :
                GrantOf(leaf) - Paid(d, leaf.claimant) <= Outstanding(d)
<1> DEFINE root == distributor[d].root
           name == [leaf \in root |-> leaf.claimant]
           paid == [leaf \in root |-> Paid(d, leaf.claimant)]
           A    == {name[leaf] : leaf \in root}
<1>1. TypeOK /\ IsFiniteSet(root) /\ IsFiniteSet(Wallet)
  BY TreeIsFinite, AccountAssumption DEF LedgerInv, VestingInv
<1>2. \A leaf \in root : /\ leaf.claimant \in Wallet
                         /\ GrantOf(leaf) \in Nat
                         /\ Paid(d, leaf.claimant) \in Nat
                         /\ Paid(d, leaf.claimant) <= GrantOf(leaf)
  BY <1>1, LeavesOfTheTree, PaymentsStayWithinGrants
<1>3. TotalPaid(d) = SumFunctionOnSet(paid, root)
  <2>1. \A w \in Wallet : PaidBy(d)[w] \in Int
    BY <1>1, PaidIsNatural DEF PaidBy
  <2>2. A \in SUBSET Wallet
    BY <1>2
  <2>3. ASSUME NEW w \in Wallet \ A PROVE PaidBy(d)[w] = 0
    <3>1. CASE HasClaim(d, w)
      <4> DEFINE entry ==
            [claimant        |-> w,
             amount_unlocked |-> claim_status[d][w].unlocked_amount,
             amount_locked   |-> claim_status[d][w].locked_amount]
      <4>1. entry \in root
        BY <3>1 DEF LedgerInv, ClaimsAreListed
      <4>2. name[entry] = w
        BY <4>1
      <4>3. QED
        BY <2>3, <4>1, <4>2
    <3>2. CASE ~HasClaim(d, w)
      BY <3>2 DEF PaidBy, Paid
    <3>3. QED
      BY <3>1, <3>2
  <2>4. SumFunctionOnSet(PaidBy(d), Wallet) = SumFunctionOnSet(PaidBy(d), A)
    <3> HIDE DEF A
    <3>1. QED
      BY <1>1, <2>1, <2>2, <2>3, SumIgnoresZeros
  <2>5. \A l1, l2 \in root : name[l1] = name[l2] => l1 = l2
    BY DEF TreeIsConsistent
  <2>6. \A leaf \in root : /\ PaidBy(d)[name[leaf]] \in Int
                           /\ paid[leaf] = PaidBy(d)[name[leaf]]
    BY <1>2 DEF PaidBy
  <2>7. SumFunctionOnSet(paid, root) = SumFunctionOnSet(PaidBy(d), A)
    <3> HIDE DEF name, paid
    <3>1. QED
      BY <1>1, <2>5, <2>6, SumRenamed
  <2>8. QED
    BY <2>4, <2>7, TotalPaidIsSum
<1>4. Outstanding(d) = SumFunctionOnSet(GrantsOf(d), root)
                         - SumFunctionOnSet(paid, root)
  <2>1. \A leaf \in root :
            /\ GrantsOf(d)[leaf] \in Int
            /\ paid[leaf] \in Int
            /\ Owed(d)[leaf] = GrantsOf(d)[leaf] - paid[leaf]
    BY <1>2 DEF GrantsOf, Owed
  <2> HIDE DEF paid
  <2>2. SumFunctionOnSet(Owed(d), root)
          = SumFunctionOnSet(GrantsOf(d), root) - SumFunctionOnSet(paid, root)
    BY <1>1, <2>1, SumOfDifferences
  <2>3. QED
    BY <2>2, SumsOverTheTree
<1>5. /\ SumFunctionOnSet(GrantsOf(d), root) \in Nat
      /\ SumFunctionOnSet(GrantsOf(d), root) <= distributor[d].max_total_claim
  <2>1. \A leaf \in root : GrantsOf(d)[leaf] \in Nat
    BY <1>2 DEF GrantsOf
  <2>2. QED
    BY <1>1, <2>1, SumIsNatural, SumsOverTheTree DEF TreeIsConsistent
<1>6. \A leaf \in root : Owed(d)[leaf] \in Nat
  BY <1>2 DEF Owed
<1>7. /\ Outstanding(d) \in Nat
      /\ \A leaf \in root : Owed(d)[leaf] <= Outstanding(d)
  BY <1>1, <1>6, SumIsNatural, SumBoundsItsParts, SumsOverTheTree
<1>8. TotalPaid(d) \in Nat
  BY <1>1, TotalPaidIsNatural
<1>9. TotalPaid(d) + Outstanding(d) = SumFunctionOnSet(GrantsOf(d), root)
  BY <1>3, <1>4, <1>5, <1>8
<1>10. QED
  BY <1>5, <1>7, <1>8, <1>9 DEF Owed

\* Room in the caps and in the vault for a part of what a leaf is still owed.
LEMMA RoomForALeaf ==
    ASSUME LedgerInv, NEW d \in Distributor, IsSolvent(d),
           NEW leaf \in distributor[d].root, NEW amount \in Nat,
           Paid(d, leaf.claimant) + amount <= GrantOf(leaf)
    PROVE  /\ WithinMaxTotalClaim(d, amount)
           /\ amount <= balance[d]
<1>1. Exists(d) /\ TreeIsConsistent(d) /\ balance[d] >= Outstanding(d)
  BY DEF IsSolvent, Open
<1>2. TypeOK /\ distributor[d] \in DistributorAccount
  BY <1>1, ExistingAccounts DEF LedgerInv, VestingInv
<1>3. /\ TotalPaid(d) \in Nat
      /\ Outstanding(d) \in Nat
      /\ TotalPaid(d) + Outstanding(d) <= distributor[d].max_total_claim
      /\ GrantOf(leaf) - Paid(d, leaf.claimant) <= Outstanding(d)
  BY <1>1, PaidAndOutstanding
<1>4. /\ leaf.claimant \in Wallet /\ GrantOf(leaf) \in Nat
      /\ Paid(d, leaf.claimant) \in Nat
  BY <1>1, <1>2, LeavesOfTheTree, PaidIsNatural
<1>5. amount <= Outstanding(d)
  BY <1>3, <1>4
<1>6. balance[d] \in Nat
  BY <1>2, AmountsAreNatural DEF TypeOK, Account
<1>7. amount <= balance[d]
  BY <1>1, <1>3, <1>5, <1>6
<1>8. distributor[d].total_amount_claimed = TotalPaid(d)
  BY <1>1 DEF LedgerInv, LedgerMatchesClaims
<1>9. distributor[d].max_total_claim \in U64
      /\ distributor[d].max_total_claim \in Nat
  BY <1>2, AmountsAreNatural DEF DistributorAccount
<1>10. /\ TotalPaid(d) + amount \in Nat
       /\ TotalPaid(d) + amount <= distributor[d].max_total_claim
  BY <1>3, <1>5, <1>9
<1>11. TotalPaid(d) + amount \in U64
  BY <1>9, <1>10, WidthAssumption DEF U64
<1>12. QED
  BY <1>7, <1>8, <1>10, <1>11 DEF WithinMaxTotalClaim

\* Room for one more claimant, while one of the tree has not claimed.
LEMMA RoomForAClaimant ==
    ASSUME LedgerInv, NEW d \in Distributor, Exists(d), TreeIsConsistent(d),
           NEW leaf \in distributor[d].root, ~HasClaim(d, leaf.claimant)
    PROVE  WithinMaxNumNodes(d)
<1> DEFINE root == distributor[d].root
           new  == ClaimsOn(d) \cup {leaf.claimant}
           LeafOf(w) == CHOOSE l \in root : l.claimant = w
           f    == [w \in new |-> LeafOf(w)]
<1>1. TypeOK /\ distributor[d] \in DistributorAccount
  BY ExistingAccounts DEF LedgerInv, VestingInv
<1>2. ASSUME NEW w \in new PROVE LeafOf(w) \in root /\ LeafOf(w).claimant = w
  <2>1. CASE HasClaim(d, w) /\ w \in Wallet
    <3> DEFINE entry ==
          [claimant        |-> w,
           amount_unlocked |-> claim_status[d][w].unlocked_amount,
           amount_locked   |-> claim_status[d][w].locked_amount]
    <3>1. entry \in root /\ entry.claimant = w
      BY <2>1 DEF LedgerInv, ClaimsAreListed
    <3>2. QED
      BY <3>1
  <2>2. CASE w = leaf.claimant
    BY <2>2
  <2>3. QED
    BY <2>1, <2>2 DEF ClaimsOn
<1>3. f \in Injection(new, root)
  <2>1. f \in [new -> root]
    BY <1>2
  <2>2. ASSUME NEW v \in new, NEW w \in new, f[v] = f[w] PROVE v = w
    BY <1>2, <2>2
  <2>3. QED
    BY <2>1, <2>2 DEF Injection, IsInjective
<1>4. IsFiniteSet(root) /\ Cardinality(root) \in Nat
  BY <1>1, TreeIsFinite
<1>5. Cardinality(new) <= Cardinality(root)
  <2> HIDE DEF f, new, root
  <2>1. QED
    BY <1>3, <1>4, FS_Injection
<1>6. Cardinality(new) = Cardinality(ClaimsOn(d)) + 1
      /\ Cardinality(ClaimsOn(d)) \in Nat
  <2>1. IsFiniteSet(ClaimsOn(d)) /\ Cardinality(ClaimsOn(d)) \in Nat
    BY <1>1, TotalPaidIsNatural
  <2>2. leaf.claimant \notin ClaimsOn(d)
    BY DEF ClaimsOn
  <2>3. QED
    BY <2>1, <2>2, FS_AddElement
<1>7. distributor[d].num_nodes_claimed = Cardinality(ClaimsOn(d))
  BY DEF LedgerInv, LedgerMatchesClaims
<1>8. /\ distributor[d].max_num_nodes \in U64
      /\ distributor[d].max_num_nodes \in Nat
      /\ Cardinality(root) <= distributor[d].max_num_nodes
  BY <1>1, AmountsAreNatural DEF DistributorAccount, TreeIsConsistent
<1> HIDE DEF new, root
<1>9. /\ Cardinality(ClaimsOn(d)) + 1 \in Nat
      /\ Cardinality(ClaimsOn(d)) + 1 <= distributor[d].max_num_nodes
  BY <1>4, <1>5, <1>6, <1>8
<1>10. Cardinality(ClaimsOn(d)) + 1 \in U64
  BY <1>8, <1>9, WidthAssumption DEF U64
<1>11. QED
  BY <1>7, <1>9, <1>10 DEF WithinMaxNumNodes

\* No check that looks at the counters, the caps or the vault ever refuses a
\* claimant of a consistent, funded tree.
THEOREM HonestClaimCorrect == Spec => []HonestClaimIsNeverRefused
<1>1. ASSUME LedgerInv, NEW d \in Distributor, IsSolvent(d),
             NEW leaf \in distributor[d].root
      PROVE  IF HasClaim(d, leaf.claimant)
               THEN /\ WithinMaxTotalClaim(d, Withdrawable(d, leaf.claimant))
                    /\ Withdrawable(d, leaf.claimant) <= balance[d]
                    /\ Paid(d, leaf.claimant) + Withdrawable(d, leaf.claimant)
                         <= GrantOf(leaf)
               ELSE /\ WithinMaxNumNodes(d)
                    /\ WithinMaxTotalClaim(d, leaf.amount_unlocked)
                    /\ leaf.amount_unlocked <= balance[d]
  <2>1. Exists(d) /\ TreeIsConsistent(d)
    BY <1>1 DEF IsSolvent, Open
  <2>2. CASE HasClaim(d, leaf.claimant)
    <3>1. /\ Withdrawable(d, leaf.claimant) \in Nat
          /\ Paid(d, leaf.claimant) + Withdrawable(d, leaf.claimant)
               <= GrantOf(leaf)
      BY <1>1, <2>1, <2>2, PaymentsStayWithinGrants
    <3>2. QED
      BY <1>1, <2>2, <3>1, RoomForALeaf
  <2>3. CASE ~HasClaim(d, leaf.claimant)
    <3>1. Paid(d, leaf.claimant) = 0
      BY <2>3 DEF Paid
    <3>2. leaf.amount_unlocked \in Nat /\ leaf.amount_locked \in Nat
      BY <1>1, <2>1, LeavesOfTheTree DEF LedgerInv, VestingInv
    <3>3. Paid(d, leaf.claimant) + leaf.amount_unlocked <= GrantOf(leaf)
      BY <3>1, <3>2 DEF GrantOf
    <3>4. QED
      BY <1>1, <2>1, <2>3, <3>2, <3>3, RoomForALeaf, RoomForAClaimant
  <2>4. QED
    BY <2>2, <2>3
<1>2. LedgerInv => HonestClaimIsNeverRefused
  BY <1>1 DEF HonestClaimIsNeverRefused
<1>3. QED
  BY <1>2, LedgerInvariant, PTL

\* A payment of a consistent tree lowers what is outstanding by as much.
LEMMA PaymentSettles ==
    ASSUME LedgerInv, [Next]_vars, NEW d \in Distributor, TreeIsConsistent(d),
           NEW w \in Wallet, NEW to \in TokenAccount, NEW amount \in U64,
           Pays(d, w, to, amount)
    PROVE  Outstanding(d)' = Outstanding(d) - amount
<1> DEFINE root == distributor[d].root
           entry == [claimant        |-> w,
                     amount_unlocked |-> claim_status'[d][w].unlocked_amount,
                     amount_locked   |-> claim_status'[d][w].locked_amount]
<1>1. Exists(d) /\ TypeOK /\ IsFiniteSet(root) /\ amount \in Int
  BY TreeIsFinite, AmountsAreNatural DEF LedgerInv, VestingInv, Pays, Open
<1>2. distributor'[d].root = root
  BY <1>1, StepKeepsTerms, KeptTerms
<1>3. entry \in root /\ entry.claimant = w
  <2>1. HasClaim(d, w)'
    BY DEF Pays, ClaimsOn
  <2>2. ClaimsAreListed'
    BY StepListed
  <2>3. QED
    BY <1>2, <2>1, <2>2 DEF ClaimsAreListed
<1>4. \A leaf \in root :
          /\ leaf.claimant \in Wallet
          /\ GrantOf(leaf) \in Int
          /\ Paid(d, leaf.claimant) \in Int
          /\ leaf # entry => leaf.claimant # w
  BY <1>1, <1>3, LeavesOfTheTree, PaidIsNatural DEF TreeIsConsistent
<1> HIDE DEF entry
<1>5. Owed(d)' = [leaf \in root |-> GrantOf(leaf) - Paid(d, leaf.claimant)']
  BY <1>2 DEF Owed
<1>6. ASSUME NEW leaf \in root
      PROVE  /\ Owed(d)[leaf] \in Int
             /\ Owed(d)'[leaf] \in Int
             /\ Owed(d)'[leaf] = Owed(d)[leaf]
                                   - (IF leaf = entry THEN amount ELSE 0)
  <2>1. Paid(d, leaf.claimant)'
          = Paid(d, leaf.claimant) + (IF leaf.claimant = w THEN amount ELSE 0)
    BY <1>4 DEF Pays
  <2>2. Owed(d)[leaf] = GrantOf(leaf) - Paid(d, leaf.claimant)
    BY DEF Owed
  <2>3. Owed(d)'[leaf] = GrantOf(leaf) - Paid(d, leaf.claimant)'
    BY <1>5
  <2>4. leaf = entry <=> leaf.claimant = w
    BY <1>3, <1>4
  <2>5. QED
    BY <1>1, <1>4, <2>1, <2>2, <2>3, <2>4
<1>7. SumFunctionOnSet(Owed(d)', root)
        = SumFunctionOnSet(Owed(d), root) + (Owed(d)'[entry] - Owed(d)[entry])
  BY <1>1, <1>3, <1>6, SumChangesByOne
<1>8. Owed(d)'[entry] - Owed(d)[entry] = -amount
  BY <1>1, <1>3, <1>6
<1>9. SumFunctionOnSet(Owed(d), root) \in Int
  BY <1>1, <1>6, SumTakesOut
<1>10. Outstanding(d)' = SumFunctionOnSet(Owed(d)', root)
  BY <1>2 DEF Outstanding, SumFunction, Owed
<1>11. Outstanding(d) = SumFunctionOnSet(Owed(d), root)
  BY SumsOverTheTree
<1>12. QED
  BY <1>1, <1>7, <1>8, <1>9, <1>10, <1>11

\* Solvency survives every step but the clawback.
THEOREM SolvencyCorrect == Spec => SolvencyIsKept
<1>1. ASSUME LedgerInv, [Next]_vars, NEW d \in Distributor, IsSolvent(d),
             Open(d)'
      PROVE  IsSolvent(d)'
  <2>1. /\ TypeOK /\ Exists(d) /\ TreeIsConsistent(d)
        /\ balance[d] >= Outstanding(d)
    BY <1>1 DEF LedgerInv, VestingInv, IsSolvent, Open
  <2>2. /\ distributor'[d].root = distributor[d].root
        /\ distributor'[d].max_total_claim = distributor[d].max_total_claim
        /\ distributor'[d].max_num_nodes = distributor[d].max_num_nodes
    BY <1>1, <2>1, StepKeepsTerms, KeptTerms
  <2>3. TreeIsConsistent(d)'
    BY <2>1, <2>2 DEF TreeIsConsistent
  <2>4. /\ balance[d] \in Int /\ balance'[d] \in Int
        /\ Outstanding(d) \in Int
    <3>1. balance[d] \in U64 /\ balance'[d] \in U64
      BY <1>1, <2>1, StepTypes DEF TypeOK, Account
    <3>2. Outstanding(d) \in Nat
      BY <1>1, <2>1, PaidAndOutstanding
    <3>3. QED
      BY <3>1, <3>2, AmountsAreNatural
  <2>5. ASSUME NEW w \in Wallet, NEW to \in TokenAccount, NEW amount \in U64,
               Pays(d, w, to, amount)
        PROVE  balance'[d] >= Outstanding(d)'
    <3>1. Outstanding(d)' = Outstanding(d) - amount
      BY <1>1, <2>1, <2>5, PaymentSettles
    <3>2. balance'[d] = balance[d] - amount /\ amount \in Int
      BY <2>5, AmountsAreNatural DEF Pays
    <3>3. QED
      BY <2>1, <2>4, <3>1, <3>2
  <2>6. ASSUME claim_status'[d] = claim_status[d],
               balance'[d] >= balance[d] \/ Clawback(d)
        PROVE  balance'[d] >= Outstanding(d)'
    <3>1. ~Clawback(d)
      <4>1. distributor[d] \in DistributorAccount
        BY <2>1, ExistingAccounts
      <4>2. Clawback(d) => distributor'[d].clawed_back
        BY <2>1, <4>1 DEF Clawback, TypeOK, DistributorAccount
      <4>3. QED
        BY <1>1, <4>2 DEF Open
    <3>2. \A w \in Wallet : Paid(d, w)' = Paid(d, w)
      BY <2>6, NoPayment
    <3>3. \A leaf \in distributor[d].root : leaf.claimant \in Wallet
      BY <2>1, LeavesOfTheTree
    <3>4. Outstanding(d)' = Outstanding(d)
      BY <2>2, <3>2, <3>3 DEF Outstanding
    <3>5. QED
      BY <2>1, <2>4, <2>6, <3>1, <3>4
  <2>7. balance'[d] >= Outstanding(d)'
    BY <1>1, <2>1, <2>5, <2>6, PaymentStep
  <2>8. QED
    BY <1>1, <2>3, <2>7 DEF IsSolvent
<1>2. LedgerInv /\ [Next]_vars =>
        [\A d \in Distributor :
            IsSolvent(d) /\ Open(d)' => IsSolvent(d)']_vars
  BY <1>1
<1>3. QED
  BY <1>2, LedgerInvariant, PTL DEF Spec, SolvencyIsKept

------------------------------------------------------------------------------
(*****************************************************************************)
(* The on-chain program implements VestingGrants.                            *)
(*****************************************************************************)

(* The state of VestingGrants, as Grants reads it off the accounts.        *)

TermsNow(d) ==
    IF Exists(d)
      THEN TermsOf(distributor[d].root, distributor[d].start_ts,
                   distributor[d].end_ts, distributor[d].clawback_start_ts)
      ELSE NoAccount

GrantedNow(d) == {EntryOf(d, w) : w \in ClaimsOn(d)}

FundNow(d) == IF Exists(d) THEN balance[d] ELSE 0

terms_now   == [d \in Distributor |-> TermsNow(d)]
granted_now == [d \in Distributor |-> GrantedNow(d)]
paid_now    == [d \in Distributor |-> PaidBy(d)]
fund_now    == [d \in Distributor |-> FundNow(d)]
closed_now  == {d \in Distributor : ClawedBack(d)}

mapped == <<clock, terms_now, granted_now, paid_now, fund_now, closed_now>>

LEMMA MappedIsMapping == Grants!vars = mapped /\ Grants!vars' = mapped'
BY DEF Grants!vars, mapped, terms_now, granted_now, paid_now, fund_now,
       closed_now, TermsNow, GrantedNow, FundNow, PaidBy

\* The terms of a distributor are never mistaken for those of none.
LEMMA TermsAreTerms ==
    ASSUME TypeOK, NEW d \in Distributor
    PROVE  /\ TermsNow(d) # NoAccount <=> Exists(d)
           /\ Exists(d) => /\ TermsNow(d).list = distributor[d].root
                           /\ TermsNow(d).start = distributor[d].start_ts
                           /\ TermsNow(d).end = distributor[d].end_ts
                           /\ TermsNow(d).until
                                = distributor[d].clawback_start_ts
<1>1. CASE Exists(d)
  <2>1. distributor[d] \in DistributorAccount
    BY <1>1, ExistingAccounts
  <2>2. TermsNow(d) = [list  |-> distributor[d].root,
                       start |-> distributor[d].start_ts,
                       end   |-> distributor[d].end_ts,
                       until |-> distributor[d].clawback_start_ts]
    BY <1>1 DEF TermsNow, TermsOf
  <2>3. TermsNow(d) \in [list : SUBSET Leaf, start : I64, end : I64, until : I64]
    BY <2>1, <2>2 DEF DistributorAccount
  <2>4. QED
    BY <1>1, <2>2, <2>3, NoTermsAssumption
<1>2. CASE ~Exists(d)
  BY <1>2 DEF TermsNow
<1>3. QED
  BY <1>1, <1>2

------------------------------------------------------------------------------
(* Which parts of the mapping a step leaves alone.                         *)

\* A step that creates no distributor.
CreatesNone == \A d \in Distributor : Exists(d)' => Exists(d)

LEMMA TermsStay ==
    ASSUME TypeOK, [Next]_vars, CreatesNone
    PROVE  /\ terms_now' = terms_now
           /\ \A d \in Distributor : Exists(d)' <=> Exists(d)
<1>1. ASSUME NEW d \in Distributor
      PROVE  TermsNow(d)' = TermsNow(d) /\ (Exists(d)' <=> Exists(d))
  <2>1. CASE Exists(d)
    <3>1. /\ Exists(d)'
          /\ distributor'[d].root = distributor[d].root
          /\ distributor'[d].start_ts = distributor[d].start_ts
          /\ distributor'[d].end_ts = distributor[d].end_ts
          /\ distributor'[d].clawback_start_ts
               = distributor[d].clawback_start_ts
      BY <2>1, StepKeepsTerms, KeptTerms
    <3>2. QED
      BY <2>1, <3>1 DEF TermsNow
  <2>2. CASE ~Exists(d)
    BY <2>2 DEF TermsNow, CreatesNone
  <2>3. QED
    BY <2>1, <2>2
<1>2. QED
  BY <1>1 DEF terms_now

LEMMA ClaimsStay ==
    ASSUME claim_status' = claim_status
    PROVE  granted_now' = granted_now /\ paid_now' = paid_now
<1>1. \A d \in Distributor : /\ GrantedNow(d)' = GrantedNow(d)
                             /\ PaidBy(d)' = PaidBy(d)
  BY DEF GrantedNow, EntryOf, ClaimsOn, HasClaim, PaidBy, Paid
<1>2. QED
  BY <1>1 DEF granted_now, paid_now

LEMMA FundsStay ==
    ASSUME TypeOK, [Next]_vars, CreatesNone,
           \A d \in Distributor : Exists(d) => balance'[d] = balance[d]
    PROVE  fund_now' = fund_now
BY TermsStay DEF fund_now, FundNow

\* A distributor that was open stays so until its clawback.
LEMMA ClosedStays ==
    ASSUME TypeOK, [Next]_vars, CreatesNone,
           \A d \in Distributor : Open(d) => ~distributor'[d].clawed_back
    PROVE  closed_now' = closed_now
<1>1. ASSUME NEW d \in Distributor PROVE ClawedBack(d)' <=> ClawedBack(d)
  <2>1. Exists(d)' <=> Exists(d)
    BY TermsStay
  <2>2. CASE ClawedBack(d)
    BY <2>1, <2>2, StepKeepsTerms DEF ClawedBack, KeepsTerms
  <2>3. CASE ~ClawedBack(d)
    BY <2>1, <2>3 DEF ClawedBack, Open
  <2>4. QED
    BY <2>2, <2>3
<1>2. QED
  BY <1>1 DEF closed_now

\* A step that touches no distributor's account.
LEMMA DistributorsStay ==
    ASSUME TypeOK, [Next]_vars, distributor' = distributor
    PROVE  CreatesNone /\ terms_now' = terms_now /\ closed_now' = closed_now
<1>1. CreatesNone
  BY DEF CreatesNone, Exists
<1>2. \A d \in Distributor : Open(d) => ~distributor'[d].clawed_back
  BY DEF Open
<1>3. QED
  BY <1>1, <1>2, TermsStay, ClosedStays

\* A step that touches one distributor's account, and does not close it.
LEMMA OthersStay ==
    ASSUME TypeOK, [Next]_vars, NEW d \in Distributor, Exists(d),
           Open(d) => ~distributor'[d].clawed_back,
           \A e \in Distributor : e # d => distributor'[e] = distributor[e]
    PROVE  CreatesNone /\ terms_now' = terms_now /\ closed_now' = closed_now
<1>1. CreatesNone
  BY DEF CreatesNone, Exists
<1>2. \A e \in Distributor : Open(e) => ~distributor'[e].clawed_back
  BY DEF Open
<1>3. QED
  BY <1>1, <1>2, TermsStay, ClosedStays

------------------------------------------------------------------------------
(* Each step of the program is a step of VestingGrants, or none.           *)

\* Tokens are in a vault only if it was created, and vaults are not closed: a
\* vault that new_distributor creates is empty, as OpenAirdrop leaves the fund.
VaultsStartEmpty ==
    \A d \in Distributor :
        /\ Exists(d) => IsTokenAccount(d)
        /\ ~IsTokenAccount(d) => balance[d] = 0

\* The inductive invariant of the refinement: an entry that is granted is one
\* of the list (LedgerInv), and what a claim has been paid is what was due.
RefinementInv == LedgerInv /\ VaultsStartEmpty

LEMMA TickAdvances ==
    ASSUME TypeOK, [Next]_vars, Tick PROVE Grants!Advance
<1>1. clock' > clock
  <2>1. PICK t \in Time : t > clock /\ clock' = t
    BY DEF Tick
  <2>2. QED
    BY <2>1
<1>2. /\ terms_now' = terms_now
      /\ closed_now' = closed_now
      /\ CreatesNone
  BY DistributorsStay DEF Tick
<1>3. granted_now' = granted_now /\ paid_now' = paid_now
  BY ClaimsStay DEF Tick
<1>4. fund_now' = fund_now
  BY <1>2, FundsStay DEF Tick
<1>5. QED
  BY <1>1, <1>2, <1>3, <1>4
  DEF Grants!Advance, terms_now, granted_now, paid_now, fund_now, closed_now,
      TermsNow, GrantedNow, FundNow, PaidBy

LEMMA NewDistributorOpens ==
    ASSUME RefinementInv, [Next]_vars, NEW d \in Distributor,
           NEW admin \in Wallet, NEW a \in Account,
           NEW args \in NewDistributorArgs, NewDistributor(d, admin, a, args)
    PROVE  Grants!OpenAirdrop(d, TermsOf(args.root, args.start_vesting_ts,
                                         args.end_vesting_ts,
                                         args.clawback_start_ts))
<1> DEFINE t == TermsOf(args.root, args.start_vesting_ts,
                        args.end_vesting_ts, args.clawback_start_ts)
<1>1. /\ TypeOK /\ TypeOK'
      /\ ~Exists(d) /\ ~IsTokenAccount(d) /\ balance[d] = 0
  BY StepTypes DEF RefinementInv, LedgerInv, VestingInv, VaultsStartEmpty,
     NewDistributor, MayInit
<1>2. /\ Exists(d)'
      /\ TermsNow(d)' = t
      /\ distributor'[d].clawed_back = FALSE
  <2> DEFINE new == [root             |-> args.root,
                 max_total_claim      |-> args.max_total_claim,
                 max_num_nodes        |-> args.max_num_nodes,
                 total_amount_claimed |-> 0,
                 num_nodes_claimed    |-> 0,
                 start_ts             |-> args.start_vesting_ts,
                 end_ts               |-> args.end_vesting_ts,
                 clawback_start_ts    |-> args.clawback_start_ts,
                 clawback_receiver    |-> a,
                 admin                |-> admin,
                 clawed_back          |-> FALSE]
  <2>1. distributor'[d] = new
    BY <1>1 DEF NewDistributor, TypeOK
  <2>2. new \in DistributorAccount
    BY ArgsAssumption, WidthAssumption DEF DistributorAccount, Args, U64
  <2>3. Exists(d)'
    BY <2>1, <2>2, NoAccountAssumption DEF Exists
  <2>4. /\ distributor'[d].root = args.root
        /\ distributor'[d].start_ts = args.start_vesting_ts
        /\ distributor'[d].end_ts = args.end_vesting_ts
        /\ distributor'[d].clawback_start_ts = args.clawback_start_ts
        /\ distributor'[d].clawed_back = FALSE
    BY <2>1
  <2>5. QED
    BY <2>3, <2>4 DEF TermsNow
<1>3. \A e \in Distributor : e # d => distributor'[e] = distributor[e]
  BY <1>1 DEF NewDistributor, TypeOK
<1>4. terms_now' = [terms_now EXCEPT ![d] = t]
  BY <1>2, <1>3 DEF terms_now, TermsNow, Exists
<1>5. terms_now[d] = NoAccount
  BY <1>1 DEF terms_now, TermsNow
<1>6. fund_now' = fund_now
  <2>1. balance' = balance
    BY DEF NewDistributor
  <2>2. \A e \in Distributor : FundNow(e)' = FundNow(e)
    BY <1>1, <1>2, <1>3, <2>1 DEF FundNow, Exists
  <2>3. QED
    BY <2>2 DEF fund_now
<1>7. closed_now' = closed_now
  BY <1>1, <1>2, <1>3 DEF closed_now, ClawedBack, Exists
<1>8. granted_now' = granted_now /\ paid_now' = paid_now /\ clock' = clock
  BY ClaimsStay DEF NewDistributor
<1>9. clock < t.start /\ t.start < t.end /\ t.end + SECONDS_PER_DAY <= t.until
  <2>1. /\ t.start = args.start_vesting_ts
        /\ t.end = args.end_vesting_ts
        /\ t.until = args.clawback_start_ts
    BY DEF TermsOf
  <2>2. /\ args.start_vesting_ts \in Int
        /\ args.end_vesting_ts \in Int
        /\ args.clawback_start_ts \in Int
        /\ clock \in Int
        /\ SECONDS_PER_DAY \in Int
    BY <1>1, ArgsAssumption, InstantsAreIntegers, TimeAssumption
    DEF Args, TypeOK
  <2>3. QED
    BY <2>1, <2>2 DEF NewDistributor, TimestampsAreValid
<1> HIDE DEF t
<1>10. QED
  BY <1>4, <1>5, <1>6, <1>7, <1>8, <1>9
  DEF Grants!OpenAirdrop, terms_now, granted_now, paid_now, fund_now,
      closed_now, TermsNow, GrantedNow, FundNow, PaidBy, t

LEMMA NewClaimGrants ==
    ASSUME RefinementInv, [Next]_vars, NEW d \in Distributor, NEW w \in Wallet,
           NEW to \in TokenAccount, NEW u \in U64, NEW l \in U64,
           NewClaim(d, w, to, u, l)
    PROVE  LET entry == [claimant        |-> w,
                         amount_unlocked |-> u,
                         amount_locked   |-> l]
           IN  /\ TermsNow(d) # NoAccount
               /\ entry \in TermsNow(d).list
               /\ Grants!Grant(d, entry)
<1> DEFINE entry == [claimant        |-> w,
                     amount_unlocked |-> u,
                     amount_locked   |-> l]
<1>1. TypeOK /\ Open(d) /\ Exists(d)
  BY DEF RefinementInv, LedgerInv, VestingInv, NewClaim, Open
<1>2. Pays(d, w, to, u)
  BY <1>1, NewClaimPays
<1>3. u \in Int /\ balance[d] \in Int
  BY <1>1, AmountsAreNatural DEF TypeOK, Account
<1>4. ~HasClaim(d, w) /\ Paid(d, w) = 0
  BY DEF NewClaim, MayInit, Paid
<1>5. TermsNow(d) # NoAccount /\ entry \in TermsNow(d).list
  BY <1>1, TermsAreTerms DEF NewClaim, Verify
<1>6. d \notin closed_now
  BY <1>1 DEF closed_now, ClawedBack, Open
<1>7. \A other \in GrantedNow(d) : other.claimant # w
  BY <1>4 DEF GrantedNow, EntryOf, ClaimsOn
<1>8. \A e \in Distributor : e # d =>
          /\ distributor'[e] = distributor[e]
          /\ claim_status'[e] = claim_status[e]
          /\ balance'[e] = balance[e]
  <2>1. \A e \in Distributor : e # d =>
            /\ distributor'[e] = distributor[e]
            /\ claim_status'[e] = claim_status[e]
    BY <1>1 DEF NewClaim, Recorded, TypeOK
  <2>2. ASSUME NEW e \in Distributor, e # d PROVE balance'[e] = balance[e]
    <3>1. e # to /\ e \in Account /\ balance[e] \in Int
      BY <1>1, AccountAssumption, AmountsAreNatural DEF TypeOK, Account
    <3>2. balance'[e] = balance[e] - 0 + 0
      BY <2>2, <3>1 DEF NewClaim, Transferred
    <3>3. QED
      BY <3>1, <3>2
  <2>3. QED
    BY <2>1, <2>2
<1>9. terms_now' = terms_now /\ closed_now' = closed_now /\ CreatesNone
  <2>1. ~distributor'[d].clawed_back
    BY <1>1, RecordedKeepsTerms DEF NewClaim, Open
  <2>2. QED
    BY <1>1, <1>8, <2>1, OthersStay
<1>10. granted_now' = [granted_now EXCEPT ![d] = @ \cup {entry}]
  <2>1. GrantedNow(d)' = GrantedNow(d) \cup {entry}
    <3>1. EntryOf(d, w)' = entry
      BY <1>1 DEF EntryOf, NewClaim, TypeOK
    <3>2. \A v \in ClaimsOn(d) : EntryOf(d, v)' = EntryOf(d, v)
      BY <1>1, <1>4 DEF EntryOf, NewClaim, TypeOK, ClaimsOn
    <3>3. ClaimsOn(d)' = ClaimsOn(d) \cup {w}
      BY <1>2 DEF Pays
    <3>4. GrantedNow(d)' = {EntryOf(d, v)' : v \in ClaimsOn(d) \cup {w}}
      BY <3>3 DEF GrantedNow
    <3> HIDE DEF entry
    <3>5. QED
      BY <3>1, <3>2, <3>4 DEF GrantedNow
  <2>2. \A e \in Distributor : e # d => GrantedNow(e)' = GrantedNow(e)
    BY <1>8 DEF GrantedNow, EntryOf, ClaimsOn, HasClaim
  <2>3. QED
    BY <2>1, <2>2 DEF granted_now
<1>11. paid_now' = [paid_now EXCEPT ![d][w] = u]
  <2>1. PaidBy(d)' = [PaidBy(d) EXCEPT ![w] = u]
    <3>1. Paid(d, w)' = u
      <4>1. Paid(d, w)' = Paid(d, w) + u
        BY <1>2 DEF Pays
      <4>2. QED
        BY <1>3, <1>4, <4>1
    <3>2. \A v \in Wallet : v # w => Paid(d, v)' = Paid(d, v)
      BY <1>1, <1>2, PaidIsNatural DEF Pays
    <3>3. QED
      BY <3>1, <3>2 DEF PaidBy
  <2>2. \A e \in Distributor : e # d => PaidBy(e)' = PaidBy(e)
    BY <1>8 DEF PaidBy, Paid, HasClaim
  <2>3. QED
    BY <2>1, <2>2 DEF paid_now
<1>12. u <= FundNow(d)
  BY <1>1 DEF FundNow, NewClaim, CanTransfer
<1>13. fund_now' = [fund_now EXCEPT ![d] = @ - u]
  <2>1. FundNow(d)' = FundNow(d) - u
    BY <1>1, <1>2, <1>9, TermsStay DEF FundNow, Pays
  <2>2. \A e \in Distributor : e # d => FundNow(e)' = FundNow(e)
    BY <1>1, <1>8, <1>9, TermsStay DEF FundNow
  <2>3. QED
    BY <2>1, <2>2 DEF fund_now
<1>14. PaidBy(d)[w] = 0 /\ u - 0 = u
  BY <1>3, <1>4 DEF PaidBy
<1>15. Grants!Grant(d, entry)
  <2>1. entry.claimant = w /\ entry.amount_unlocked = u
    OBVIOUS
  <2> HIDE DEF entry
  <2>2. clock' = clock
    BY DEF NewClaim
  <2>3. /\ terms_now[d] = TermsNow(d)
        /\ granted_now[d] = GrantedNow(d)
        /\ paid_now[d][w] = 0
        /\ fund_now[d] = FundNow(d)
    BY <1>14 DEF terms_now, granted_now, paid_now, fund_now
  <2>4. /\ terms_now[d] # NoAccount
        /\ d \notin closed_now
        /\ entry \in terms_now[d].list
        /\ \A other \in granted_now[d] : other.claimant # entry.claimant
    BY <1>5, <1>6, <1>7, <2>1, <2>3
  <2>5. /\ entry.amount_unlocked - paid_now[d][entry.claimant] <= fund_now[d]
        /\ paid_now' = [paid_now EXCEPT ![d][entry.claimant]
                                          = entry.amount_unlocked]
        /\ fund_now' = [fund_now EXCEPT
                ![d] = @ - (entry.amount_unlocked - paid_now[d][entry.claimant])]
    BY <1>11, <1>12, <1>13, <1>14, <2>1, <2>3
  <2>6. QED
    BY <1>9, <1>10, <2>2, <2>4, <2>5
    DEF Grants!Grant, Grants!IsOpen, Grants!PayUpTo, terms_now, granted_now,
        paid_now, fund_now, closed_now, TermsNow, GrantedNow, FundNow, PaidBy
<1>16. QED
  BY <1>5, <1>15

\* What VestingGrants finds due is what unlocked_amount computes.
LEMMA DueIsUnlocked ==
    ASSUME TypeOK, NEW d \in Distributor, Exists(d), NEW w \in Wallet,
           HasClaim(d, w)
    PROVE  Grants!Due(d, EntryOf(d, w))
             = claim_status[d][w].unlocked_amount
                 + UnlockedAmount(claim_status[d][w], clock,
                                  distributor[d].start_ts, distributor[d].end_ts)
<1> DEFINE cs    == claim_status[d][w]
           start == distributor[d].start_ts
           end   == distributor[d].end_ts
           share == IF clock < start THEN 0
                    ELSE IF clock >= end THEN cs.locked_amount
                    ELSE (cs.locked_amount * (clock - start)) \div (end - start)
<1>1. cs \in ClaimStatus /\ distributor[d] \in DistributorAccount
  BY ExistingAccounts
<1>2. clock \in I64 /\ start \in I64 /\ end \in I64
  BY <1>1, WordsAreIntegers DEF TypeOK, DistributorAccount
<1>3. clock \in Int /\ start \in Int /\ end \in Int /\ cs.locked_amount \in Nat
  BY <1>1, <1>2, InstantsAreIntegers, AmountsAreNatural DEF ClaimStatus
<1>4. TermsNow(d).start = start /\ TermsNow(d).end = end
  BY TermsAreTerms
<1>5. /\ EntryOf(d, w).amount_unlocked = cs.unlocked_amount
      /\ EntryOf(d, w).amount_locked = cs.locked_amount
  BY DEF EntryOf
<1>6. Grants!Due(d, EntryOf(d, w)) = cs.unlocked_amount + share
  BY <1>4, <1>5 DEF Grants!Due, TermsNow
<1> HIDE DEF cs, start, end
<1>7. share = UnlockedAmount(cs, clock, start, end)
  <2>1. CASE Vests(clock, start, end)
    <3>1. UnlockedAmount(cs, clock, start, end)
            = ((clock - start) * cs.locked_amount) \div (end - start)
      BY <1>1, <1>2, <2>1, NoTruncation
    <3>2. (clock - start) * cs.locked_amount = cs.locked_amount * (clock - start)
      BY <1>3
    <3>3. ~(clock < start) /\ ~(clock >= end)
      BY <1>3, <2>1 DEF Vests
    <3>4. QED
      BY <3>1, <3>2, <3>3
  <2>2. CASE ~Vests(clock, start, end)
    BY <1>3, <2>2 DEF Vests, UnlockedAmount
  <2>3. QED
    BY <2>1, <2>2
<1>8. QED
  BY <1>6, <1>7 DEF cs, start, end

LEMMA ClaimLockedPaysVested ==
    ASSUME RefinementInv, [Next]_vars, NEW d \in Distributor, NEW w \in Wallet,
           NEW to \in TokenAccount, ClaimLocked(d, w, to)
    PROVE  /\ EntryOf(d, w) \in GrantedNow(d)
           /\ Grants!PayVested(d, EntryOf(d, w))
<1> DEFINE entry  == EntryOf(d, w)
           amount == Withdrawable(d, w)
           due    == Grants!Due(d, entry)
<1>1. TypeOK /\ Open(d) /\ Exists(d) /\ HasClaim(d, w)
  BY DEF RefinementInv, LedgerInv, VestingInv, ClaimLocked, Open
<1>2. /\ Pays(d, w, to, amount)
      /\ amount \in U64 /\ amount > 0
      /\ claim_status[d][w] \in ClaimStatus
      /\ claim_status[d][w].locked_amount_withdrawn + amount
           = UnlockedAmount(claim_status[d][w], clock,
                            distributor[d].start_ts, distributor[d].end_ts)
  BY <1>1, ClaimLockedPays, ClaimLockedAmount
<1>3. /\ amount \in Int /\ balance[d] \in Int
      /\ claim_status[d][w].locked_amount_withdrawn \in Int
      /\ claim_status[d][w].unlocked_amount \in Int
  BY <1>1, <1>2, AmountsAreNatural DEF TypeOK, Account, ClaimStatus
<1>4. due = Paid(d, w) + amount /\ Paid(d, w) \in Int
  <2>1. Paid(d, w) = claim_status[d][w].unlocked_amount
                       + claim_status[d][w].locked_amount_withdrawn
    BY <1>1 DEF Paid
  <2>2. due = claim_status[d][w].unlocked_amount
                + (claim_status[d][w].locked_amount_withdrawn + amount)
    BY <1>1, <1>2, DueIsUnlocked
  <2> HIDE DEF amount, due
  <2>3. QED
    BY <1>3, <2>1, <2>2
<1>5. TermsNow(d) # NoAccount
  BY <1>1, TermsAreTerms
<1>6. d \notin closed_now
  BY <1>1 DEF closed_now, ClawedBack, Open
<1>7. entry \in GrantedNow(d) /\ entry.claimant = w
  BY <1>1 DEF GrantedNow, EntryOf, ClaimsOn
<1>8. \A e \in Distributor : e # d =>
          /\ distributor'[e] = distributor[e]
          /\ claim_status'[e] = claim_status[e]
          /\ balance'[e] = balance[e]
  <2>1. \A e \in Distributor : e # d =>
            /\ distributor'[e] = distributor[e]
            /\ claim_status'[e] = claim_status[e]
    BY <1>1 DEF ClaimLocked, Recorded, Withdrawn, TypeOK
  <2>2. ASSUME NEW e \in Distributor, e # d PROVE balance'[e] = balance[e]
    <3>1. e # to /\ e \in Account /\ balance[e] \in Int
      BY <1>1, AccountAssumption, AmountsAreNatural DEF TypeOK, Account
    <3>2. balance'[e] = balance[e] - 0 + 0
      BY <2>2, <3>1 DEF ClaimLocked, Transferred
    <3>3. QED
      BY <3>1, <3>2
  <2>3. QED
    BY <2>1, <2>2
<1>9. terms_now' = terms_now /\ closed_now' = closed_now /\ CreatesNone
  <2>1. ~distributor'[d].clawed_back
    BY <1>1, <1>2, RecordedKeepsTerms DEF ClaimLocked, Open
  <2>2. QED
    BY <1>1, <1>8, <2>1, OthersStay
<1>10. granted_now' = granted_now
  <2>1. \A v \in Wallet : v # w => EntryOf(d, v)' = EntryOf(d, v)
    BY <1>1 DEF EntryOf, ClaimLocked, Withdrawn, TypeOK
  <2>2. EntryOf(d, w)' = EntryOf(d, w)
    <3>1. claim_status'[d][w] = [claim_status[d][w] EXCEPT
                                   !.locked_amount_withdrawn = @ + amount]
      BY <1>1, ClaimAfterWithdrawal
    <3>2. /\ claim_status'[d][w].unlocked_amount
               = claim_status[d][w].unlocked_amount
          /\ claim_status'[d][w].locked_amount
               = claim_status[d][w].locked_amount
      BY <1>2, <3>1 DEF ClaimStatus
    <3>3. QED
      BY <3>2 DEF EntryOf
  <2>3. ClaimsOn(d)' = ClaimsOn(d) /\ ClaimsOn(d) \subseteq Wallet
    BY <1>1, <1>2 DEF Pays, ClaimsOn
  <2>4. GrantedNow(d)' = GrantedNow(d)
    BY <2>1, <2>2, <2>3 DEF GrantedNow
  <2>5. \A e \in Distributor : e # d => GrantedNow(e)' = GrantedNow(e)
    BY <1>8 DEF GrantedNow, EntryOf, ClaimsOn, HasClaim
  <2>6. QED
    BY <2>4, <2>5 DEF granted_now
<1> HIDE DEF amount, due
<1>11. paid_now' = [paid_now EXCEPT ![d][w] = due]
  <2>1. PaidBy(d)' = [PaidBy(d) EXCEPT ![w] = due]
    <3>1. Paid(d, w)' = due
      BY <1>2, <1>4 DEF Pays
    <3>2. \A v \in Wallet : v # w => Paid(d, v)' = Paid(d, v)
      BY <1>1, <1>2, PaidIsNatural DEF Pays
    <3>3. QED
      BY <3>1, <3>2 DEF PaidBy
  <2>2. \A e \in Distributor : e # d => PaidBy(e)' = PaidBy(e)
    BY <1>8 DEF PaidBy, Paid, HasClaim
  <2>3. QED
    BY <2>1, <2>2 DEF paid_now
<1>12. amount <= FundNow(d) /\ due - Paid(d, w) = amount /\ due > Paid(d, w)
  BY <1>1, <1>2, <1>3, <1>4 DEF FundNow, ClaimLocked, CanTransfer, amount
<1>13. fund_now' = [fund_now EXCEPT ![d] = @ - amount]
  <2>1. FundNow(d)' = FundNow(d) - amount
    BY <1>1, <1>2, <1>9, TermsStay DEF FundNow, Pays
  <2>2. \A e \in Distributor : e # d => FundNow(e)' = FundNow(e)
    BY <1>1, <1>8, <1>9, TermsStay DEF FundNow
  <2>3. QED
    BY <2>1, <2>2 DEF fund_now
<1>14. clock' = clock
  BY DEF ClaimLocked
<1>15. Grants!PayVested(d, entry)
  <2> HIDE DEF entry
  <2>1. /\ terms_now[d] = TermsNow(d)
        /\ granted_now[d] = GrantedNow(d)
        /\ paid_now[d][w] = Paid(d, w)
        /\ fund_now[d] = FundNow(d)
    BY DEF terms_now, granted_now, paid_now, fund_now, PaidBy
  <2>2. /\ terms_now[d] # NoAccount
        /\ d \notin closed_now
        /\ entry \in granted_now[d]
        /\ due > paid_now[d][entry.claimant]
    BY <1>5, <1>6, <1>7, <1>12, <2>1
  <2>3. /\ due - paid_now[d][entry.claimant] <= fund_now[d]
        /\ paid_now' = [paid_now EXCEPT ![d][entry.claimant] = due]
        /\ fund_now' = [fund_now EXCEPT
                          ![d] = @ - (due - paid_now[d][entry.claimant])]
    BY <1>7, <1>11, <1>12, <1>13, <2>1
  <2>4. QED
    BY <1>9, <1>10, <1>14, <2>2, <2>3
    DEF Grants!PayVested, Grants!IsOpen, Grants!PayUpTo, terms_now,
        granted_now, paid_now, fund_now, closed_now, TermsNow, GrantedNow,
        FundNow, PaidBy, due
<1>16. QED
  BY <1>7, <1>15

\* The clawback closes, and what it moves stays in the funds only when the
\* receiver is the vault of a distributor, be it the one that is closed.
LEMMA ClawbackCloses ==
    ASSUME RefinementInv, [Next]_vars, NEW d \in Distributor, Clawback(d)
    PROVE  Grants!Close(d)
<1> DEFINE to       == distributor[d].clawback_receiver
           receiver == IF to \in Distributor /\ Exists(to) THEN to
                                                           ELSE NoAccount
<1>1. TypeOK /\ Open(d) /\ Exists(d) /\ distributor[d] \in DistributorAccount
  BY ExistingAccounts
  DEF RefinementInv, LedgerInv, VestingInv, Clawback, Open
<1>2. /\ to \in Account
      /\ clock >= distributor[d].clawback_start_ts
      /\ d \in Account
      /\ \A a \in Account : balance[a] \in Int
      /\ \A a \in Account :
            balance'[a] = balance[a] - (IF a = d THEN balance[d] ELSE 0)
                                     + (IF a = to THEN balance[d] ELSE 0)
  BY <1>1, AmountsAreNatural
  DEF TypeOK, Clawback, Transferred, DistributorAccount, Account
<1>3. distributor' = [distributor EXCEPT ![d].clawed_back = TRUE]
  BY DEF Clawback
<1>4. /\ distributor'[d].clawed_back = TRUE
      /\ \A e \in Distributor : e # d => distributor'[e] = distributor[e]
  BY <1>1, <1>3 DEF TypeOK, DistributorAccount
<1>5. CreatesNone
  BY <1>1, <1>4 DEF CreatesNone, Exists
<1>6. /\ terms_now' = terms_now
      /\ \A e \in Distributor : Exists(e)' <=> Exists(e)
  BY <1>1, <1>5, TermsStay
<1>7. granted_now' = granted_now /\ paid_now' = paid_now /\ clock' = clock
  BY ClaimsStay DEF Clawback
<1>8. closed_now' = closed_now \cup {d}
  BY <1>1, <1>4, <1>6 DEF closed_now, ClawedBack, Exists
<1>9. d \notin closed_now
  BY <1>1 DEF closed_now, ClawedBack, Open
<1>10. receiver \in Distributor \cup {NoAccount}
  OBVIOUS
<1>11. fund_now' = [e \in Distributor |->
                      (IF e = d THEN 0 ELSE fund_now[e])
                        + (IF e = receiver THEN fund_now[d] ELSE 0)]
  <2>1. ASSUME NEW e \in Distributor
        PROVE  FundNow(e)' = (IF e = d THEN 0 ELSE FundNow(e))
                               + (IF e = receiver THEN FundNow(d) ELSE 0)
    <3>1. /\ FundNow(d) = balance[d]
          /\ e \in Account
          /\ balance[d] \in Int
          /\ balance[e] \in Int
          /\ e # NoAccount
      BY <1>1, <1>2, NoTermsAssumption DEF FundNow, Account
    <3>2. balance'[e] = balance[e] - (IF e = d THEN balance[d] ELSE 0)
                                   + (IF e = to THEN balance[d] ELSE 0)
      BY <1>2, <3>1
    <3>3. CASE Exists(e)
      <4>1. FundNow(e) = balance[e] /\ FundNow(e)' = balance'[e]
        BY <1>6, <3>3 DEF FundNow
      <4>2. e = receiver <=> e = to
        BY <3>1, <3>3
      <4> HIDE DEF to, receiver
      <4>3. CASE e = d
        BY <3>1, <3>2, <4>1, <4>2, <4>3
      <4>4. CASE e # d
        BY <3>1, <3>2, <4>1, <4>2, <4>4
      <4>5. QED
        BY <4>3, <4>4
    <3>4. CASE ~Exists(e)
      <4>1. FundNow(e) = 0 /\ FundNow(e)' = 0 /\ e # d
        BY <1>1, <1>6, <3>4 DEF FundNow
      <4>2. e # receiver
        BY <3>1, <3>4
      <4> HIDE DEF to, receiver
      <4>3. QED
        BY <4>1, <4>2
    <3>5. QED
      BY <3>3, <3>4
  <2> HIDE DEF receiver
  <2>2. QED
    BY <2>1 DEF fund_now
<1>12. /\ terms_now[d] # NoAccount
       /\ clock >= terms_now[d].until
  BY <1>1, <1>2, TermsAreTerms DEF terms_now
<1> HIDE DEF to, receiver
<1>13. QED
  BY <1>6, <1>7, <1>8, <1>9, <1>10, <1>11, <1>12
  DEF Grants!Close, Grants!IsOpen, terms_now, granted_now, paid_now, fund_now,
      closed_now, TermsNow, GrantedNow, FundNow, PaidBy

\* Tokens sent to the vault of a distributor are deposited; other transfers
\* between accounts are none of VestingGrants' business.
LEMMA TransferDeposits ==
    ASSUME RefinementInv, [Next]_vars, NEW from \in TokenAccount,
           NEW to \in Account, NEW amount \in U64,
           TransferTokens(from, to, amount)
    PROVE  \/ to \in Distributor /\ Grants!Deposit(to)
           \/ mapped' = mapped
<1>1. TypeOK
  BY DEF RefinementInv, LedgerInv, VestingInv
<1>2. /\ terms_now' = terms_now
      /\ closed_now' = closed_now
      /\ CreatesNone
      /\ clock' = clock
  BY <1>1, DistributorsStay DEF TransferTokens
<1>3. granted_now' = granted_now /\ paid_now' = paid_now
  BY ClaimsStay DEF TransferTokens
<1>4. amount \in Int /\ amount >= 0
  BY AmountsAreNatural
<1>5. ASSUME NEW e \in Distributor
      PROVE  /\ balance[e] \in Int
             /\ balance'[e] = balance[e] + (IF e = to THEN amount ELSE 0)
  <2>1. e # from /\ e \in Account /\ balance[e] \in Int
    BY <1>1, AccountAssumption, AmountsAreNatural DEF TypeOK, Account
  <2>2. balance'[e] = balance[e] - 0 + (IF e = to THEN amount ELSE 0)
    BY <2>1 DEF TransferTokens, Transferred
  <2>3. QED
    BY <1>4, <2>1, <2>2
<1>6. CASE to \in Distributor /\ Exists(to) /\ amount > 0
  <2>1. \A e \in Distributor : e # to => FundNow(e)' = FundNow(e)
    BY <1>1, <1>2, <1>4, <1>5, TermsStay DEF FundNow
  <2>2. FundNow(to)' > FundNow(to)
    BY <1>1, <1>2, <1>4, <1>5, <1>6, TermsStay DEF FundNow
  <2>3. /\ fund_now'[to] > fund_now[to]
        /\ fund_now' = [fund_now EXCEPT ![to] = fund_now'[to]]
    BY <1>6, <2>1, <2>2 DEF fund_now
  <2>4. terms_now[to] # NoAccount
    BY <1>1, <1>6, TermsAreTerms DEF terms_now
  <2>5. Grants!Deposit(to)
    BY <1>2, <1>3, <2>3, <2>4
    DEF Grants!Deposit, terms_now, granted_now, paid_now, fund_now,
        closed_now, TermsNow, GrantedNow, FundNow, PaidBy
  <2>6. QED
    BY <1>6, <2>5
<1>7. CASE ~(to \in Distributor /\ Exists(to) /\ amount > 0)
  <2>1. \A e \in Distributor : Exists(e) => balance'[e] = balance[e]
    BY <1>4, <1>5, <1>7
  <2>2. fund_now' = fund_now
    BY <1>1, <1>2, <2>1, FundsStay
  <2>3. QED
    BY <1>2, <1>3, <2>2 DEF mapped
<1>8. QED
  BY <1>6, <1>7

\* Steps that VestingGrants does not see.
LEMMA OtherStepsStutter ==
    ASSUME RefinementInv, [Next]_vars,
           \/ \E a \in Account : OpenAccount(a)
           \/ \E a \in TokenAccount : CloseAccount(a)
           \/ \E d \in Distributor, w \in Wallet, a \in Account :
                 SetClawbackReceiver(d, w, a)
           \/ \E d \in Distributor, w, new \in Wallet : SetAdmin(d, w, new)
           \/ UNCHANGED vars
    PROVE  mapped' = mapped
<1>1. TypeOK
  BY DEF RefinementInv, LedgerInv, VestingInv
<1>2. /\ clock' = clock
      /\ claim_status' = claim_status
      /\ balance' = balance
  BY DEF OpenAccount, CloseAccount, SetClawbackReceiver, SetAdmin, vars
<1>3. \/ distributor' = distributor
      \/ \E d \in Distributor :
            /\ Exists(d)
            /\ distributor'[d].clawed_back = distributor[d].clawed_back
            /\ \A e \in Distributor : e # d => distributor'[e] = distributor[e]
  <2>1. CASE \/ \E a \in Account : OpenAccount(a)
             \/ \E a \in TokenAccount : CloseAccount(a)
             \/ UNCHANGED vars
    BY <2>1 DEF OpenAccount, CloseAccount, vars
  <2>2. CASE \E d \in Distributor, w \in Wallet, a \in Account :
                SetClawbackReceiver(d, w, a)
    BY <1>1, <2>2, ExistingAccounts
    DEF SetClawbackReceiver, TypeOK, DistributorAccount
  <2>3. CASE \E d \in Distributor, w, new \in Wallet : SetAdmin(d, w, new)
    BY <1>1, <2>3, ExistingAccounts DEF SetAdmin, TypeOK, DistributorAccount
  <2>4. QED
    BY <2>1, <2>2, <2>3
<1>4. terms_now' = terms_now /\ closed_now' = closed_now /\ CreatesNone
  <2>1. CASE distributor' = distributor
    BY <1>1, <2>1, DistributorsStay
  <2>2. ASSUME NEW d \in Distributor, Exists(d),
               distributor'[d].clawed_back = distributor[d].clawed_back,
               \A e \in Distributor : e # d => distributor'[e] = distributor[e]
        PROVE  terms_now' = terms_now /\ closed_now' = closed_now /\ CreatesNone
    <3>1. Open(d) => ~distributor'[d].clawed_back
      BY <2>2 DEF Open
    <3>2. QED
      BY <1>1, <2>2, <3>1, OthersStay
  <2>3. QED
    BY <1>3, <2>1, <2>2
<1>5. fund_now' = fund_now
  BY <1>1, <1>2, <1>4, FundsStay
<1>6. granted_now' = granted_now /\ paid_now' = paid_now
  BY <1>2, ClaimsStay
<1>7. QED
  BY <1>2, <1>4, <1>5, <1>6 DEF mapped

------------------------------------------------------------------------------
(* The refinement.                                                         *)

LEMMA InitRefinement == Init => RefinementInv
<1> SUFFICES ASSUME Init PROVE RefinementInv
  OBVIOUS
<1>1. LedgerInv
  BY InitLedger
<1>2. ASSUME NEW d \in Distributor PROVE ~Exists(d) /\ balance[d] = 0
  <2>1. d \in Account /\ d \notin TokenAccount
    BY AccountAssumption DEF Account
  <2>2. QED
    BY <2>1 DEF Init, Exists
<1>3. QED
  BY <1>1, <1>2 DEF RefinementInv, VaultsStartEmpty

\* A vault is credited only once it has been created.
LEMMA StepVaults ==
    ASSUME RefinementInv, [Next]_vars PROVE VaultsStartEmpty'
<1>1. TypeOK /\ VaultsStartEmpty
  BY DEF RefinementInv, LedgerInv, VestingInv
<1>2. ASSUME NEW d \in Distributor
      PROVE  /\ IsTokenAccount(d) => IsTokenAccount(d)'
             /\ Exists(d)' /\ ~Exists(d) => IsTokenAccount(d)'
             /\ IsTokenAccount(d)' \/ balance'[d] = balance[d]
  <2>1. d \in Account /\ d \notin TokenAccount /\ balance[d] \in Int
    BY <1>1, AccountAssumption, AmountsAreNatural DEF Account, TypeOK
  <2>2. Exists(d)' /\ ~Exists(d) => IsTokenAccount(d)'
    <3>1. SUFFICES ASSUME Exists(d)', ~Exists(d) PROVE IsTokenAccount(d)'
      OBVIOUS
    <3>2. QED
      BY <1>1, <3>1, OnlyNewDistributorCreates
      DEF NewDistributor, IsTokenAccount
  <2>3. IsTokenAccount(d) => IsTokenAccount(d)'
    <3>1. CASE \E a \in TokenAccount : CloseAccount(a)
      BY <2>1, <3>1 DEF CloseAccount, IsTokenAccount
    <3>2. CASE ~\E a \in TokenAccount : CloseAccount(a)
      <4>1. open_accounts \subseteq open_accounts'
        <5>1. \A e, w, to, u, l : NewClaim(e, w, to, u, l) =>
                  open_accounts \subseteq open_accounts'
          BY DEF NewClaim
        <5>2. \A e, w, to : ClaimLocked(e, w, to) =>
                  open_accounts' = open_accounts
          BY DEF ClaimLocked
        <5>3. \A e, w, a, args : NewDistributor(e, w, a, args) =>
                  open_accounts \subseteq open_accounts'
          BY DEF NewDistributor
        <5>4. \A e, w, a :
                  SetClawbackReceiver(e, w, a) \/ SetAdmin(e, w, a) \/ Clawback(e)
                    => open_accounts' = open_accounts
          BY DEF SetClawbackReceiver, SetAdmin, Clawback
        <5>5. \A from, to, amount :
                  TransferTokens(from, to, amount) \/ Tick \/ UNCHANGED vars
                    => open_accounts' = open_accounts
          BY DEF TransferTokens, Tick, vars
        <5>6. \A a : OpenAccount(a) => open_accounts \subseteq open_accounts'
          BY DEF OpenAccount
        <5>7. QED
          BY <3>2, <5>1, <5>2, <5>3, <5>4, <5>5, <5>6, NextCases
      <4>2. QED
        BY <4>1 DEF IsTokenAccount
    <3>3. QED
      BY <3>1, <3>2
  <2>4. ASSUME ~IsTokenAccount(d)' PROVE balance'[d] = balance[d]
    <3>1. ~IsTokenAccount(d) /\ ~Exists(d)
      BY <1>1, <2>3, <2>4 DEF VaultsStartEmpty
    <3>2. ASSUME NEW from \in Account, NEW to \in Account, NEW amount \in U64,
                 from # d, to # d,
                 balance' = Transferred(from, to, amount)
          PROVE  balance'[d] = balance[d]
      <4>1. balance'[d] = balance[d] - 0 + 0
        BY <2>1, <3>2 DEF Transferred
      <4>2. QED
        BY <2>1, <4>1
    <3>3. ASSUME NEW from \in TokenAccount, NEW to \in Account,
                 NEW amount \in U64, TransferTokens(from, to, amount)
          PROVE  balance'[d] = balance[d]
      BY <2>1, <3>1, <3>2, <3>3 DEF TransferTokens, Account
    <3>4. ASSUME NEW e \in Distributor, NEW w \in Wallet,
                 NEW to \in TokenAccount, NEW u \in U64, NEW l \in U64,
                 NewClaim(e, w, to, u, l)
          PROVE  balance'[d] = balance[d]
      BY <2>1, <3>1, <3>2, <3>4 DEF NewClaim, Open, Account
    <3>5. ASSUME NEW e \in Distributor, NEW w \in Wallet,
                 NEW to \in TokenAccount, ClaimLocked(e, w, to)
          PROVE  balance'[d] = balance[d]
      <4>1. Withdrawable(e, w) \in U64
        BY <1>1, <3>5, ClaimLockedAmount
      <4>2. QED
        BY <2>1, <3>1, <3>2, <3>5, <4>1 DEF ClaimLocked, Open, Account
    <3>6. ASSUME NEW e \in Distributor, Clawback(e)
          PROVE  balance'[d] = balance[d]
      <4>1. /\ distributor[e].clawback_receiver \in Account
            /\ e \in Account
            /\ balance[e] \in U64
        BY <1>1, <3>6, ExistingAccounts
        DEF Clawback, Open, DistributorAccount, Account, TypeOK
      <4>2. QED
        BY <2>1, <3>1, <3>2, <3>6, <4>1 DEF Clawback, Open
    <3>7. QED
      BY <3>3, <3>4, <3>5, <3>6, NextCases
      DEF Tick, OpenAccount, CloseAccount, NewDistributor,
          SetClawbackReceiver, SetAdmin, vars
  <2>5. QED
    BY <2>2, <2>3, <2>4
<1>3. QED
  BY <1>1, <1>2 DEF VaultsStartEmpty

LEMMA RefinementInvariant == Spec => []RefinementInv
<1>1. Init => RefinementInv
  BY InitRefinement
<1>2. RefinementInv /\ [Next]_vars => RefinementInv'
  <2> SUFFICES ASSUME RefinementInv, [Next]_vars PROVE RefinementInv'
    OBVIOUS
  <2>1. LedgerInv'
    BY StepVesting, StepLedger, StepCaps, StepListed
    DEF RefinementInv, LedgerInv
  <2>2. VaultsStartEmpty'
    BY StepVaults
  <2>3. QED
    BY <2>1, <2>2 DEF RefinementInv
<1>3. QED
  BY <1>1, <1>2, PTL DEF Spec

LEMMA InitPromises == Init => Grants!Init
<1> SUFFICES ASSUME Init PROVE Grants!Init
  OBVIOUS
<1>1. clock \in Nat
  BY WordsAreIntegers, WidthAssumption DEF Init
<1>2. \A d \in Distributor : /\ ~Exists(d)
                             /\ \A w \in Wallet : ~HasClaim(d, w)
  BY DEF Init, Exists, HasClaim
<1>3. \A d \in Distributor : /\ TermsNow(d) = NoAccount
                             /\ GrantedNow(d) = {}
                             /\ PaidBy(d) = [w \in Wallet |-> 0]
                             /\ FundNow(d) = 0
                             /\ ~ClawedBack(d)
  BY <1>2 DEF TermsNow, GrantedNow, ClaimsOn, PaidBy, Paid, FundNow, ClawedBack
<1>4. /\ terms_now = [d \in Distributor |-> NoAccount]
      /\ granted_now = [d \in Distributor |-> {}]
      /\ paid_now = [d \in Distributor |-> [w \in Wallet |-> 0]]
      /\ fund_now = [d \in Distributor |-> 0]
      /\ closed_now = {}
  BY <1>3 DEF terms_now, granted_now, paid_now, fund_now, closed_now
<1>5. QED
  BY <1>1, <1>4
  DEF Grants!Init, terms_now, granted_now, paid_now, fund_now, closed_now,
      TermsNow, GrantedNow, FundNow, PaidBy

LEMMA StepPromises ==
    ASSUME RefinementInv, [Next]_vars PROVE [Grants!Next]_(Grants!vars)
<1>1. CASE Tick
  <2>1. TypeOK
    BY DEF RefinementInv, LedgerInv, VestingInv
  <2>2. QED
    BY <1>1, <2>1, TickAdvances DEF Grants!Next
<1>2. ASSUME NEW from \in TokenAccount, NEW to \in Account, NEW amount \in U64,
             TransferTokens(from, to, amount)
      PROVE  [Grants!Next]_(Grants!vars)
  <2>1. CASE to \in Distributor /\ Grants!Deposit(to)
    BY <2>1 DEF Grants!Next
  <2>2. CASE mapped' = mapped
    BY <2>2, MappedIsMapping
  <2>3. QED
    BY <1>2, <2>1, <2>2, TransferDeposits
<1>3. ASSUME NEW d \in Distributor, NEW admin \in Wallet, NEW a \in Account,
             NEW args \in NewDistributorArgs, NewDistributor(d, admin, a, args)
      PROVE  Grants!Next
  BY <1>3, NewDistributorOpens DEF Grants!Next
<1>4. ASSUME NEW d \in Distributor, NEW w \in Wallet, NEW to \in TokenAccount,
             NEW u \in U64, NEW l \in U64, NewClaim(d, w, to, u, l)
      PROVE  Grants!Next
  <2>1. PICK entry : /\ TermsNow(d) # NoAccount
                     /\ entry \in TermsNow(d).list
                     /\ Grants!Grant(d, entry)
    BY <1>4, NewClaimGrants
  <2>2. QED
    BY <2>1 DEF Grants!Next, TermsNow
<1>5. ASSUME NEW d \in Distributor, NEW w \in Wallet, NEW to \in TokenAccount,
             ClaimLocked(d, w, to)
      PROVE  Grants!Next
  BY <1>5, ClaimLockedPaysVested DEF Grants!Next, GrantedNow
<1>6. ASSUME NEW d \in Distributor, Clawback(d) PROVE Grants!Next
  BY <1>6, ClawbackCloses DEF Grants!Next
<1>7. CASE \/ \E a \in Account : OpenAccount(a)
           \/ \E a \in TokenAccount : CloseAccount(a)
           \/ \E d \in Distributor, w \in Wallet, a \in Account :
                 SetClawbackReceiver(d, w, a)
           \/ \E d \in Distributor, w, new \in Wallet : SetAdmin(d, w, new)
           \/ UNCHANGED vars
  BY <1>7, OtherStepsStutter, MappedIsMapping
<1>8. QED
  BY <1>1, <1>2, <1>3, <1>4, <1>5, <1>6, <1>7, NextCases

\* Whatever claimants, admins and strangers do, the accounts of the program
\* only ever show what VestingGrants allows: entries granted once, payments of
\* exactly the vested share, and no closing before its time.
THEOREM PromiseKept == Spec => KeepsThePromise
<1>1. Init => Grants!Init
  BY InitPromises
<1>2. RefinementInv /\ [Next]_vars => [Grants!Next]_(Grants!vars)
  BY StepPromises
<1>3. QED
  BY <1>1, <1>2, RefinementInvariant, PTL DEF Spec, KeepsThePromise, Grants!Spec

==============================================================================
