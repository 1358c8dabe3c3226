----------------------------- MODULE VestingGrants -----------------------------
(***************************************************************************)
(* What airdrops with vesting promise, without a chain to keep the promise *)
(* on: no accounts, keys, counters, caps or machine words.                 *)
(*                                                                         *)
(* An airdrop is opened on a list of grants and a schedule.  Each grant is *)
(* made once, pays its unlocked part at once and the rest as it vests, out *)
(* of what has been put into the airdrop.  Everything stays claimable for  *)
(* a while after it has vested; then the airdrop may be closed.            *)
(***************************************************************************)
EXTENDS Integers

CONSTANTS
    Wallet,     \* who may be on a list
    Airdrop,    \* the airdrops
    Terms,      \* the lists and schedules airdrops may be opened on
    Delay,      \* how long everything stays claimable
    None        \* the terms of an airdrop that has not been opened

VARIABLES
    now,        \* the time
    terms,      \* terms[d]: what d was opened on
    granted,    \* granted[d]: the entries of the list granted so far
    paid,       \* paid[d][w]: what d has paid to w
    fund,       \* fund[d]: what d can still pay
    closed      \* the airdrops that have been closed

vars == <<now, terms, granted, paid, fund, closed>>

Init ==
    /\ now \in Nat
    /\ terms = [d \in Airdrop |-> None]
    /\ granted = [d \in Airdrop |-> {}]
    /\ paid = [d \in Airdrop |-> [w \in Wallet |-> 0]]
    /\ fund = [d \in Airdrop |-> 0]
    /\ closed = {}

------------------------------------------------------------------------------
IsOpen(d) == terms[d] # None /\ d \notin closed

\* What an entry has been worth to its claimant by now: the share of the locked
\* part is that of the time elapsed, rounded down.
Due(d, entry) ==
    LET start == terms[d].start
        end   == terms[d].end
    IN  entry.amount_unlocked +
          IF now < start THEN 0
          ELSE IF now >= end THEN entry.amount_locked
          ELSE (entry.amount_locked * (now - start)) \div (end - start)

Advance ==
    /\ now' > now
    /\ UNCHANGED <<terms, granted, paid, fund, closed>>

OpenAirdrop(d, t) ==
    /\ terms[d] = None
    /\ now < t.start /\ t.start < t.end /\ t.end + Delay <= t.until
    /\ terms' = [terms EXCEPT ![d] = t]
    /\ UNCHANGED <<now, granted, paid, fund, closed>>

Deposit(d) ==
    /\ terms[d] # None
    /\ fund'[d] > fund[d]
    /\ fund' = [fund EXCEPT ![d] = fund'[d]]
    /\ UNCHANGED <<now, terms, granted, paid, closed>>

\* w has been paid so much by d: the difference leaves the fund.
PayUpTo(d, w, total) ==
    /\ total - paid[d][w] <= fund[d]
    /\ paid' = [paid EXCEPT ![d][w] = total]
    /\ fund' = [fund EXCEPT ![d] = @ - (total - paid[d][w])]
    /\ UNCHANGED <<now, terms, closed>>

Grant(d, entry) ==
    /\ IsOpen(d)
    /\ entry \in terms[d].list
    /\ \A other \in granted[d] : other.claimant # entry.claimant
    /\ granted' = [granted EXCEPT ![d] = @ \cup {entry}]
    /\ PayUpTo(d, entry.claimant, entry.amount_unlocked)

PayVested(d, entry) ==
    /\ IsOpen(d)
    /\ entry \in granted[d]
    /\ Due(d, entry) > paid[d][entry.claimant]
    /\ PayUpTo(d, entry.claimant, Due(d, entry))
    /\ UNCHANGED granted

\* What is left goes to somebody, or to an airdrop.
Close(d) ==
    /\ IsOpen(d)
    /\ now >= terms[d].until
    /\ closed' = closed \cup {d}
    /\ \E receiver \in Airdrop \cup {None} :
          fund' = [e \in Airdrop |->
                     (IF e = d THEN 0 ELSE fund[e])
                       + (IF e = receiver THEN fund[d] ELSE 0)]
    /\ UNCHANGED <<now, terms, granted, paid>>

Next ==
    \/ Advance
    \/ \E d \in Airdrop :
        \/ \E t \in Terms : OpenAirdrop(d, t)
        \/ Deposit(d)
        \/ terms[d] # None /\ \E entry \in terms[d].list : Grant(d, entry)
        \/ \E entry \in granted[d] : PayVested(d, entry)
        \/ Close(d)

Spec == Init /\ [][Next]_vars

==============================================================================
