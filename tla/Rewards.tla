------------------------------ MODULE Rewards ------------------------------
(* Balance rewards: the accumulator in account roots (the loop at the end  *)
(* of Transactor::operator()), ClaimReward.cpp, the reward hook of the     *)
(* genesis account (hook/genesis/reward.c) and GenesisMint.cpp, with       *)
(* fix240819, fix240911 and fixXahauV1.  Of the fees only that of a weak   *)
(* hook execution is modelled, which is taken after the loop; the others   *)
(* are settled with the transaction.  XFL numbers are exact until the hook *)
(* takes their integer part.  A ledger takes one tick of time.             *)
EXTENDS Integers, FiniteSets, Functions

CONSTANTS
    Account,
    Claimant,       \* the accounts that send ClaimReward
    Member,         \* the accounts in the seats of the governance table
    L1Seats,        \* 20
    Unit,           \* the drops that count as one in the accumulator (1000000)
    Width,          \* an accumulator is an unsigned number below this (2^64)
    RateUnit,       \* a reward rate is a fraction with this denominator
    Config,         \* the rates (RR) and delays (RD) that governance may set
    MaxMint,        \* the most that one entry of a GenesisMint may hold
    MintWindow,     \* a GenesisMint lives for so many ledgers (5)
    Reserve,        \* of an account that owns nothing
    Amount,         \* what a payment may move
    Collector,      \* the accounts with hooks that let weak executions charge them
    HookFee,        \* what such an execution may cost
    Drops,          \* the initial balances, of the accounts that exist
    MaxLag,         \* how far the validated ledger may be behind the parent
    MaxSeq          \* bound on the ledger sequence

ASSUME RewardAssumption ==
    /\ IsFiniteSet(Account) /\ Member \subseteq Account /\ Claimant \subseteq Account
    /\ {L1Seats, Unit, Width, RateUnit} \subseteq Nat \ {0}
    /\ Config \subseteq [rate : Nat, delay : Nat]
    /\ {MaxMint, MintWindow, Reserve, MaxLag, MaxSeq} \subseteq Nat
    /\ Width >= 6
    /\ Amount \subseteq Nat \ {0} /\ HookFee \subseteq Nat \ {0}
    /\ Collector \subseteq Account
    /\ DOMAIN Drops \subseteq Account
    /\ \A a \in DOMAIN Drops : Drops[a] \in Nat

VARIABLES
    exists,     \* the accounts that have an AccountRoot
    bal,        \* its Balance, 0 for an account without one
    opted,      \* the accounts with reward fields
    reward,     \* these fields
    supply,     \* the drops in the ledger header
    seq,        \* the ledger being built
    config,     \* the rate and the delay in the hook state
    mints       \* GenesisMints emitted and neither applied nor expired

vars == <<exists, bal, opted, reward, supply, seq, config, mints>>

Units(drops) == drops \div Unit

\* RewardLgrFirst, RewardLgrLast, RewardAccumulator, RewardTime.  The other fields
\* are history: the units held at the end of each ledger since first, added up; those
\* of them that weak fees took from the credit; the most units held since first, and
\* whether at least one was held all the time.
NoReward == [first |-> 0, last |-> 0, accum |-> 0, time |-> 0,
             earned |-> 0, forfeited |-> 0, peak |-> 0, funded |-> FALSE]

-----------------------------------------------------------------------------
\* The loop over the account roots whose balance a transaction has changed, for
\* the fields f and the balance before it (PreviousFields).
Accumulated(f, prev) ==
    LET sum == (f.accum + Units(prev) * (seq - f.last)) % Width
    IN  IF Units(prev) = 0 \/ seq = f.last \/ sum < f.accum THEN f
        ELSE [f EXCEPT !.accum = sum, !.last = seq]

Observed(f, drops) ==
    [f EXCEPT !.peak = IF Units(drops) > @ THEN Units(drops) ELSE @,
              !.funded = @ /\ Units(drops) > 0]

\* Mutant of Settled: the balance after the transaction, as before fix240819.
SettledFinal(a, b) == Observed(Accumulated(reward[a], b[a]), b[a])

Settled(a, b) == Observed(Accumulated(reward[a], bal[a]), b[a])

\* A transaction leaves the balances b.
Balances(b) ==
    /\ bal' = b
    /\ reward' = [a \in Account |->
                     IF a \in opted' /\ b[a] # bal[a] THEN Settled(a, b)
                     ELSE IF a \in opted' THEN reward[a] ELSE NoReward]

CanPay(a, amt) == a \in exists /\ bal[a] >= amt + Reserve

Payment(a, dst, amt) ==
    /\ CanPay(a, amt) /\ a # dst
    /\ dst \in exists \/ amt >= Reserve
    /\ exists' = exists \cup {dst}
    /\ opted' = opted
    /\ Balances([bal EXCEPT ![a] = @ - amt, ![dst] = @ + amt])
    /\ UNCHANGED <<supply, seq, config, mints>>

DeleteAccount(a, dst) ==
    /\ {a, dst} \subseteq exists /\ a # dst
    /\ exists' = exists \ {a}
    /\ opted' = opted \ {a}
    /\ Balances([bal EXCEPT ![a] = 0, ![dst] = @ + bal[a]])
    /\ UNCHANGED <<supply, seq, config, mints>>

\* Without the final loop, the ledgers since last count with the balance that is left.
Charged(f, before, after) ==
    Observed([f EXCEPT !.forfeited = @ + (Units(before) - Units(after)) * (seq - f.last)], after)

\* doTSH for a weak stakeholder, after the loop over the balances: the fee is taken
\* and destroyed, and nothing is settled.
WeakFee(a, fee) ==
    /\ CanPay(a, fee)
    /\ bal' = [bal EXCEPT ![a] = @ - fee]
    /\ reward' = [reward EXCEPT ![a] = IF a \in opted THEN Charged(@, bal[a], bal[a] - fee) ELSE @]
    /\ supply' = supply - fee
    /\ UNCHANGED <<exists, opted, seq, config, mints>>

-----------------------------------------------------------------------------
\* Mutant of Restarted: the accumulator is kept.
RestartedOver(a, lag) ==
    [first |-> seq, last |-> seq, accum |-> reward[a].accum, time |-> seq - 2 - lag,
     earned |-> 0, forfeited |-> 0,
     peak |-> Units(bal[a]), funded |-> Units(bal[a]) > 0]

\* ClaimReward::doApply.  The time is the parent close time of the ledger that the
\* node has validated last, lag ledgers behind the parent of this one.
Restarted(a, lag) ==
    [first |-> seq, last |-> seq, accum |-> 0, time |-> seq - 2 - lag,
     earned |-> 0, forfeited |-> 0,
     peak |-> Units(bal[a]), funded |-> Units(bal[a]) > 0]

Restart(a, lag) ==
    /\ opted' = opted \cup {a}
    /\ reward' = [reward EXCEPT ![a] = Restarted(a, lag)]
    /\ UNCHANGED <<exists, bal, supply, seq, config>>

OptOut(a) ==
    /\ a \in opted
    /\ opted' = opted \ {a}
    /\ reward' = [reward EXCEPT ![a] = NoReward]
    /\ UNCHANGED <<exists, bal, supply, seq, config, mints>>

\* An issuer without the reward hook: only the counters are reset.
ClaimElsewhere(a, lag) ==
    /\ a \in exists
    /\ Restart(a, lag)
    /\ mints' = mints

\* The reward hook runs before doApply.
Enabled == config.rate > 0 /\ config.delay > 0 /\ config.rate <= RateUnit

ClaimSetup(a, lag) ==
    /\ a \in exists \ opted
    /\ Enabled
    /\ Restart(a, lag)
    /\ mints' = mints

\* slot() of a number with the top bit set is an error code.
Slot(n) == IF n < Width \div 2 THEN n ELSE -3

\* The final block is added by the hook.
Total(a) == Slot(reward[a].accum) + Units(bal[a]) * (seq - reward[a].last)

\* float_int is asked for the absolute value.
Magnitude(n) == IF n < 0 THEN -n ELSE n

\* Mutant of RewardDrops: per ledger since the last change of the balance.
RewardDropsLast(a) ==
    (config.rate * Magnitude(Total(a)) * Unit) \div (RateUnit * (1 + seq - reward[a].last))

RewardDrops(a) ==
    (config.rate * Magnitude(Total(a)) * Unit) \div (RateUnit * (seq - reward[a].first))

\* An XFL is a positive number for the hook's test unless it is zero, also if it stands
\* for a negative one.  The mint pays the claimant and a share to each member in active:
\* those in the UNLReport, or any, as the hook's array of seats is not initialised.
ClaimPaid(a, lag, active) ==
    /\ a \in opted
    /\ Enabled
    /\ (seq - 1) - reward[a].time >= config.delay
    /\ seq > reward[a].first
    /\ Total(a) # 0
    /\ RewardDrops(a) <= MaxMint
    /\ mints' = mints \cup {[by |-> a, drops |-> RewardDrops(a), active |-> active,
                             first |-> seq + 1, last |-> seq + MintWindow]}
    /\ Restart(a, lag)

-----------------------------------------------------------------------------
\* GenesisMint::doApply: entries for the same account add up; an account that does
\* not exist is created.
Share(m) == m.drops \div L1Seats
Minted(m, a) == (IF a = m.by THEN m.drops ELSE 0) + (IF a \in m.active THEN Share(m) ELSE 0)

\* Mutant of DropsAdded: only the claimant's entry is counted.
DropsAddedFirst(m) == m.drops

DropsAdded(m) == m.drops + Cardinality(m.active) * Share(m)

GenesisMint(m) ==
    /\ m.first <= seq /\ seq <= m.last
    /\ exists' = exists \cup {m.by} \cup m.active
    /\ opted' = opted
    /\ Balances([a \in Account |-> bal[a] + Minted(m, a)])
    /\ supply' = supply + DropsAdded(m)
    /\ mints' = mints \ {m}
    /\ UNCHANGED <<seq, config>>

\* The emitted transaction was in no ledger in time.
MintExpires(m) ==
    /\ seq > m.last
    /\ mints' = mints \ {m}
    /\ UNCHANGED <<exists, bal, opted, reward, supply, seq, config>>

\* Governance writes the hook state.
SetConfig(c) ==
    /\ config' = c
    /\ UNCHANGED <<exists, bal, opted, reward, supply, seq, mints>>

LedgerClose ==
    /\ seq < MaxSeq
    /\ seq' = seq + 1
    /\ reward' = [a \in Account |->
                     IF a \in opted THEN [reward[a] EXCEPT !.earned = @ + Units(bal[a])]
                     ELSE reward[a]]
    /\ UNCHANGED <<exists, bal, opted, supply, config, mints>>

-----------------------------------------------------------------------------
Init ==
    /\ exists = DOMAIN Drops
    /\ bal = [a \in Account |-> IF a \in DOMAIN Drops THEN Drops[a] ELSE 0]
    /\ opted = {}
    /\ reward = [a \in Account |-> NoReward]
    /\ supply = SumFunction(bal)
    /\ seq = MaxLag + 2
    /\ config \in Config
    /\ mints = {}

Next ==
    \/ \E a, dst \in Account, amt \in Amount : Payment(a, dst, amt)
    \/ \E a, dst \in Account : DeleteAccount(a, dst)
    \/ \E a \in Collector, fee \in HookFee : WeakFee(a, fee)
    \/ \E a \in Claimant, lag \in 0 .. MaxLag : ClaimElsewhere(a, lag)
    \/ \E a \in Claimant, lag \in 0 .. MaxLag : ClaimSetup(a, lag)
    \/ \E a \in Claimant, lag \in 0 .. MaxLag, active \in SUBSET Member : ClaimPaid(a, lag, active)
    \/ \E a \in Claimant : OptOut(a)
    \/ \E m \in mints : GenesisMint(m)
    \/ \E m \in mints : MintExpires(m)
    \/ \E c \in Config : SetConfig(c)
    \/ LedgerClose

Spec == Init /\ [][Next]_vars

-----------------------------------------------------------------------------
Reward == [first : Nat, last : Nat, accum : Nat, time : Nat, earned : Nat,
           forfeited : Nat, peak : Nat, funded : BOOLEAN]
Mint == [by : Account, drops : Nat, active : SUBSET Member, first : Nat, last : Nat]

TypeOK ==
    /\ exists \subseteq Account /\ opted \subseteq exists
    /\ bal \in [Account -> Nat]
    /\ reward \in [Account -> Reward]
    /\ seq \in Nat
    /\ config \in Config
    /\ mints \subseteq Mint

\* The header counts exactly the drops in account roots, through mints, deletions,
\* accounts that a mint creates and weak fees (GenesisMint::doApply, destroyXRP).
SupplyExact == supply = SumFunction(bal)

\* What a claim would be paid for now, in unit-ledgers.
Credit(a) == reward[a].accum + Units(bal[a]) * (seq - reward[a].last)

\* The most that the account could have held so far, all the time.
Ceiling(a) == reward[a].peak * (seq - reward[a].first)

\* However the balance changes, within a ledger or over many, an account is never
\* credited for more than the most it held, over the ledgers since its counters
\* were reset, also if the accumulator wraps around.
CreditBounded == \A a \in opted : reward[a].accum + reward[a].peak * (seq - reward[a].last) <= Ceiling(a)

\* Unless the accumulator can have wrapped, a holding is lost only to the fees of weak
\* hook executions: every unit held at the end of a ledger is credited, but for the
\* units that such a fee took, in the ledgers since the balance was last settled; and
\* nothing else is credited while at least one unit was held all the time.
HoldingCredited ==
    \A a \in opted : Ceiling(a) < Width =>
        /\ Credit(a) + reward[a].forfeited >= reward[a].earned
        /\ reward[a].funded => Credit(a) + reward[a].forfeited = reward[a].earned

\* A claim is paid at most the rate on the most that the account held since its
\* last claim, whatever was reset, opted out, deleted or minted meanwhile.
RewardBounded ==
    [][\A m \in mints' \ mints :
          m.drops * RateUnit <= config.rate * reward[m.by].peak * Unit]_vars
============================================================================
