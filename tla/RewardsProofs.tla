--------------------------- MODULE RewardsProofs ---------------------------
(* What an accumulator can hold and what the header counts, for any        *)
(* accounts, amounts and widths.                                           *)
EXTENDS Rewards, FiniteSetTheorems, WellFoundedInduction, TLAPS

\* Facts about products, remainders and quotients of natural numbers.
LEMMA ProductMonotone ==
    ASSUME NEW x \in Nat, NEW y \in Nat, NEW d \in Nat, x <= y
    PROVE  x * d <= y * d /\ x * d \in Nat /\ y * d \in Nat
  OBVIOUS

\* A product over a span is the sum of those over its two parts.
LEMMA ProductSplit ==
    ASSUME NEW p \in Nat, NEW s \in Nat, NEW m \in Nat, NEW f \in Nat, f <= m, m <= s
    PROVE  p * (s - f) = p * (s - m) + p * (m - f)
  OBVIOUS

\* One more ledger adds the factor once.
LEMMA ProductNext ==
    ASSUME NEW p \in Nat, NEW s \in Nat, NEW f \in Nat, f <= s
    PROVE  p * ((s + 1) - f) = p * (s - f) + p
  OBVIOUS

\* A remainder is below the divisor and not above the number.
LEMMA Remainder ==
    ASSUME NEW n \in Nat, NEW w \in Nat \ {0}
    PROVE  /\ n % w \in Nat /\ n % w < w /\ n % w <= n
           /\ n < w => n % w = n
  OBVIOUS

\* A balance is a natural number of units.
LEMMA UnitsNat ==
    ASSUME NEW n \in Nat
    PROVE  Units(n) \in Nat
  BY RewardAssumption DEF Units

\* The quotient times the divisor is not above the number.
LEMMA QuotientBound ==
    ASSUME NEW n \in Nat, NEW d \in Nat \ {0}
    PROVE  n \div d \in Nat /\ (n \div d) * d <= n
  OBVIOUS

\* What is known of the fields f of an account that holds u units: CreditBounded and
\* HoldingCredited for one account, with the order of the sequences, and how the
\* history fields stand to the present balance.
Sound(f, u, s) ==
    /\ f.first <= f.last /\ f.last <= s
    /\ u <= f.peak
    /\ f.funded => u > 0
    /\ f.accum <= f.peak * (f.last - f.first)
    /\ f.peak * (s - f.first) < Width =>
          /\ f.accum + u * (s - f.last) + f.forfeited >= f.earned
          /\ f.funded => f.accum + u * (s - f.last) + f.forfeited = f.earned

Inv ==
    /\ TypeOK
    /\ seq >= MaxLag + 2
    /\ \A a \in opted : Sound(reward[a], Units(bal[a]), seq)

\* A change of the balance from prev to b keeps the fields sound: the loop in
\* Transactor::operator() adds what the old balance earned, or nothing.
LEMMA AccumulatedSound ==
    ASSUME seq \in Nat, NEW f \in Reward, NEW prev \in Nat, NEW b \in Nat,
           Sound(f, Units(prev), seq)
    PROVE  /\ Observed(Accumulated(f, prev), b) \in Reward
           /\ Sound(Observed(Accumulated(f, prev), b), Units(b), seq)
<1> DEFINE u == Units(prev)
           v == Units(b)
           d == seq - f.last
           n == f.accum + u * d
           g == Observed(Accumulated(f, prev), b)
<1>1. u \in Nat /\ v \in Nat /\ d \in Nat /\ Width \in Nat \ {0}
  BY UnitsNat, RewardAssumption DEF Sound, Reward
<1>2. u * d <= f.peak * d /\ u * d \in Nat /\ f.peak * d \in Nat
  BY <1>1, ProductMonotone, Zenon DEF Sound, Reward
<1>3. f.peak * (seq - f.first) = f.peak * d + f.peak * (f.last - f.first)
  BY ProductSplit DEF Sound, Reward
<1>4. n \in Nat /\ n <= f.peak * (seq - f.first)
  BY <1>1, <1>2, <1>3 DEF Sound, Reward
<1>5. n % Width \in Nat /\ n % Width <= n /\ (n < Width => n % Width = n)
  BY <1>1, <1>4, Remainder, Zenon
<1> DEFINE peak == IF v > f.peak THEN v ELSE f.peak
           h == Accumulated(f, prev)
<1>a. peak \in Nat /\ peak >= f.peak /\ peak >= v
  BY <1>1 DEF Reward
<1>b. h.peak = f.peak /\ h.funded = f.funded
  BY Zenon DEF Accumulated, Reward
<1>6. g = [h EXCEPT !.peak = peak, !.funded = f.funded /\ v > 0]
  BY <1>b, Zenon DEF Observed
<1> HIDE DEF peak
<1>c. seq - f.first \in Nat
  BY DEF Sound, Reward
<1>7. /\ f.peak * (seq - f.first) <= peak * (seq - f.first)
      /\ f.peak * (seq - f.first) \in Nat /\ peak * (seq - f.first) \in Nat
  BY <1>a, <1>c, ProductMonotone, Zenon DEF Reward
<1>8. f.peak * (f.last - f.first) <= peak * (f.last - f.first)
  BY <1>a, ProductMonotone DEF Sound, Reward
<1>9. CASE u = 0 \/ seq = f.last \/ n % Width < f.accum
  <2>1. g = [f EXCEPT !.peak = peak, !.funded = f.funded /\ v > 0]
    BY <1>6, <1>9, Zenon DEF Accumulated
  <2>2. /\ g \in Reward /\ g.first = f.first /\ g.last = f.last /\ g.accum = f.accum
        /\ g.earned = f.earned /\ g.forfeited = f.forfeited
        /\ g.peak = peak /\ g.funded = (f.funded /\ v > 0)
    BY <2>1, <1>1, <1>a, Zenon DEF Reward
  <2>3. v * d \in Nat
    BY <1>1, ProductMonotone
  <2>4. ASSUME peak * (seq - f.first) < Width
        PROVE  /\ f.accum + v * d + f.forfeited >= f.earned
               /\ f.funded /\ v > 0 => f.accum + v * d + f.forfeited = f.earned
    <3>0. f.peak * (seq - f.first) < Width /\ n < Width
      BY <2>4, <1>1, <1>4, <1>7
    <3>1. n % Width = n
      BY <3>0, <1>5, Zenon
    <3>2. n >= f.accum
      BY <1>2, <1>1 DEF Reward
    <3>3. u = 0 \/ d = 0
      BY <3>1, <3>2, <1>9, <1>1, <1>4 DEF Reward, Sound
    <3>4. /\ f.accum + u * d + f.forfeited >= f.earned
          /\ f.funded => f.accum + u * d + f.forfeited = f.earned
      BY <3>0, Zenon DEF Sound
    <3>5. CASE u = 0
      BY <3>4, <3>5, <2>3, <1>1 DEF Sound, Reward
    <3>6. CASE d = 0
      <4>1. u * d = 0 /\ v * d = 0
        BY <3>6, <1>1
      <4> QED BY <4>1, <3>4, Zenon DEF Reward
    <3> QED BY <3>3, <3>5, <3>6, Zenon
  <2> QED BY <2>2, <2>4, <1>a, <1>8, <1>1 DEF Sound, Reward
<1>10. CASE ~(u = 0 \/ seq = f.last \/ n % Width < f.accum)
  <2>1. g = [f EXCEPT !.accum = n % Width, !.last = seq, !.peak = peak, !.funded = f.funded /\ v > 0]
    BY <1>6, <1>10, Zenon DEF Accumulated, Reward
  <2>2. /\ g \in Reward /\ g.first = f.first /\ g.last = seq /\ g.accum = n % Width
        /\ g.earned = f.earned /\ g.forfeited = f.forfeited
        /\ g.peak = peak /\ g.funded = (f.funded /\ v > 0)
    BY <2>1, <1>1, <1>5, <1>a, Zenon DEF Reward
  <2>3. g.accum <= g.peak * (g.last - g.first)
    BY <2>2, <1>4, <1>5, <1>7 DEF Reward, Sound
  <2>4. v * (seq - g.last) = 0
    BY <2>2, <1>1
  <2>5. ASSUME peak * (seq - f.first) < Width
        PROVE  /\ n + f.forfeited >= f.earned /\ n % Width = n
               /\ f.funded => n + f.forfeited = f.earned
    <3>0. f.peak * (seq - f.first) < Width /\ n < Width
      BY <2>5, <1>1, <1>4, <1>7
    <3>1. n % Width = n
      BY <3>0, <1>5, Zenon
    <3> QED BY <3>0, <3>1, Zenon DEF Sound
  <2> QED BY <2>2, <2>3, <2>4, <2>5, <1>a, <1>1 DEF Sound, Reward
<1> QED BY <1>9, <1>10, Zenon

\* Units are a monotone function of drops.
LEMMA UnitsMonotone ==
    ASSUME NEW m \in Nat, NEW n \in Nat, m <= n
    PROVE  Units(m) <= Units(n)
<1>1. \A w \in Nat \ {0} : m \div w <= n \div w
  BY SMTT(30)
<1> QED
  BY <1>1, RewardAssumption, Zenon DEF Units

\* The fee of a weak execution takes from the credit what is added to forfeited.
LEMMA ChargedSound ==
    ASSUME seq \in Nat, NEW f \in Reward, NEW prev \in Nat, NEW b \in Nat, b <= prev,
           Sound(f, Units(prev), seq)
    PROVE  Charged(f, prev, b) \in Reward /\ Sound(Charged(f, prev, b), Units(b), seq)
<1> DEFINE u == Units(prev)
           v == Units(b)
           d == seq - f.last
           lost == (u - v) * d
           g == Charged(f, prev, b)
<1>1. u \in Nat /\ v \in Nat /\ d \in Nat /\ v <= u /\ v <= f.peak
  <2>1. u \in Nat /\ v \in Nat /\ v <= u
    BY UnitsNat, UnitsMonotone, Zenon
  <2> HIDE DEF u, v
  <2>2. u <= f.peak /\ f.peak \in Nat
    BY Zenon DEF Sound, Reward, u
  <2>3. d \in Nat
    BY DEF Sound, Reward
  <2> QED BY <2>1, <2>2, <2>3
<1> HIDE DEF u, v, d
<1>2. lost \in Nat /\ u * d \in Nat /\ v * d \in Nat /\ u * d = v * d + lost
  <2>1. u - v \in Nat
    BY <1>1
  <2>2. lost \in Nat /\ u * d \in Nat /\ v * d \in Nat
    <3>1. \A x, y \in Nat : x * y \in Nat
      BY ProductMonotone
    <3> QED BY <1>1, <2>1, <3>1, Zenon DEF lost
  <2>3. u * d = v * d + (u - v) * d
    BY <1>1
  <2> QED BY <2>2, <2>3, Zenon DEF lost
<1> HIDE DEF lost
<1>3. f.forfeited + lost \in Nat
  BY <1>2 DEF Reward
<1>4. ~(v > f.peak)
  BY <1>1 DEF Reward
<1> DEFINE h == [f EXCEPT !.forfeited = f.forfeited + lost]
<1>5. h \in Reward /\ h.peak = f.peak /\ h.funded = f.funded
  BY <1>3, Zenon DEF Reward
<1>6. g = Observed(h, b)
  BY Zenon DEF Charged, u, v, d, lost
<1>7. g = [h EXCEPT !.peak = f.peak, !.funded = f.funded /\ v > 0]
  BY <1>4, <1>5, <1>6, Zenon DEF Observed, v
<1>8. f.peak \in Nat /\ (f.funded /\ v > 0) \in BOOLEAN
  BY Zenon DEF Reward
<1>9. /\ g \in Reward /\ g.first = f.first /\ g.last = f.last /\ g.accum = f.accum
      /\ g.earned = f.earned /\ g.forfeited = f.forfeited + lost
      /\ g.peak = f.peak /\ g.funded = (f.funded /\ v > 0)
  BY <1>3, <1>7, <1>8, Zenon DEF Reward
<1> HIDE DEF g, h
<1>10. /\ f.first <= f.last /\ f.last <= seq /\ f.accum <= f.peak * (f.last - f.first)
       /\ f.peak * (seq - f.first) < Width =>
             /\ f.accum + u * d + f.forfeited >= f.earned
             /\ f.funded => f.accum + u * d + f.forfeited = f.earned
  BY Zenon DEF Sound, u, d
<1>11. f.accum + u * d + f.forfeited = f.accum + v * d + (f.forfeited + lost)
  BY <1>2 DEF Reward
<1>12. Sound(g, v, seq)
  BY <1>1, <1>9, <1>10, <1>11, Zenon DEF Sound, d
<1> QED BY <1>9, <1>12, Zenon DEF g, v

\* Reset counters are sound (ClaimReward::doApply).
LEMMA RestartedSound ==
    ASSUME Inv, NEW a \in Account, NEW lag \in 0 .. MaxLag
    PROVE  Restarted(a, lag) \in Reward /\ Sound(Restarted(a, lag), Units(bal[a]), seq)
<1>1. Units(bal[a]) \in Nat /\ seq - 2 - lag \in Nat /\ seq \in Nat
  BY UnitsNat, RewardAssumption DEF Inv, TypeOK
<1> DEFINE u == Units(bal[a])
           r == Restarted(a, lag)
<1>2. /\ r.first = seq /\ r.last = seq /\ r.accum = 0 /\ r.earned = 0 /\ r.peak = u
      /\ r.forfeited = 0 /\ r.funded = (u > 0)
  BY Zenon DEF Restarted
<1>3. r \in Reward
  BY <1>1 DEF Restarted, Reward
<1>4. u * (seq - seq) = 0
  BY <1>1
<1>a. u \in Nat /\ seq \in Nat
  BY <1>1, Zenon
<1> HIDE DEF r, u
<1>5. r.peak * (r.last - r.first) = 0 /\ u * (seq - r.last) = 0
  BY <1>2, <1>4, Zenon
<1>6. Sound(r, u, seq)
  <2>1. r.first <= r.last /\ r.last <= seq /\ u <= r.peak
    BY <1>2, <1>a
  <2>2. r.funded => u > 0
    BY <1>2, Zenon
  <2>3. r.accum <= r.peak * (r.last - r.first)
    BY <1>2, <1>5
  <2>4. /\ r.accum + u * (seq - r.last) + r.forfeited = r.earned
        /\ r.accum + u * (seq - r.last) + r.forfeited >= r.earned
    BY <1>2, <1>5
  <2> QED BY <2>1, <2>2, <2>3, <2>4, <1>2, <1>5, Zenon DEF Sound
<1> QED BY <1>3, <1>6, Zenon DEF r, u

\* The end of a transaction that leaves the balances b.
LEMMA BalancesSound ==
    ASSUME Inv, NEW b \in [Account -> Nat], opted' \subseteq opted, seq' = seq, Balances(b)
    PROVE  /\ bal' \in [Account -> Nat]
           /\ reward' \in [Account -> Reward]
           /\ \A a \in opted' : Sound(reward'[a], Units(bal'[a]), seq')
<1>1. ASSUME NEW a \in Account
      PROVE  reward'[a] \in Reward /\ (a \in opted' => Sound(reward'[a], Units(bal'[a]), seq'))
  <2>1. reward[a] \in Reward /\ bal[a] \in Nat /\ b[a] \in Nat /\ seq \in Nat /\ bal'[a] = b[a]
    BY Zenon DEF Inv, TypeOK, Balances
  <2>2. CASE a \notin opted'
    BY <2>2, Zenon DEF Balances, NoReward, Reward
  <2>3. CASE a \in opted' /\ b[a] = bal[a]
    <3>1. reward'[a] = reward[a] /\ Sound(reward[a], Units(bal[a]), seq)
      BY <2>3, Zenon DEF Balances, Inv
    <3> QED BY <3>1, <2>1, <2>3, Zenon DEF Sound, Units
  <2>4. CASE a \in opted' /\ b[a] # bal[a]
    <3>1. reward'[a] = Observed(Accumulated(reward[a], bal[a]), b[a]) /\ Sound(reward[a], Units(bal[a]), seq)
      BY <2>4, Zenon DEF Balances, Settled, Inv
    <3>2. reward'[a] \in Reward /\ Sound(reward'[a], Units(b[a]), seq)
      BY <3>1, <2>1, AccumulatedSound, Zenon
    <3> QED BY <3>2, <2>1, Zenon DEF Sound, Units
  <2> QED BY <2>2, <2>3, <2>4, Zenon
<1> QED BY <1>1, Zenon DEF Balances, Inv, TypeOK

\* The reward hook's sum is at most what may be credited, also as the absolute value
\* of the error code that stands for an accumulator with the top bit set.
LEMMA TotalBounded ==
    ASSUME Inv, NEW a \in opted
    PROVE  Magnitude(Total(a)) \in Nat /\ Magnitude(Total(a)) <= Ceiling(a) /\ Ceiling(a) \in Nat
<1> DEFINE f == reward[a]
<1>1. f \in Reward /\ Sound(f, Units(bal[a]), seq) /\ seq \in Nat /\ Width \in Nat \ {0}
  BY RewardAssumption, Zenon DEF Inv, TypeOK
<1>2. Units(bal[a]) \in Nat /\ seq - f.last \in Nat /\ f.last - f.first \in Nat
  BY <1>1, UnitsNat DEF Inv, TypeOK, Sound, Reward
<1>3. /\ Units(bal[a]) * (seq - f.last) <= f.peak * (seq - f.last)
      /\ Units(bal[a]) * (seq - f.last) \in Nat /\ f.peak * (seq - f.last) \in Nat
  BY <1>1, <1>2, ProductMonotone, Zenon DEF Sound, Reward
<1>4. Ceiling(a) = f.peak * (seq - f.last) + f.peak * (f.last - f.first)
  BY <1>1, ProductSplit DEF Sound, Reward, Ceiling
<1>5. f.peak * (f.last - f.first) \in Nat
  BY <1>1, <1>2, ProductMonotone DEF Reward
<1>6. /\ Slot(f.accum) \in Int /\ Slot(f.accum) <= f.accum
      /\ Slot(f.accum) >= 0 \/ (Slot(f.accum) = -3 /\ f.accum >= 3)
  <2>1. f.accum \in Nat /\ Width \div 2 >= 3 /\ Width \div 2 \in Nat
    BY <1>1, RewardAssumption DEF Reward
  <2> QED BY <2>1 DEF Slot
<1>7. /\ f.accum <= f.peak * (f.last - f.first) /\ f.accum \in Nat
      /\ Total(a) = Slot(f.accum) + Units(bal[a]) * (seq - f.last)
  BY <1>1, Zenon DEF Sound, Reward, Total
<1> DEFINE t == Total(a)
           s == Slot(f.accum)
           p == Units(bal[a]) * (seq - f.last)
           q == f.peak * (seq - f.last)
           r == f.peak * (f.last - f.first)
           n == f.accum
<1>8. /\ p <= q /\ p \in Nat /\ q \in Nat /\ r \in Nat /\ n \in Nat /\ n <= r /\ t = s + p
      /\ s \in Int /\ s <= n /\ (s >= 0 \/ (s = -3 /\ n >= 3)) /\ Ceiling(a) = q + r
  BY <1>3, <1>4, <1>5, <1>6, <1>7, Zenon
<1> HIDE DEF t, s, p, q, r, n
<1>9. Magnitude(t) \in Nat /\ Magnitude(t) <= Ceiling(a) /\ Ceiling(a) \in Nat
  BY <1>8 DEF Magnitude
<1> QED BY <1>9, Zenon DEF t

-----------------------------------------------------------------------------
\* The invariant holds in the first ledger.
LEMMA InvInit ==
    Init => Inv
<1> SUFFICES ASSUME Init PROVE Inv
  BY Zenon
<1>1. NoReward \in Reward
  BY Zenon DEF NoReward, Reward
<1>2. MaxLag \in Nat /\ DOMAIN Drops \subseteq Account /\ \A a \in DOMAIN Drops : Drops[a] \in Nat
  BY RewardAssumption, Zenon
<1> QED BY <1>1, <1>2 DEF Init, Inv, TypeOK

\* A claim resets the counters of one account, whatever it emits.
LEMMA RestartInv ==
    ASSUME Inv, NEW a \in exists, NEW lag \in 0 .. MaxLag, Restart(a, lag), mints' \subseteq Mint
    PROVE  Inv'
<1>1. a \in Account /\ Restarted(a, lag) \in Reward /\ Sound(Restarted(a, lag), Units(bal[a]), seq)
  BY RestartedSound, Zenon DEF Inv, TypeOK
<1>2. TypeOK'
  BY <1>1, Zenon DEF Inv, TypeOK, Restart
<1>3. ASSUME NEW x \in opted' PROVE Sound(reward'[x], Units(bal'[x]), seq')
  <2>1. CASE x = a
    BY <2>1, <1>1, Zenon DEF Inv, TypeOK, Restart, Sound, Units
  <2>2. CASE x # a
    BY <2>2, <1>3, Zenon DEF Inv, TypeOK, Restart, Sound, Units
  <2> QED BY <2>1, <2>2, Zenon
<1> QED BY <1>2, <1>3, Zenon DEF Inv, Restart

\* The rate of what an account may be paid, times a common factor that cancels.
LEMMA PaidBounded ==
    ASSUME NEW drops \in Nat, NEW rate \in Nat, NEW t \in Nat, NEW peak \in Nat,
           NEW e \in Nat \ {0}, NEW ru \in Nat \ {0}, NEW un \in Nat,
           t <= peak * e, drops * (ru * e) <= rate * t * un
    PROVE  drops * ru <= rate * peak * un
<1>1. peak * e \in Nat /\ rate * un \in Nat
  OBVIOUS
<1>2. t * (rate * un) <= (peak * e) * (rate * un)
  BY <1>1, ProductMonotone, Zenon
<1>3. rate * t * un = t * (rate * un) /\ drops * (ru * e) = (drops * ru) * e
      /\ (peak * e) * (rate * un) = (rate * peak * un) * e
  OBVIOUS
<1> DEFINE x == drops * ru
           y == rate * peak * un
<1>4. x \in Nat /\ y \in Nat /\ x * e <= y * e
  BY <1>1, <1>2, <1>3
<1> HIDE DEF x, y
<1>5. x <= y
  <2>1. CASE x > y
    <3>1. (y + 1) * e <= x * e
      BY <1>4, <2>1, ProductMonotone
    <3>2. (y + 1) * e = y * e + e /\ y * e \in Nat /\ x * e \in Nat
      BY <1>4, ProductMonotone
    <3> QED BY <3>1, <3>2, <1>4
  <2> QED BY <2>1, <1>4
<1> QED BY <1>5, Zenon DEF x, y

\* What the reward hook emits is a mint of at most the rate on the peak.
LEMMA ClaimPaidMint ==
    ASSUME Inv, NEW a \in Claimant, NEW lag \in 0 .. MaxLag, NEW active \in SUBSET Member,
           ClaimPaid(a, lag, active)
    PROVE  /\ mints' \subseteq Mint
           /\ \A m \in mints' \ mints :
                 m.drops * RateUnit <= config.rate * reward[m.by].peak * Unit
<1> DEFINE e == seq - reward[a].first
           t == Magnitude(Total(a))
           peak == reward[a].peak
           rate == config.rate
<1>1. /\ a \in opted /\ a \in Account /\ reward[a] \in Reward /\ seq \in Nat
      /\ rate \in Nat /\ Unit \in Nat \ {0} /\ RateUnit \in Nat \ {0} /\ MintWindow \in Nat
  BY RewardAssumption, Zenon DEF ClaimPaid, Inv, TypeOK
<1>a. e \in Nat \ {0} /\ peak \in Nat
  BY <1>1 DEF ClaimPaid, Reward
<1>b. t \in Nat /\ t <= peak * e
  BY <1>1, TotalBounded, Zenon DEF Ceiling
<1> HIDE DEF e, t, peak, rate
<1>2. e \in Nat \ {0} /\ peak \in Nat /\ t \in Nat /\ t <= peak * e
  BY <1>a, <1>b
<1>3. rate * t * Unit \in Nat /\ RateUnit * e \in Nat \ {0}
  BY <1>1, <1>2
<1> DEFINE drops == (rate * t * Unit) \div (RateUnit * e)
<1>4. drops \in Nat /\ drops * (RateUnit * e) <= rate * t * Unit
  BY <1>3, QuotientBound, Zenon
<1>5. RewardDrops(a) = drops
  BY Zenon DEF RewardDrops, e, t, rate
<1> HIDE DEF drops
<1>6. drops * RateUnit <= rate * peak * Unit
  BY <1>1, <1>2, <1>4, PaidBounded, Zenon
<1> DEFINE m == [by |-> a, drops |-> drops, active |-> active,
                 first |-> seq + 1, last |-> seq + MintWindow]
<1>7. mints' = mints \cup {m}
  BY <1>5, Zenon DEF ClaimPaid
<1>8. m \in Mint
  BY <1>1, <1>4 DEF Mint
<1>9. m.drops = drops /\ m.by = a
  BY Zenon
<1> HIDE DEF m
<1>10. mints' \subseteq Mint
  BY <1>7, <1>8, Zenon DEF Inv, TypeOK
<1>11. \A x \in mints' \ mints : x = m
  BY <1>7, Zenon
<1> QED BY <1>6, <1>9, <1>10, <1>11, Zenon DEF peak, rate

\* A transaction that only moves, mints or destroys balances.
LEMMA BalancesInv ==
    ASSUME Inv, NEW b \in [Account -> Nat], Balances(b), seq' = seq, config' = config,
           opted' \subseteq opted, exists' \subseteq Account, opted' \subseteq exists',
           mints' \subseteq mints
    PROVE  Inv'
<1>1. /\ bal' \in [Account -> Nat] /\ reward' \in [Account -> Reward]
      /\ \A a \in opted' : Sound(reward'[a], Units(bal'[a]), seq')
  BY BalancesSound, Zenon
<1>2. TypeOK'
  BY <1>1, Zenon DEF Inv, TypeOK
<1> QED BY <1>1, <1>2, Zenon DEF Inv

\* Every transaction, and the close of a ledger, keeps the invariant.
LEMMA InvNext ==
    Inv /\ [Next]_vars => Inv'
<1> SUFFICES ASSUME Inv, [Next]_vars PROVE Inv'
  BY Zenon
<1> USE RewardAssumption
<1>1. ASSUME NEW a \in Account, NEW dst \in Account, NEW amt \in Amount, Payment(a, dst, amt)
      PROVE  Inv'
  <2> DEFINE b == [bal EXCEPT ![a] = @ - amt, ![dst] = @ + amt]
  <2>a. bal \in [Account -> Nat] /\ amt \in Nat /\ a # dst /\ bal[a] >= amt + Reserve
    BY <1>1, Zenon DEF Payment, CanPay, Inv, TypeOK
  <2>0. bal \in [Account -> Nat] /\ amt \in Nat /\ a # dst /\ bal[a] >= amt
    <3>1. Reserve \in Nat /\ bal[a] \in Nat
      BY <2>a, Zenon
    <3> QED BY <3>1, <2>a
  <2>1. b \in [Account -> Nat]
    BY <2>0
  <2>2. Balances(b)
    BY <1>1, Zenon DEF Payment
  <2> HIDE DEF b
  <2> QED BY <1>1, <2>1, <2>2, BalancesInv, Zenon DEF Payment, Inv, TypeOK
<1>2. ASSUME NEW a \in Account, NEW dst \in Account, DeleteAccount(a, dst)
      PROVE  Inv'
  <2> DEFINE b == [bal EXCEPT ![a] = 0, ![dst] = @ + bal[a]]
  <2>1. b \in [Account -> Nat]
    BY <1>2 DEF DeleteAccount, Inv, TypeOK
  <2>2. Balances(b)
    BY <1>2, Zenon DEF DeleteAccount
  <2> HIDE DEF b
  <2> QED BY <1>2, <2>1, <2>2, BalancesInv, Zenon DEF DeleteAccount, Inv, TypeOK
<1>3. ASSUME NEW a \in Claimant, NEW lag \in 0 .. MaxLag, ClaimElsewhere(a, lag)
      PROVE  Inv'
  BY <1>3, RestartInv, Zenon DEF ClaimElsewhere, Inv, TypeOK
<1>4. ASSUME NEW a \in Claimant, NEW lag \in 0 .. MaxLag, ClaimSetup(a, lag)
      PROVE  Inv'
  BY <1>4, RestartInv, Zenon DEF ClaimSetup, Inv, TypeOK
<1>5. ASSUME NEW a \in Claimant, NEW lag \in 0 .. MaxLag, NEW active \in SUBSET Member,
             ClaimPaid(a, lag, active)
      PROVE  Inv'
  <2>1. mints' \subseteq Mint
    BY <1>5, ClaimPaidMint, Zenon
  <2> QED BY <1>5, <2>1, RestartInv, Zenon DEF ClaimPaid, Inv, TypeOK
<1>6. ASSUME NEW a \in Claimant, OptOut(a) PROVE Inv'
  <2>1. NoReward \in Reward
    BY Zenon DEF NoReward, Reward
  <2>2. TypeOK'
    BY <1>6, <2>1, Zenon DEF OptOut, Inv, TypeOK
  <2>3. \A x \in opted' : x \in opted /\ reward'[x] = reward[x] /\ bal'[x] = bal[x]
    BY <1>6, Zenon DEF OptOut, Inv, TypeOK
  <2> QED BY <1>6, <2>2, <2>3 DEF OptOut, Inv, Sound, Units
<1>7. ASSUME NEW m \in mints, GenesisMint(m) PROVE Inv'
  <2> DEFINE b == [a \in Account |-> bal[a] + Minted(m, a)]
  <2>1. m \in Mint
    BY Zenon DEF Inv, TypeOK
  <2>2. Share(m) \in Nat /\ m.drops \in Nat
    BY <2>1, QuotientBound, Zenon DEF Share, Mint
  <2>3. b \in [Account -> Nat]
    BY <2>2 DEF Minted, Inv, TypeOK
  <2>4. Balances(b) /\ exists' \subseteq Account
    BY <1>7, <2>1, Zenon DEF GenesisMint, Inv, TypeOK, Mint
  <2> HIDE DEF b
  <2> QED BY <1>7, <2>3, <2>4, BalancesInv, Zenon DEF GenesisMint, Inv, TypeOK
<1>8. ASSUME NEW m \in mints, MintExpires(m) PROVE Inv'
  BY <1>8, Zenon DEF MintExpires, Inv, TypeOK, Sound, Units
<1>9. ASSUME NEW c \in Config, SetConfig(c) PROVE Inv'
  BY <1>9, Zenon DEF SetConfig, Inv, TypeOK, Sound, Units
<1>10. CASE LedgerClose
  <2>1. ASSUME NEW a \in Account
        PROVE  reward'[a] \in Reward /\ (a \in opted => Sound(reward'[a], Units(bal'[a]), seq'))
    <3> DEFINE f == reward[a]
               g == [f EXCEPT !.earned = @ + Units(bal[a])]
               u == Units(bal[a])
    <3>1. f \in Reward /\ bal[a] \in Nat /\ u \in Nat /\ seq \in Nat
      BY UnitsNat, Zenon DEF Inv, TypeOK
    <3>2. CASE a \notin opted
      BY <3>1, <3>2, <1>10, Zenon DEF LedgerClose
    <3>3. CASE a \in opted
      <4>1. reward'[a] = g /\ bal'[a] = bal[a] /\ seq' = seq + 1 /\ Sound(f, u, seq)
        BY <3>3, <1>10, Zenon DEF LedgerClose, Inv
      <4>2. /\ g \in Reward /\ g.first = f.first /\ g.last = f.last /\ g.accum = f.accum
            /\ g.peak = f.peak /\ g.funded = f.funded /\ g.earned = f.earned + u
            /\ g.forfeited = f.forfeited
        BY <3>1 DEF Reward
      <4>3. /\ u * ((seq + 1) - f.last) = u * (seq - f.last) + u
            /\ f.peak * ((seq + 1) - f.first) = f.peak * (seq - f.first) + f.peak
        BY <3>1, <4>1, ProductNext DEF Sound, Reward
      <4>4. u * (seq - f.last) \in Nat /\ f.peak * (seq - f.first) \in Nat
        BY <3>1, <4>1, ProductMonotone DEF Sound, Reward
      <4>5. ASSUME g.peak * ((seq + 1) - g.first) < Width
            PROVE  /\ g.accum + u * ((seq + 1) - g.last) + g.forfeited >= g.earned
                   /\ g.funded => g.accum + u * ((seq + 1) - g.last) + g.forfeited = g.earned
        <5>1. f.peak * (seq - f.first) < Width
          BY <4>5, <4>2, <4>3, <4>4, <3>1 DEF Reward
        <5>2. /\ f.accum + u * (seq - f.last) + f.forfeited >= f.earned
              /\ f.funded => f.accum + u * (seq - f.last) + f.forfeited = f.earned
          BY <5>1, <4>1, Zenon DEF Sound
        <5> QED BY <5>2, <4>2, <4>3, <4>4, <3>1 DEF Reward
      <4>6. /\ g.first <= g.last /\ g.last <= seq + 1 /\ u <= g.peak /\ (g.funded => u > 0)
            /\ g.accum <= g.peak * (g.last - g.first)
        BY <4>1, <4>2, <3>1 DEF Sound, Reward
      <4>7. Sound(g, u, seq + 1)
        BY <4>5, <4>6, Zenon DEF Sound
      <4>8. Sound(reward'[a], Units(bal'[a]), seq')
        BY <4>1, <4>7, Zenon
      <4> QED BY <4>1, <4>2, <4>8, Zenon
    <3> QED BY <3>2, <3>3, Zenon
  <2>2. TypeOK'
    BY <1>10, <2>1 DEF LedgerClose, Inv, TypeOK
  <2> QED BY <1>10, <2>1, <2>2 DEF LedgerClose, Inv, TypeOK
<1>11. ASSUME NEW a \in Collector, NEW fee \in HookFee, WeakFee(a, fee) PROVE Inv'
  <2> DEFINE n == bal[a] - fee
             r == IF a \in opted THEN Charged(reward[a], bal[a], n) ELSE reward[a]
  <2>1. a \in Account /\ bal \in [Account -> Nat] /\ reward \in [Account -> Reward] /\ seq \in Nat
    BY Zenon DEF Inv, TypeOK
  <2>2. n \in Nat /\ n <= bal[a]
    <3>1. bal[a] >= fee + Reserve /\ Reserve \in Nat /\ bal[a] \in Nat /\ fee \in Nat
      BY <1>11, <2>1, Zenon DEF WeakFee, CanPay
    <3> QED BY <3>1
  <2>3. /\ bal' = [bal EXCEPT ![a] = n] /\ reward' = [reward EXCEPT ![a] = r]
        /\ UNCHANGED <<exists, opted, seq, config, mints>>
    BY <1>11, Zenon DEF WeakFee
  <2> HIDE DEF n
  <2>4. r \in Reward /\ (a \in opted => Sound(r, Units(n), seq))
    <3>1. CASE a \in opted
      <4>1. reward[a] \in Reward /\ bal[a] \in Nat /\ Sound(reward[a], Units(bal[a]), seq)
        BY <2>1, <3>1, Zenon DEF Inv
      <4> QED BY <2>1, <2>2, <3>1, <4>1, ChargedSound, Zenon
    <3>2. CASE a \notin opted
      BY <2>1, <3>2, Zenon
    <3> QED BY <3>1, <3>2, Zenon
  <2> HIDE DEF r
  <2>5. TypeOK'
    BY <2>1, <2>2, <2>3, <2>4, Zenon DEF Inv, TypeOK
  <2>6. ASSUME NEW x \in opted' PROVE Sound(reward'[x], Units(bal'[x]), seq')
    <3>1. x \in opted /\ x \in Account /\ seq' = seq
      BY <2>3, Zenon DEF Inv, TypeOK
    <3>2. CASE x = a
      <4>1. reward'[x] = r /\ bal'[x] = n
        BY <2>1, <2>3, <3>2, Zenon
      <4> QED BY <2>4, <3>1, <3>2, <4>1, Zenon
    <3>3. CASE x # a
      <4>1. reward'[x] = reward[x] /\ bal'[x] = bal[x] /\ Sound(reward[x], Units(bal[x]), seq)
        BY <2>1, <2>3, <3>1, <3>3, Zenon DEF Inv
      <4> QED BY <3>1, <4>1, Zenon
    <3> QED BY <3>2, <3>3, Zenon
  <2> QED BY <2>3, <2>5, <2>6, Zenon DEF Inv
<1>12. CASE UNCHANGED vars
  BY <1>12, Zenon DEF vars, Inv, TypeOK, Sound, Units
<1> QED BY <1>1, <1>2, <1>3, <1>4, <1>5, <1>6, <1>7, <1>8, <1>9, <1>10, <1>11, <1>12, Zenon DEF Next

\* In every reachable state the reward fields of all accounts are sound.
THEOREM Invariant ==
    Spec => []Inv
<1> QED BY InvInit, InvNext, PTL DEF Spec

\* Balances stay natural numbers, reward fields belong to accounts that exist, and
\* what the reward hook has emitted is well formed.
THEOREM TypeCorrect ==
    Spec => []TypeOK
<1>1. Inv => TypeOK
  BY Zenon DEF Inv
<1> QED BY <1>1, Invariant, PTL

\* Transactor::operator() and ClaimReward never credit more than the peak holding over
\* the ledgers since the reset, for any balances and any width of the accumulator.
THEOREM CreditBoundedAlways ==
    Spec => []CreditBounded
<1>1. ASSUME Inv, NEW a \in opted
      PROVE  reward[a].accum + reward[a].peak * (seq - reward[a].last) <= Ceiling(a)
  <2>1. reward[a] \in Reward /\ seq \in Nat /\ Sound(reward[a], Units(bal[a]), seq)
    BY <1>1, Zenon DEF Inv, TypeOK
  <2> DEFINE f == reward[a]
  <2>2. f.peak * (seq - f.first) = f.peak * (seq - f.last) + f.peak * (f.last - f.first)
    BY <2>1, ProductSplit DEF Sound, Reward
  <2>3. f.peak * (seq - f.last) \in Nat /\ f.peak * (f.last - f.first) \in Nat
    BY <2>1, ProductMonotone DEF Sound, Reward
  <2> QED BY <2>1, <2>2, <2>3 DEF Sound, Reward, Ceiling
<1>2. Inv => CreditBounded
  BY <1>1, Zenon DEF CreditBounded
<1> QED BY <1>2, Invariant, PTL

\* As long as the accumulator cannot have wrapped, it loses no unit held at the end of
\* a ledger but those that fees of weak executions took before the balance was settled,
\* and counts nothing else for an account that always held one.
THEOREM HoldingCreditedAlways ==
    Spec => []HoldingCredited
<1>1. Inv => HoldingCredited
  BY Zenon DEF Inv, Sound, HoldingCredited, Ceiling, Credit
<1> QED BY <1>1, Invariant, PTL

\* The reward hook never pays more than the rate on the peak holding.
THEOREM RewardBoundedAlways ==
    Spec => RewardBounded
<1> DEFINE Bounded == \A m \in mints' \ mints :
                         m.drops * RateUnit <= config.rate * reward[m.by].peak * Unit
<1>1. Inv /\ [Next]_vars => [Bounded]_vars
  <2> SUFFICES ASSUME Inv, Next PROVE Bounded
    BY Zenon
  <2>1. CASE \E a \in Claimant, lag \in 0 .. MaxLag, active \in SUBSET Member : ClaimPaid(a, lag, active)
    BY <2>1, ClaimPaidMint, Zenon
  <2>2. CASE mints' \subseteq mints
    BY <2>2, Zenon
  <2>3. mints' \subseteq mints \/ \E a \in Claimant, lag \in 0 .. MaxLag, active \in SUBSET Member : ClaimPaid(a, lag, active)
    BY Zenon DEF Next, Payment, DeleteAccount, WeakFee, ClaimElsewhere, ClaimSetup, OptOut, GenesisMint,
           MintExpires, SetConfig, LedgerClose
  <2> QED BY <2>1, <2>2, <2>3, Zenon
<1>2. Spec => [][Bounded]_vars
  BY <1>1, Invariant, PTL DEF Spec
<1> QED BY <1>2, Zenon DEF RewardBounded

-----------------------------------------------------------------------------
(* Sums of functions over finite sets (SumFunctionOnSet of the library):   *)
(* unfolding, type, and the sums that a mint and a payment need.           *)
(* Induction is by a least counterexample among the cardinalities.         *)

\* The element that the fold takes first, one step of it, and a table of its results.
Pick(s) == CHOOSE x \in s : TRUE
SumStep(it, f, s) == IF s = {} THEN 0 ELSE f[Pick(s)] + it[s \ {Pick(s)}]
SumTable(it, f, S) == it = [s \in SUBSET S |-> SumStep(it, f, s)]

\* Every set of naturals that has an element has a least one.
LEMMA LeastNatural ==
    ASSUME NEW T \in SUBSET Nat, T # {}
    PROVE  \E n \in T : \A m \in T : ~(m < n)
<1> DEFINE Less == {p \in Nat \X Nat : p[1] < p[2]}
<1>1. IsWellFoundedOn(Less, Nat)
  BY NatLessThanWellFounded, Zenon DEF OpToRel
<1> HIDE DEF Less
<1>2. PICK n \in T : \A m \in T : ~(<<m, n>> \in Less)
  BY <1>1, WFMin, Zenon
<1>3. \A m \in T : m < n => <<m, n>> \in Less
  BY Zenon DEF Less
<1> QED
  BY <1>2, <1>3, Zenon

\* The library's sum is the table's last value.
LEMMA SumIsTable ==
    ASSUME NEW f, NEW S
    PROVE  SumFunctionOnSet(f, S) = (CHOOSE it : SumTable(it, f, S))[S]
  BY Zenon DEF SumFunctionOnSet, FoldFunctionOnSet, MapThenFoldSet, SumTable, SumStep, Pick

\* Tables of functions that agree where the tables overlap agree there.
LEMMA TablesAgree ==
    ASSUME NEW f, NEW g, NEW S, NEW T, IsFiniteSet(S), NEW it, NEW jt,
           SumTable(it, f, S), SumTable(jt, g, T), \A x \in S \cap T : f[x] = g[x]
    PROVE  \A s \in SUBSET (S \cap T) : it[s] = jt[s]
<1> DEFINE Bad == {n \in Nat : \E s \in SUBSET (S \cap T) : Cardinality(s) = n /\ it[s] # jt[s]}
<1>1. \A s \in SUBSET (S \cap T) : IsFiniteSet(s) /\ Cardinality(s) \in Nat
  BY FS_Subset, FS_CardinalityType, Zenon
<1>2. \A s \in SUBSET (S \cap T) : it[s] = SumStep(it, f, s) /\ jt[s] = SumStep(jt, g, s)
  BY Zenon DEF SumTable
<1>3. ASSUME Bad # {} PROVE FALSE
  <2>1. PICK n \in Bad : \A m \in Bad : ~(m < n)
    BY <1>3, LeastNatural, Zenon
  <2>2. PICK s \in SUBSET (S \cap T) : Cardinality(s) = n /\ it[s] # jt[s]
    BY Zenon
  <2>3. s # {}
    BY <1>2, <2>2, Zenon DEF SumStep
  <2> DEFINE x == Pick(s)
             t == s \ {x}
  <2>4. x \in s
    BY <2>3, Zenon DEF Pick
  <2>5. Cardinality(t) = n - 1 /\ Cardinality(t) \in Nat
    BY <1>1, <2>2, <2>4, FS_RemoveElement, Zenon
  <2>6. n - 1 \notin Bad
    BY <2>1, <2>5
  <2>7. it[t] = jt[t]
    BY <2>5, <2>6, Zenon
  <2> QED
    BY <1>2, <2>2, <2>3, <2>4, <2>7, Zenon DEF SumStep
<1> QED
  BY <1>1, <1>3, Zenon

\* A finite set has a table.
LEMMA TableExists ==
    ASSUME NEW f, NEW S, IsFiniteSet(S)
    PROVE  \E it : SumTable(it, f, S)
<1> DEFINE Bad == {n \in Nat : \E s \in SUBSET S : Cardinality(s) = n /\ ~\E it : SumTable(it, f, s)}
<1>1. \A s \in SUBSET S : IsFiniteSet(s) /\ Cardinality(s) \in Nat
  BY FS_Subset, FS_CardinalityType, Zenon
<1>2. ASSUME Bad # {} PROVE FALSE
  <2>1. PICK n \in Bad : \A m \in Bad : ~(m < n)
    BY <1>2, LeastNatural, Zenon
  <2>2. PICK s \in SUBSET S : Cardinality(s) = n /\ ~\E it : SumTable(it, f, s)
    BY Zenon
  <2> DEFINE Tab(t) == CHOOSE it : SumTable(it, f, t)
             Rest(t) == t \ {Pick(t)}
             new == [t \in SUBSET s |-> IF t = {} THEN 0 ELSE f[Pick(t)] + Tab(Rest(t))[Rest(t)]]
  <2>3. ASSUME NEW t \in SUBSET s, t # {} PROVE SumTable(Tab(Rest(t)), f, Rest(t))
    <3>1. Pick(t) \in t /\ Rest(t) \in SUBSET S
      BY <2>3, Zenon DEF Pick
    <3>2. Cardinality(Rest(t)) < n
      <4>1. Cardinality(t) <= n /\ Cardinality(t) \in Nat
        BY <1>1, <2>2, FS_Subset, Zenon
      <4>2. Cardinality(Rest(t)) = Cardinality(t) - 1
        BY <1>1, <3>1, FS_RemoveElement, Zenon
      <4> QED
        BY <4>1, <4>2
    <3>3. \E it : SumTable(it, f, Rest(t))
      BY <1>1, <2>1, <3>1, <3>2, Zenon
    <3> QED
      BY <3>3, Zenon
  <2>4. ASSUME NEW t \in SUBSET s, t # {}
        PROVE  new[Rest(t)] = Tab(Rest(t))[Rest(t)]
    <3> DEFINE u == Rest(t)
    <3>1. SumTable(Tab(u), f, u)
      BY <2>3, <2>4, Zenon
    <3>2. Tab(u)[u] = SumStep(Tab(u), f, u)
      BY <3>1, Zenon DEF SumTable
    <3>3. CASE u = {}
      BY <3>2, <3>3, Zenon DEF SumStep
    <3>4. CASE u # {}
      <4>1. SumTable(Tab(Rest(u)), f, Rest(u))
        BY <2>3, <3>4, Zenon
      <4>2. IsFiniteSet(u) /\ Rest(u) \in SUBSET (u \cap Rest(u))
        BY <1>1, Zenon
      <4> HIDE DEF Tab, Rest
      <4>3. Tab(u)[Rest(u)] = Tab(Rest(u))[Rest(u)]
        BY <3>1, <4>1, <4>2, TablesAgree
      <4> USE DEF Rest
      <4>4. Tab(u)[u] = f[Pick(u)] + Tab(u)[Rest(u)]
        BY <3>2, <3>4, Zenon DEF SumStep
      <4>5. new[u] = f[Pick(u)] + Tab(Rest(u))[Rest(u)]
        BY <3>4, Zenon
      <4> QED
        BY <4>3, <4>4, <4>5, Zenon
    <3> QED
      BY <3>3, <3>4, Zenon
  <2>5. ASSUME NEW t \in SUBSET s PROVE new[t] = SumStep(new, f, t)
    <3>1. CASE t = {}
      BY <3>1, Zenon DEF SumStep
    <3>2. CASE t # {}
      <4>1. new[t] = f[Pick(t)] + Tab(Rest(t))[Rest(t)]
        BY <3>2, Zenon
      <4> HIDE DEF new, Tab
      <4> QED
        BY <3>2, <2>4, <4>1, Zenon DEF SumStep
    <3> QED
      BY <3>1, <3>2, Zenon
  <2>6. SumTable(new, f, s)
    BY <2>5, Zenon DEF SumTable
  <2> QED
    BY <2>2, <2>6, Zenon
<1> QED
  BY <1>1, <1>2, Zenon

\* Sums of functions that agree on the set are equal.
LEMMA SumSame ==
    ASSUME NEW f, NEW g, NEW S, IsFiniteSet(S), \A x \in S : f[x] = g[x]
    PROVE  SumFunctionOnSet(f, S) = SumFunctionOnSet(g, S)
<1>1. ASSUME NEW it, NEW jt, NEW T, T = S, SumTable(it, f, S), SumTable(jt, g, T)
      PROVE  it[S] = jt[S]
  <2>1. \A x \in S \cap T : f[x] = g[x]
    BY Zenon
  <2>2. \A s \in SUBSET (S \cap T) : it[s] = jt[s]
    BY <1>1, <2>1, TablesAgree
  <2> QED
    BY <1>1, <2>2, Zenon
<1> DEFINE tf == CHOOSE it : SumTable(it, f, S)
           tg == CHOOSE it : SumTable(it, g, S)
<1>2. SumTable(tf, f, S) /\ SumTable(tg, g, S)
  BY TableExists, Zenon
<1>3. SumFunctionOnSet(f, S) = tf[S] /\ SumFunctionOnSet(g, S) = tg[S]
  BY SumIsTable, Zenon
<1> HIDE DEF tf, tg
<1> QED
  BY <1>1, <1>2, <1>3, Zenon

\* The sum takes the picked element first.
LEMMA SumPick ==
    ASSUME NEW f, NEW S, IsFiniteSet(S)
    PROVE  /\ S = {} => SumFunctionOnSet(f, S) = 0
           /\ S # {} => /\ Pick(S) \in S
                        /\ SumFunctionOnSet(f, S) =
                             f[Pick(S)] + SumFunctionOnSet(f, S \ {Pick(S)})
<1> DEFINE R == S \ {Pick(S)}
           it == CHOOSE it : SumTable(it, f, S)
           jt == CHOOSE jt : SumTable(jt, f, R)
<1>1. IsFiniteSet(R)
  BY FS_RemoveElement, Zenon
<1>2. SumTable(it, f, S) /\ SumTable(jt, f, R)
  BY <1>1, TableExists, Zenon
<1>3. SumFunctionOnSet(f, S) = it[S] /\ SumFunctionOnSet(f, R) = jt[R]
  BY SumIsTable, Zenon
<1> HIDE DEF it, jt
<1>4. R \in SUBSET (S \cap R)
  BY Zenon
<1> HIDE DEF R
<1>5. it[R] = jt[R]
  BY <1>2, <1>4, TablesAgree
<1>6. it[S] = SumStep(it, f, S)
  BY <1>2, Zenon DEF SumTable
<1> USE DEF R
<1> QED
  BY <1>3, <1>5, <1>6, Zenon DEF SumStep, Pick

\* The sum of integers is an integer, that of naturals a natural.
LEMMA SumType ==
    ASSUME NEW f, NEW S, IsFiniteSet(S)
    PROVE  /\ (\A x \in S : f[x] \in Int) => SumFunctionOnSet(f, S) \in Int
           /\ (\A x \in S : f[x] \in Nat) => SumFunctionOnSet(f, S) \in Nat
<1>1. ASSUME NEW D \in SUBSET Int, 0 \in D, \A x, y \in D : x + y \in D, \A x \in S : f[x] \in D
      PROVE  SumFunctionOnSet(f, S) \in D
  <2> DEFINE Bad == {n \in Nat : \E s \in SUBSET S :
                        Cardinality(s) = n /\ SumFunctionOnSet(f, s) \notin D}
  <2>1. \A s \in SUBSET S : IsFiniteSet(s) /\ Cardinality(s) \in Nat
    BY FS_Subset, FS_CardinalityType, Zenon
  <2>2. ASSUME Bad # {} PROVE FALSE
    <3>1. PICK n \in Bad : \A m \in Bad : ~(m < n)
      BY <2>2, LeastNatural, Zenon
    <3>2. PICK s \in SUBSET S : Cardinality(s) = n /\ SumFunctionOnSet(f, s) \notin D
      BY Zenon
    <3> DEFINE t == s \ {Pick(s)}
    <3>3. s # {} /\ Pick(s) \in s
      BY <1>1, <2>1, <3>2, SumPick, Zenon
    <3>4. Cardinality(t) \in Nat /\ Cardinality(t) < n
      BY <2>1, <3>2, <3>3, FS_RemoveElement
    <3>5. SumFunctionOnSet(f, t) \in D
      BY <3>1, <3>4, Zenon
    <3>6. SumFunctionOnSet(f, s) = f[Pick(s)] + SumFunctionOnSet(f, t)
      BY <2>1, <3>3, SumPick, Zenon
    <3> QED
      BY <1>1, <3>2, <3>3, <3>5, <3>6, Zenon
  <2> QED
    BY <2>1, <2>2, Zenon
<1>2. ASSUME \A x \in S : f[x] \in Int PROVE SumFunctionOnSet(f, S) \in Int
  <2>1. Int \in SUBSET Int /\ 0 \in Int /\ \A x, y \in Int : x + y \in Int
    OBVIOUS
  <2> QED
    BY <1>1, <1>2, <2>1, Zenon
<1>3. ASSUME \A x \in S : f[x] \in Nat PROVE SumFunctionOnSet(f, S) \in Nat
  <2>1. Nat \in SUBSET Int /\ 0 \in Nat /\ \A x, y \in Nat : x + y \in Nat
    OBVIOUS
  <2> QED
    BY <1>1, <1>3, <2>1, Zenon
<1> QED
  BY <1>2, <1>3, Zenon

\* The sum of two functions taken together.
LEMMA SumAdd ==
    ASSUME NEW f, NEW g, NEW h, NEW S, IsFiniteSet(S),
           \A x \in S : f[x] \in Int /\ g[x] \in Int /\ h[x] = f[x] + g[x]
    PROVE  SumFunctionOnSet(h, S) = SumFunctionOnSet(f, S) + SumFunctionOnSet(g, S)
<1> DEFINE Adds(s) == SumFunctionOnSet(h, s) = SumFunctionOnSet(f, s) + SumFunctionOnSet(g, s)
           Bad == {n \in Nat : \E s \in SUBSET S : Cardinality(s) = n /\ ~Adds(s)}
<1>1. \A s \in SUBSET S : /\ IsFiniteSet(s) /\ Cardinality(s) \in Nat
                          /\ SumFunctionOnSet(f, s) \in Int /\ SumFunctionOnSet(g, s) \in Int
  BY FS_Subset, FS_CardinalityType, SumType, Zenon
<1>2. ASSUME Bad # {} PROVE FALSE
  <2>1. PICK n \in Bad : \A m \in Bad : ~(m < n)
    BY <1>2, LeastNatural, Zenon
  <2>2. PICK s \in SUBSET S : Cardinality(s) = n /\ ~Adds(s)
    BY Zenon
  <2> DEFINE p == Pick(s)
             t == s \ {p}
  <2>3. CASE s = {}
    <3>1. SumFunctionOnSet(h, s) = 0 /\ SumFunctionOnSet(f, s) = 0 /\ SumFunctionOnSet(g, s) = 0
      BY <1>1, <2>3, SumPick, Zenon
    <3> QED
      BY <2>2, <3>1
  <2>4. CASE s # {}
    <3>1. /\ p \in s
          /\ SumFunctionOnSet(h, s) = h[p] + SumFunctionOnSet(h, t)
          /\ SumFunctionOnSet(f, s) = f[p] + SumFunctionOnSet(f, t)
          /\ SumFunctionOnSet(g, s) = g[p] + SumFunctionOnSet(g, t)
      BY <1>1, <2>4, SumPick, Zenon
    <3>2. Cardinality(t) \in Nat /\ Cardinality(t) < n
      BY <1>1, <2>2, <3>1, FS_RemoveElement
    <3>3. Adds(t)
      BY <2>1, <3>2, Zenon
    <3>4. /\ SumFunctionOnSet(f, t) \in Int /\ SumFunctionOnSet(g, t) \in Int
          /\ f[p] \in Int /\ g[p] \in Int /\ h[p] = f[p] + g[p]
      BY <1>1, <3>1, Zenon
    <3> HIDE DEF p, t
    <3> QED
      BY <2>2, <3>1, <3>3, <3>4
  <2> QED
    BY <2>3, <2>4, Zenon
<1> QED
  BY <1>1, <1>2, Zenon

\* A function that is c on T and zero elsewhere sums to as many times c.
LEMMA SumIndicator ==
    ASSUME NEW T, NEW c \in Int, NEW f, NEW S, IsFiniteSet(S), T \subseteq S,
           \A x \in S : f[x] = IF x \in T THEN c ELSE 0
    PROVE  SumFunctionOnSet(f, S) = Cardinality(T) * c
<1> DEFINE Counts(s) == SumFunctionOnSet(f, s) = Cardinality(s \cap T) * c
           Bad == {n \in Nat : \E s \in SUBSET S : Cardinality(s) = n /\ ~Counts(s)}
<1>1. \A s \in SUBSET S : /\ IsFiniteSet(s) /\ Cardinality(s) \in Nat
                          /\ IsFiniteSet(s \cap T) /\ Cardinality(s \cap T) \in Nat
  <2>1. \A s \in SUBSET S : s \cap T \in SUBSET S
    BY Zenon
  <2> QED
    BY <2>1, FS_Subset, FS_CardinalityType, Zenon
<1>2. ASSUME Bad # {} PROVE FALSE
  <2>1. PICK n \in Bad : \A m \in Bad : ~(m < n)
    BY <1>2, LeastNatural, Zenon
  <2>2. PICK s \in SUBSET S : Cardinality(s) = n /\ ~Counts(s)
    BY Zenon
  <2> DEFINE p == Pick(s)
             t == s \ {p}
             k == Cardinality(t \cap T)
  <2>3. CASE s = {}
    <3>1. SumFunctionOnSet(f, s) = 0
      BY <1>1, <2>3, SumPick, Zenon
    <3>2. Cardinality(s \cap T) = 0
      BY <2>3, FS_EmptySet, Zenon
    <3> QED
      BY <2>2, <3>1, <3>2
  <2>4. CASE s # {}
    <3>1. p \in s /\ SumFunctionOnSet(f, s) = f[p] + SumFunctionOnSet(f, t)
      BY <1>1, <2>4, SumPick, Zenon
    <3>2. Cardinality(t) \in Nat /\ Cardinality(t) < n
      <4>1. Cardinality(t) = Cardinality(s) - 1 /\ Cardinality(s) \in Nat /\ Cardinality(t) \in Nat
        BY <1>1, <3>1, FS_RemoveElement, Zenon
      <4> QED
        BY <2>2, <4>1
    <3>3. Counts(t)
      BY <2>1, <3>2, Zenon
    <3>4. k \in Nat
      BY <1>1, Zenon
    <3>5. CASE p \in T
      <4>1. s \cap T = (t \cap T) \cup {p} /\ p \notin t \cap T /\ IsFiniteSet(t \cap T)
        BY <1>1, <3>1, <3>5, Zenon
      <4>2. Cardinality(s \cap T) = k + 1
        BY <4>1, FS_AddElement, Zenon
      <4>3. f[p] = c
        BY <3>1, <3>5, Zenon
      <4> HIDE DEF k, p, t
      <4>4. (k + 1) * c = c + k * c
        BY <3>4
      <4>5. SumFunctionOnSet(f, t) = k * c
        BY <3>3, Zenon DEF k
      <4> QED
        BY <2>2, <3>1, <4>2, <4>3, <4>4, <4>5, Zenon
    <3>6. CASE p \notin T
      <4>1. s \cap T = t \cap T
        BY <3>1, <3>6, Zenon
      <4>2. f[p] = 0
        BY <3>1, <3>6, Zenon
      <4>3. SumFunctionOnSet(f, t) = Cardinality(s \cap T) * c
        BY <3>3, <4>1, Zenon
      <4>4. Cardinality(s \cap T) \in Nat
        BY <1>1, Zenon
      <4> HIDE DEF p, t
      <4>5. 0 + Cardinality(s \cap T) * c = Cardinality(s \cap T) * c
        BY <4>4
      <4> QED
        BY <2>2, <3>1, <4>2, <4>3, <4>5, Zenon
    <3> QED
      BY <3>5, <3>6, Zenon
  <2> QED
    BY <2>3, <2>4, Zenon
<1>3. Counts(S)
  BY <1>1, <1>2, Zenon
<1>4. S \cap T = T
  BY Zenon
<1> QED
  BY <1>3, <1>4, Zenon

-----------------------------------------------------------------------------
(* The drops in the header.                                                *)

\* Drops that move from one account to another leave the sum as it is.
LEMMA MovedSum ==
    ASSUME NEW b \in [Account -> Nat], NEW c \in [Account -> Nat],
           NEW a \in Account, NEW dst \in Account, NEW n \in Nat, a # dst,
           c[a] = b[a] - n, c[dst] = b[dst] + n, \A x \in Account \ {a, dst} : c[x] = b[x]
    PROVE  SumFunction(c) = SumFunction(b)
<1> DEFINE out == [x \in Account |-> IF x \in {a} THEN -n ELSE 0]
           in == [x \in Account |-> IF x \in {dst} THEN n ELSE 0]
           moved == [x \in Account |-> out[x] + in[x]]
<1>0. IsFiniteSet(Account)
  BY RewardAssumption, Zenon
<1>1. -n \in Int /\ n \in Int
  OBVIOUS
<1>2. Cardinality({a}) = 1 /\ Cardinality({dst}) = 1
  BY FS_Singleton, Zenon
<1>3. /\ \A x \in Account : out[x] = IF x \in {a} THEN -n ELSE 0
      /\ \A x \in Account : in[x] = IF x \in {dst} THEN n ELSE 0
      /\ {a} \subseteq Account /\ {dst} \subseteq Account
  BY Zenon
<1>4. \A x \in Account : out[x] \in Int /\ in[x] \in Int /\ moved[x] = out[x] + in[x]
  OBVIOUS
<1>5. \A x \in Account : b[x] \in Int /\ moved[x] \in Int /\ c[x] = b[x] + moved[x]
  OBVIOUS
<1> HIDE DEF out, in, moved
<1>6. SumFunctionOnSet(out, Account) = Cardinality({a}) * (-n)
  BY <1>0, <1>1, <1>3, SumIndicator, Zenon
<1>7. SumFunctionOnSet(in, Account) = Cardinality({dst}) * n
  BY <1>0, <1>1, <1>3, SumIndicator, Zenon
<1>8. SumFunctionOnSet(moved, Account) = SumFunctionOnSet(out, Account) + SumFunctionOnSet(in, Account)
  BY <1>0, <1>4, SumAdd
<1>9. SumFunctionOnSet(c, Account) = SumFunctionOnSet(b, Account) + SumFunctionOnSet(moved, Account)
  BY <1>0, <1>5, SumAdd
<1>10. SumFunctionOnSet(b, Account) \in Int
  BY <1>0, <1>5, SumType, Zenon
<1>11. SumFunctionOnSet(c, Account) = SumFunctionOnSet(b, Account)
  BY <1>2, <1>6, <1>7, <1>8, <1>9, <1>10
<1> QED
  BY <1>11, Zenon DEF SumFunction

\* Drops that are taken from one account are taken from the sum.
LEMMA TakenSum ==
    ASSUME NEW b \in [Account -> Nat], NEW c \in [Account -> Nat], NEW a \in Account, NEW n \in Nat,
           c[a] = b[a] - n, \A x \in Account \ {a} : c[x] = b[x]
    PROVE  SumFunction(c) = SumFunction(b) - n
<1> DEFINE out == [x \in Account |-> IF x \in {a} THEN -n ELSE 0]
<1>0. IsFiniteSet(Account) /\ {a} \subseteq Account
  BY RewardAssumption, Zenon
<1>1. -n \in Int /\ Cardinality({a}) = 1
  <2>1. -n \in Int
    OBVIOUS
  <2>2. Cardinality({a}) = 1
    BY FS_Singleton, Zenon
  <2> QED BY <2>1, <2>2, Zenon
<1>2. \A x \in Account : out[x] = IF x \in {a} THEN -n ELSE 0
  BY Zenon
<1>3. \A x \in Account : b[x] \in Int /\ out[x] \in Int /\ c[x] = b[x] + out[x]
  OBVIOUS
<1> HIDE DEF out
<1>4. SumFunctionOnSet(out, Account) = Cardinality({a}) * (-n)
  BY <1>0, <1>1, <1>2, SumIndicator, Zenon
<1>5. SumFunctionOnSet(c, Account) = SumFunctionOnSet(b, Account) + SumFunctionOnSet(out, Account)
  BY <1>0, <1>3, SumAdd
<1>6. SumFunctionOnSet(b, Account) \in Int
  BY <1>0, <1>3, SumType, Zenon
<1>7. SumFunctionOnSet(c, Account) = SumFunctionOnSet(b, Account) - n
  BY <1>1, <1>4, <1>5, <1>6
<1> QED
  BY <1>7, Zenon DEF SumFunction

\* GenesisMint adds to the accounts what it adds to the header.
LEMMA MintedSum ==
    ASSUME NEW b \in [Account -> Nat], NEW c \in [Account -> Nat], NEW m \in Mint,
           \A x \in Account : c[x] = b[x] + Minted(m, x)
    PROVE  SumFunction(c) = SumFunction(b) + DropsAdded(m) /\ DropsAdded(m) \in Int
<1> DEFINE paid == [x \in Account |-> IF x \in {m.by} THEN m.drops ELSE 0]
           shared == [x \in Account |-> IF x \in m.active THEN Share(m) ELSE 0]
           minted == [x \in Account |-> paid[x] + shared[x]]
<1>0. IsFiniteSet(Account) /\ Member \subseteq Account
  BY RewardAssumption, Zenon
<1>1. m.drops \in Nat /\ m.by \in Account /\ m.active \subseteq Account
  BY <1>0, Zenon DEF Mint
<1>2. Share(m) \in Nat
  BY <1>1, QuotientBound, RewardAssumption, Zenon DEF Share
<1>3. Cardinality({m.by}) = 1
  BY FS_Singleton, Zenon
<1>4. Cardinality(m.active) \in Nat
  BY <1>0, <1>1, FS_Subset, FS_CardinalityType, Zenon
<1>5. /\ \A x \in Account : paid[x] = IF x \in {m.by} THEN m.drops ELSE 0
      /\ \A x \in Account : shared[x] = IF x \in m.active THEN Share(m) ELSE 0
      /\ {m.by} \subseteq Account
  BY <1>1, Zenon
<1>6. \A x \in Account : paid[x] \in Int /\ shared[x] \in Int /\ minted[x] = paid[x] + shared[x]
  BY <1>1, <1>2
<1>7. \A x \in Account : minted[x] = Minted(m, x)
  BY Zenon DEF Minted
<1> HIDE DEF paid, shared, minted
<1>8. \A x \in Account : b[x] \in Int /\ minted[x] \in Int /\ c[x] = b[x] + minted[x]
  BY <1>6, <1>7
<1>9. m.drops \in Int /\ Share(m) \in Int
  BY <1>1, <1>2
<1>10. SumFunctionOnSet(paid, Account) = 1 * m.drops
  BY <1>0, <1>3, <1>5, <1>9, SumIndicator
<1>11. SumFunctionOnSet(shared, Account) = Cardinality(m.active) * Share(m)
  BY <1>0, <1>1, <1>5, <1>9, SumIndicator
<1>12. SumFunctionOnSet(minted, Account) = SumFunctionOnSet(paid, Account) + SumFunctionOnSet(shared, Account)
  BY <1>0, <1>6, SumAdd
<1>13. SumFunctionOnSet(c, Account) = SumFunctionOnSet(b, Account) + SumFunctionOnSet(minted, Account)
  BY <1>0, <1>8, SumAdd
<1>14. Cardinality(m.active) * Share(m) \in Int
  BY <1>2, <1>4
<1>15. /\ SumFunctionOnSet(c, Account) = SumFunctionOnSet(b, Account) + DropsAdded(m)
       /\ DropsAdded(m) \in Int
  BY <1>9, <1>10, <1>11, <1>12, <1>13, <1>14 DEF DropsAdded
<1> QED
  BY <1>15, Zenon DEF SumFunction

\* The header's drops are the sum of all balances in every reachable state: what
\* GenesisMint adds to the header is what it adds to the accounts, also when they are
\* the same account or one that it creates, and a weak fee leaves both.
THEOREM SupplyAlwaysExact ==
    Spec => []SupplyExact
<1>1. ASSUME Inv, SupplyExact, Next, Inv' PROVE SupplyExact'
  <2>0. bal \in [Account -> Nat] /\ bal' \in [Account -> Nat]
    BY <1>1, Zenon DEF Inv, TypeOK
  <2>1. ASSUME NEW a \in Account, NEW dst \in Account, NEW amt \in Amount, Payment(a, dst, amt)
        PROVE  SupplyExact'
    <3>1. bal' = [bal EXCEPT ![a] = @ - amt, ![dst] = @ + amt] /\ a # dst /\ supply' = supply
      BY <2>1, Zenon DEF Payment, Balances
    <3>2. amt \in Nat
      BY RewardAssumption, Zenon
    <3>3. /\ bal'[a] = bal[a] - amt /\ bal'[dst] = bal[dst] + amt
          /\ \A x \in Account \ {a, dst} : bal'[x] = bal[x]
      BY <2>0, <3>1, Zenon
    <3>4. SumFunction(bal') = SumFunction(bal)
      BY <2>0, <3>1, <3>2, <3>3, MovedSum, Zenon
    <3> QED
      BY <1>1, <3>1, <3>4, Zenon DEF SupplyExact
  <2>2. ASSUME NEW a \in Account, NEW dst \in Account, DeleteAccount(a, dst)
        PROVE  SupplyExact'
    <3>1. bal' = [bal EXCEPT ![a] = 0, ![dst] = @ + bal[a]] /\ a # dst /\ supply' = supply
      BY <2>2, Zenon DEF DeleteAccount, Balances
    <3>2. bal[a] \in Nat /\ 0 = bal[a] - bal[a]
      BY <2>0
    <3>3. /\ bal'[a] = bal[a] - bal[a] /\ bal'[dst] = bal[dst] + bal[a]
          /\ \A x \in Account \ {a, dst} : bal'[x] = bal[x]
      BY <2>0, <3>1, <3>2, Zenon
    <3>4. SumFunction(bal') = SumFunction(bal)
      BY <2>0, <3>1, <3>2, <3>3, MovedSum, Zenon
    <3> QED
      BY <1>1, <3>1, <3>4, Zenon DEF SupplyExact
  <2>3. ASSUME NEW m \in mints, GenesisMint(m) PROVE SupplyExact'
    <3>1. m \in Mint
      BY <1>1, Zenon DEF Inv, TypeOK
    <3>2. /\ \A x \in Account : bal'[x] = bal[x] + Minted(m, x)
          /\ supply' = supply + DropsAdded(m)
      BY <2>3, Zenon DEF GenesisMint, Balances
    <3>3. SumFunction(bal') = SumFunction(bal) + DropsAdded(m)
      BY <2>0, <3>1, <3>2, MintedSum, Zenon
    <3> QED
      BY <1>1, <3>2, <3>3, Zenon DEF SupplyExact
  <2>4. ASSUME supply' = supply, bal' = bal PROVE SupplyExact'
    BY <1>1, <2>4, Zenon DEF SupplyExact
  <2>5. ASSUME NEW a, NEW lag, Restart(a, lag) PROVE SupplyExact'
    BY <2>4, <2>5, Zenon DEF Restart
  <2>6. ASSUME NEW a, OptOut(a) PROVE SupplyExact'
    BY <2>4, <2>6, Zenon DEF OptOut
  <2>7. ASSUME NEW m, MintExpires(m) PROVE SupplyExact'
    BY <2>4, <2>7, Zenon DEF MintExpires
  <2>8. ASSUME NEW c, SetConfig(c) PROVE SupplyExact'
    BY <2>4, <2>8, Zenon DEF SetConfig
  <2>9. CASE LedgerClose
    BY <2>4, <2>9, Zenon DEF LedgerClose
  <2>10. ASSUME NEW a \in Collector, NEW fee \in HookFee, WeakFee(a, fee) PROVE SupplyExact'
    <3>1. bal' = [bal EXCEPT ![a] = @ - fee] /\ supply' = supply - fee
      BY <2>10, Zenon DEF WeakFee
    <3>2. fee \in Nat /\ a \in Account
      BY RewardAssumption, Zenon
    <3>3. bal'[a] = bal[a] - fee /\ \A x \in Account \ {a} : bal'[x] = bal[x]
      BY <2>0, <3>1, <3>2, Zenon
    <3>4. SumFunction(bal') = SumFunction(bal) - fee
      BY <2>0, <3>2, <3>3, TakenSum, Zenon
    <3> QED
      BY <1>1, <3>1, <3>4, Zenon DEF SupplyExact
  <2> QED
    BY <1>1, <2>1, <2>2, <2>3, <2>5, <2>6, <2>7, <2>8, <2>9, <2>10, Zenon
    DEF Next, ClaimElsewhere, ClaimSetup, ClaimPaid
<1>2. ASSUME SupplyExact, UNCHANGED vars PROVE SupplyExact'
  BY <1>2, Zenon DEF SupplyExact, vars
<1>3. Init => SupplyExact
  BY Zenon DEF Init, SupplyExact
<1> QED
  BY <1>1, <1>2, <1>3, Invariant, PTL DEF Spec
============================================================================
