---------------------------- MODULE GovernTable ----------------------------
(***************************************************************************)
(* One governance table: the hook state that hook/genesis/govern.c keeps   *)
(* on the account it is installed on, and one action per way an Invoke of  *)
(* that account can end.  A rollback (NOPE, ASSERT) discards everything    *)
(* the execution wrote, so the paths that end in one are the guards of the *)
(* actions below and leave the state as it was.                            *)
(*                                                                         *)
(* IsL1 tells the genesis table (layer 1) from a table on another account. *)
(***************************************************************************)
EXTENDS Integers, FiniteSets, Sequences

CONSTANTS
    Account,         \* accounts that may sit at the table
    HookHash,        \* non-zero 32 byte hook hashes members vote for
    RewardValue,     \* 8 byte reward rates and delays members vote for
    Zero,            \* topic data that is all zeros
    Absent,          \* a hook state entry that does not exist
    HashTail,        \* what is left of a hash once its first 4 bytes are dropped
    SeatCount,       \* SEAT_COUNT (20 in the source)
    HookMax,         \* HOOK_MAX (10 in the source)
    IsL1,            \* is_L1_table
    InitialMembers,  \* hook parameters IS0, IS1, ...: IMC is its length
    InitialReward,   \* hook parameters IRR and IRD
    Ballot           \* bound: the topics that are put to a vote

VARIABLES
    mc,       \* state entry MC, 0 while it is absent (a stored MC is never 0)
    seat,     \* reverse keys: seat number -> account, or Absent
    forward,  \* forward keys: account -> seat number, or NoSeat when absent
    vote,     \* V keys: (member, topic, layer) -> topic data, or Absent
    count,    \* C keys: (topic, layer, truncated data) -> votes, 0 when absent
    reward,   \* state entries RR (0) and RD (1)
    hookAt,   \* hook hash installed at each position of the hook account
    emitted   \* emitted transactions that are not applied yet

vars == <<mc, seat, forward, vote, count, reward, hookAt, emitted>>

Seat == 0 .. SeatCount - 1
NoSeat == SeatCount
Layer == {1, 2}

RR == 0
RD == 1

ValidTopic == ({"S"} \X Seat) \cup ({"H"} \X (0 .. HookMax)) \cup ({"R"} \X {RR, RD})

SeatData == Account \cup {Zero}
HookData == HookHash \cup {Zero}
Data == SeatData \cup HookData \cup RewardValue

\* V must be 20, 32 or 8 bytes long, depending on the topic's type.
TopicData(top) ==
    CASE top[1] = "S" -> SeatData
      [] top[1] = "H" -> HookData
      [] top[1] = "R" -> RewardValue

\* The counter key overwrites the first 4 bytes of the 32 byte topic data: they
\* are padding for accounts and rewards, but part of a hook hash.
CountData(d) == IF d \in HookHash THEN HashTail[d] ELSE d

VoteKey == Account \X Ballot \X Layer
CountKey == Ballot \X Layer \X Data

CounterOf(k, d) == <<k[2], k[3], CountData(d)>>

ASSUME TableAssumption ==
    /\ SeatCount \in Nat \ {0}
    /\ HookMax \in Nat \ {0}
    /\ IsL1 \in BOOLEAN
    /\ IsFiniteSet(Account)
    /\ IsFiniteSet(Ballot)
    /\ Ballot \subseteq ValidTopic
    /\ HashTail \in [HookHash -> HookData]
    /\ Zero \notin Account /\ Zero \notin HookHash
    /\ Absent \notin Data

\* The parameters of an installed hook with which the first execution succeeds,
\* and in which no account is given two seats.
ASSUME ParameterAssumption ==
    /\ InitialMembers \in Seq(Account)
    /\ Len(InitialMembers) \in 1 .. SeatCount
    /\ \A i, j \in 1 .. Len(InitialMembers) :
           InitialMembers[i] = InitialMembers[j] => i = j
    /\ InitialReward \in [{RR, RD} -> RewardValue]

-----------------------------------------------------------------------------
(* Thresholds: a product with a double, rounded down, and at least 2.  So  *)
(* 80 percent of 4 is 3, and 51 percent of 4 is 2.                         *)

AtLeast2(q) == IF q < 2 THEN 2 ELSE q
Q80(m) == AtLeast2((m * 80) \div 100)
Q51(m) == AtLeast2((m * 51) \div 100)

\* Mutants of Threshold: the thresholds of seats and other topics swapped, and 51
\* percent enough for every topic, without the minimum of 2.
ThresholdSwapped(top, l, m) == IF top[1] = "S" THEN m ELSE Q80(m)
ThresholdNoMinimum(top, l, m) == (m * 51) \div 100

Threshold(top, l, m) ==
    IF IsL1 \/ l = 2
    THEN IF top[1] = "S" THEN Q80(m) ELSE m
    ELSE Q51(m)

-----------------------------------------------------------------------------
(* Casting a vote.                                                         *)

\* Mutant of Withdrawn: the previous vote keeps being counted.
WithdrawnNever(k) == count

\* The counter of the member's previous vote, if there is one, goes down.
Withdrawn(k) ==
    IF vote[k] = Absent THEN count
    ELSE [count EXCEPT ![CounterOf(k, vote[k])] = @ - 1]

\* The counter of the new vote is one byte wide.
Tallied(k, d) ==
    [Withdrawn(k) EXCEPT ![CounterOf(k, d)] = (@ + 1) % 256]

\* The checks between the setup test and the threshold test: the invoker is a
\* member, the layer fits table and topic, and the old counter can be taken
\* from.  A vote identical to the previous one ends the execution instead.
MayCast(k, d) ==
    /\ mc # 0
    /\ forward[k[1]] # NoSeat
    /\ IsL1 => k[3] = 1
    /\ k[3] = 2 => k[2][1] # "R"
    /\ vote[k] # d
    /\ vote[k] # Absent => count[CounterOf(k, vote[k])] > 0

Enough(k, d) == Tallied(k, d)[CounterOf(k, d)] >= Threshold(k[2], k[3], mc)

Cast(k, d) ==
    /\ MayCast(k, d)
    /\ vote' = [vote EXCEPT ![k] = d]
    /\ count' = Tallied(k, d)

\* A vote that reaches its threshold on a topic of this table.
Carried(k, d) == Enough(k, d) /\ (IsL1 \/ k[3] = 2)

-----------------------------------------------------------------------------
Init ==
    /\ mc = 0
    /\ seat = [n \in Seat |-> Absent]
    /\ forward = [a \in Account |-> NoSeat]
    /\ vote = [k \in VoteKey |-> Absent]
    /\ count = [c \in CountKey |-> 0]
    /\ reward = [r \in {RR, RD} |-> Absent]
    /\ hookAt \in [0 .. HookMax - 1 -> HookData]
    /\ emitted = {}

\* The first execution stores MC, the reward parameters (layer 1 only) and both
\* keys of every initial member.
Setup ==
    /\ mc = 0
    /\ mc' = Len(InitialMembers)
    /\ seat' = [n \in Seat |-> IF n < Len(InitialMembers)
                               THEN InitialMembers[n + 1] ELSE seat[n]]
    /\ forward' = [a \in Account |->
                     IF \E n \in 0 .. Len(InitialMembers) - 1 : InitialMembers[n + 1] = a
                     THEN CHOOSE n \in 0 .. Len(InitialMembers) - 1 :
                              InitialMembers[n + 1] = a
                     ELSE forward[a]]
    /\ reward' = IF IsL1 THEN InitialReward ELSE reward
    /\ UNCHANGED <<vote, count, hookAt, emitted>>

\* "Your vote is already cast this way for this topic."
VoteAgain(k) ==
    /\ mc # 0
    /\ forward[k[1]] # NoSeat
    /\ vote[k] # Absent
    /\ UNCHANGED vars

\* The vote is recorded and carries nothing at this table.  A table of layer 2 that
\* has voted on a topic of layer 1 emits its own vote as an Invoke of the genesis
\* account.
VoteRecorded(k, d) ==
    /\ Cast(k, d)
    /\ ~Carried(k, d)
    /\ emitted' = emitted \cup
                    (IF Enough(k, d) THEN {[type |-> "Invoke", topic |-> k[2], data |-> d]} ELSE {})
    /\ UNCHANGED <<mc, seat, forward, reward, hookAt>>

\* case 'R'
ActionReward(k, d) ==
    /\ k[2][1] = "R"
    /\ Cast(k, d)
    /\ Carried(k, d)
    /\ reward' = [reward EXCEPT ![k[2][2]] = d]
    /\ UNCHANGED <<mc, seat, forward, hookAt, emitted>>

\* case 'H': the position already holds this hook.
HookUnchanged(k, d) ==
    /\ k[2][1] = "H"
    /\ Cast(k, d)
    /\ Carried(k, d)
    /\ k[2][2] < HookMax /\ d # Zero /\ hookAt[k[2][2]] = d
    /\ UNCHANGED <<mc, seat, forward, reward, hookAt, emitted>>

\* case 'H': a SetHook is emitted.  The hash must have a hook definition on the
\* ledger; whether it has is the environment's choice.
ActionHook(k, d) ==
    /\ k[2][1] = "H"
    /\ Cast(k, d)
    /\ Carried(k, d)
    /\ ~(k[2][2] < HookMax /\ d # Zero /\ hookAt[k[2][2]] = d)
    /\ emitted' = emitted \cup {[type |-> "SetHook", topic |-> k[2], data |-> d]}
    /\ UNCHANGED <<mc, seat, forward, reward, hookAt>>
-----------------------------------------------------------------------------
(* case 'S'                                                                *)

\* The member the data names already has a seat.  (An all-zero id is the key of
\* seat 0, whose 20 bytes do not fit an integer, so it never counts as moving.)
Moving(d) == d \in Account /\ forward[d] # NoSeat

\* Mutant of NewCount: row 0 0 1 of the table (a member moves onto a filled seat)
\* left at MC.
NewCountMoveIgnored(n, d) ==
    CASE seat[n] # Absent /\ d = Zero -> mc - 1
      [] seat[n] = Absent /\ d # Zero /\ ~Moving(d) -> mc + 1
      [] OTHER -> mc

\* The logic table E|Z|M of the source.
NewCount(n, d) ==
    CASE seat[n] # Absent /\ (d = Zero \/ Moving(d)) -> mc - 1
      [] seat[n] = Absent /\ d # Zero /\ ~Moving(d) -> mc + 1
      [] OTHER -> mc

\* The layer byte of the V keys the collection loop looks up.  The loop never
\* writes it: in the build under src/ripple/app/hook/xahau.h it is part of a
\* stack slot that is still zero.
CollectedLayer == 0

\* The votes the loop finds: those stored as 32 bytes (hook topics).
Collected(a) ==
    {k \in VoteKey : k[1] = a /\ k[2][1] = "H" /\ k[2][2] < HookMax /\ k[3] = CollectedLayer
                     /\ vote[k] # Absent}

\* The seat already contains the new member.  For a deletion in an empty seat
\* the comparison reads an uninitialised buffer that is zero in most executions.
SeatUnchanged(k, d) ==
    /\ k[2][1] = "S"
    /\ Cast(k, d)
    /\ Carried(k, d)
    /\ seat[k[2][2]] = IF d = Zero THEN Absent ELSE d
    /\ UNCHANGED <<mc, seat, forward, reward, hookAt, emitted>>

\* The reverse keys once the moving member, then the old occupant are deleted and
\* the new occupant is added.
SeatKeys(n, d) ==
    [s \in Seat |-> IF s = n THEN IF d = Zero THEN Absent ELSE d
                    ELSE IF Moving(d) /\ s = forward[d] THEN Absent
                    ELSE seat[s]]

\* Mutant of MemberKeys: the old occupant's forward key stays.
MemberKeysKept(n, d) == [a \in Account |-> IF a = d THEN n ELSE forward[a]]

\* The forward keys after the same deletions and addition.
MemberKeys(n, d) ==
    [a \in Account |-> IF a = d THEN n
                       ELSE IF a = seat[n] THEN NoSeat
                       ELSE forward[a]]

MayShrinkTo(m) == m > 1

ActionSeat(k, d) ==
    LET n == k[2][2]
    IN  /\ k[2][1] = "S"
        /\ MayCast(k, d)
        /\ Carried(k, d)
        /\ seat[n] # d
        /\ MayShrinkTo(NewCount(n, d))
        /\ mc' = NewCount(n, d)
        /\ seat' = SeatKeys(n, d)
        /\ forward' = MemberKeys(n, d)
        /\ vote' = [v \in VoteKey |-> IF v \in Collected(seat[n]) THEN Absent
                                      ELSE IF v = k THEN d ELSE vote[v]]
        /\ count' = Tallied(k, d)
        /\ UNCHANGED <<reward, hookAt, emitted>>

-----------------------------------------------------------------------------
(* What becomes of the emitted transactions, outside the hook.             *)

\* The SetHook is applied to the hook account.  HookMax is accepted as a
\* position, and then no position is changed.
SetHookApplied(e) ==
    /\ e.type = "SetHook"
    /\ hookAt' = [p \in 0 .. HookMax - 1 |-> IF p = e.topic[2] THEN e.data ELSE hookAt[p]]
    /\ emitted' = emitted \ {e}
    /\ UNCHANGED <<mc, seat, forward, vote, count, reward>>

\* An emitted transaction leaves the table: a failed SetHook, or an Invoke that
\* is applied to the genesis account or expires.
EmittedGone(e) ==
    /\ emitted' = emitted \ {e}
    /\ UNCHANGED <<mc, seat, forward, vote, count, reward, hookAt>>

-----------------------------------------------------------------------------
VoteStep(k, d) ==
    \/ VoteRecorded(k, d)
    \/ ActionReward(k, d)
    \/ HookUnchanged(k, d)
    \/ ActionHook(k, d)
    \/ SeatUnchanged(k, d)
    \/ ActionSeat(k, d)

Next ==
    \/ Setup
    \/ \E k \in VoteKey : VoteAgain(k)
    \/ \E k \in VoteKey : \E d \in TopicData(k[2]) : VoteStep(k, d)
    \/ \E e \in emitted : SetHookApplied(e) \/ EmittedGone(e)

Spec == Init /\ [][Next]_vars

-----------------------------------------------------------------------------
(* Properties                                                              *)

Emission == [type : {"Invoke", "SetHook"}, topic : Ballot, data : Data]

\* Every state entry holds a value of the width and kind govern.c writes there.
TypeOK ==
    /\ mc \in 0 .. SeatCount
    /\ seat \in [Seat -> Account \cup {Absent}]
    /\ forward \in [Account -> Seat \cup {NoSeat}]
    /\ vote \in [VoteKey -> Data \cup {Absent}]
    /\ \A k \in VoteKey : vote[k] \in TopicData(k[2]) \cup {Absent}
    /\ count \in [CountKey -> 0 .. 255]
    /\ reward \in [{RR, RD} -> RewardValue \cup {Absent}]
    /\ hookAt \in [0 .. HookMax - 1 -> HookData]
    /\ emitted \subseteq Emission
    /\ \A e \in emitted : e.type = "SetHook" => e.data \in HookData

\* The reverse keys and the forward keys describe the same seating: an account
\* is recorded on a seat exactly when that seat records the account, whatever
\* sequence of additions, replacements, moves and removals led here.
SeatingConsistent ==
    \A a \in Account, n \in Seat : seat[n] = a <=> forward[a] = n

Filled == {n \in Seat : seat[n] # Absent}

\* The stored member count MC, from which all thresholds are computed, is the
\* number of filled seats after every branch of the E|Z|M table.
MemberCountExact == mc = Cardinality(Filled)

\* The stored votes that counter c counts.
Voters(c) ==
    {k \in Account \X {c[1]} \X {c[2]} : vote[k] # Absent /\ CountData(vote[k]) = c[3]}

\* Every vote counter holds (modulo its one byte) the number of stored votes it
\* counts: decrements and increments of changed votes never drift apart.
TallyExact == \A c \in CountKey : count[c] = Cardinality(Voters(c)) % 256

\* The votes are within one vote of a share of the filled seats, and at least two:
\* what a truncated product that is never below 2 asks for.
WithinOneVote(votes, percent) ==
    votes >= 2 /\ 100 * (votes + 1) > percent * Cardinality(Filled)

\* A change of the seating is backed by stored votes for it on one seat topic: at
\* least two, and less than one vote short of 80 percent of the seats that were
\* filled before it (q80 in govern.c is truncated, so 3 of 4 are enough).
SeatingNeedsQuorum ==
    [][(mc # 0 /\ seat' # seat) =>
          \E k \in VoteKey, d \in SeatData :
              /\ k[2][1] = "S"
              /\ seat'[k[2][2]] = IF d = Zero THEN Absent ELSE d
              /\ WithinOneVote(Cardinality(Voters(CounterOf(k, d))'), 80)]_vars

\* "At L1, for votes relating to table membership 80% of the filled seats must vote
\* in favour": the stored votes behind a change of the seating are 80 percent.
SeatingNeedsEightyPercent ==
    [][(mc # 0 /\ seat' # seat) =>
          \E k \in VoteKey, d \in SeatData :
              /\ k[2][1] = "S"
              /\ seat'[k[2][2]] = IF d = Zero THEN Absent ELSE d
              /\ 100 * Cardinality(Voters(CounterOf(k, d))') >= 80 * Cardinality(Filled)]_vars

\* An emitted transaction is backed by stored votes for its topic and data: one per
\* filled seat for a SetHook; for a vote on layer 1 at least two, and less than one
\* vote short of 51 percent of the filled seats (half of a table of four is enough).
EmissionNeedsQuorum ==
    [][\A e \in emitted' \ emitted :
          \E k \in VoteKey :
              /\ k[2] = e.topic
              /\ LET votes == Cardinality(Voters(CounterOf(k, e.data))')
                 IN  IF e.type = "SetHook" THEN votes >= Cardinality(Filled)
                     ELSE WithinOneVote(votes, 51)]_vars

\* "At L1, for votes relating to everything else 100% of the filled seats must
\* vote in favour": a reward change finds every seated account's vote for it.
RewardNeedsEveryMember ==
    [][(mc # 0 /\ reward' # reward) =>
          \E top \in Ballot :
              /\ top[1] = "R"
              /\ \A n \in Filled : vote'[<<seat[n], top, 1>>] = reward'[top[2]]]_vars
=============================================================================
