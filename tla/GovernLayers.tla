---------------------------- MODULE GovernLayers ----------------------------
(***************************************************************************)
(* Two governance tables at work: the genesis table of layer 1, which is   *)
(* GovernTable itself, and a table of layer 2 on the account Table2, which *)
(* sits at the first.  What the members of Table2 carry on a topic of      *)
(* layer 1 becomes an emitted Invoke of the genesis account.  Emission     *)
(* says what may become of it: it is applied in some later ledger, in any  *)
(* order with the others, or it fails.                                     *)
(***************************************************************************)
EXTENDS GovernTable

CONSTANTS
    Table2,    \* the member of layer 1 that is a table of layer 2
    Account2,  \* accounts that may sit at Table2
    Members2   \* hook parameters IS0, IS1, ... of Table2

VARIABLES
    mc2, seat2, forward2, vote2, count2, reward2, hookAt2, emitted2,  \* the state of Table2
    decided    \* history: what enough of Table2 have once stood behind

table2 == <<mc2, seat2, forward2, vote2, count2, reward2, hookAt2, emitted2>>
layers == <<vars, table2, decided>>

L2 == INSTANCE GovernTable WITH
          IsL1 <- FALSE, Account <- Account2, InitialMembers <- Members2,
          mc <- mc2, seat <- seat2, forward <- forward2, vote <- vote2, count <- count2,
          reward <- reward2, hookAt <- hookAt2, emitted <- emitted2

ASSUME LayersAssumption ==
    /\ IsL1
    /\ Table2 \in Account
    /\ Members2 \in Seq(Account2) /\ Len(Members2) \in 1 .. SeatCount

\* The members of Table2 whose stored vote on a topic of layer 1 is d.
Backers(top, d) == {a \in Account2 : vote2[<<a, top, 1>>] = d}

\* What at least two members of Table2, and 51 percent of them rounded down, stand
\* behind now.
Quorate ==
    {<<top, d>> \in Ballot \X RewardValue :
        mc2 # 0 /\ Cardinality(Backers(top, d)) >= L2!Q51(Cardinality(L2!Filled))}

-----------------------------------------------------------------------------
\* An Invoke of the genesis account that its own hook handles: what Table2 can
\* send is an emitted vote, and the others sign theirs.
Layer1 ==
    /\ \/ Setup
       \/ \E k \in VoteKey : k[1] # Table2 /\ VoteAgain(k)
       \/ \E k \in VoteKey : \E d \in TopicData(k[2]) : k[1] # Table2 /\ VoteStep(k, d)
       \/ \E e \in emitted : SetHookApplied(e) \/ EmittedGone(e)
    /\ UNCHANGED <<table2, decided>>

Layer2 ==
    /\ L2!Next
    /\ decided' = decided \cup Quorate'
    /\ UNCHANGED vars

\* The Invoke that Table2 emitted reaches the genesis table: it is rolled back if
\* Table2 has lost its seat, and else sets the table up, repeats or casts a vote.
InvokeApplied(e) ==
    LET k == <<Table2, e.topic, 1>>
    IN  /\ e.type = "Invoke"
        /\ IF mc # 0 /\ forward[Table2] = NoSeat THEN UNCHANGED vars
           ELSE \/ Setup
                \/ vote[k] = e.data /\ VoteAgain(k)
                \/ VoteStep(k, e.data)
        /\ emitted2' = emitted2 \ {e}
        /\ UNCHANGED <<mc2, seat2, forward2, vote2, count2, reward2, hookAt2, decided>>

LayersInit == Init /\ L2!Init /\ decided = {}

LayersNext == Layer1 \/ Layer2 \/ \E e \in emitted2 : InvokeApplied(e)

LayersSpec == LayersInit /\ [][LayersNext]_layers

-----------------------------------------------------------------------------
\* A reward parameter changes only with everyone behind the new value: each
\* seated member has voted for it, and for Table2 the quorum of its own members
\* had at some time, whatever was emitted, delayed, lost or overtaken on the way
\* from layer 2 (VoteRecorded, ActionReward).
RewardBackedByBothLayers ==
    [][mc # 0 /\ reward' # reward =>
          \E top \in Ballot :
              \A n \in Filled :
                  IF seat[n] = Table2 THEN <<top, reward'[top[2]]>> \in decided
                  ELSE vote'[<<seat[n], top, 1>>] = reward'[top[2]]]_layers

\* What Table2 emits is backed by its own members: an Invoke by at least two of
\* their stored votes, less than one vote short of 51 percent of its filled seats,
\* while votes are cast and changed at both tables (VoteRecorded).
InvokeNeedsQuorum ==
    [][\A e \in emitted2' \ emitted2 :
          e.type = "Invoke" =>
              L2!WithinOneVote(Cardinality(Backers(e.topic, e.data)'), 51)]_layers
=============================================================================
