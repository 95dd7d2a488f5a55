--------------------------- MODULE MCGovernTable ---------------------------
(* Small governance tables for TLC.                                        *)
EXTENDS GovernTable

CONSTANTS a1, a2, a3, a4, h1, r1, r2

ThreeMembers == <<a1, a2, a3>>
FourMembers == <<a1, a2, a3, a4>>

\* Topics on the ballot: a seat, a hook position and the reward rate.
FullBallot == {<<"S", 3>>, <<"H", 0>>, <<"R", RR>>}
SeatBallot == {<<"S", 3>>}
RewardBallot == {<<"S", 2>>, <<"R", RR>>}

MCReward == [r \in {RR, RD} |-> r1]

\* A hash of 4 non-zero bytes followed by zeros shares the counter of Zero.
MCTail == [h \in HookHash |-> Zero]

\* Bound: no state with votes on both the hook and the reward rate is explored
\* further.  Their votes and counters have no key in common.
OneTopicBesideSeats ==
    \/ \A k \in VoteKey : k[2][1] = "H" => vote[k] = Absent
    \/ \A k \in VoteKey : k[2][1] = "R" => vote[k] = Absent

\* Bound: the last seat is voted to its first occupant a4, to the occupant a1 of
\* another seat, or to nobody, and a4 votes on nothing else.
FewVotes ==
    /\ OneTopicBesideSeats
    /\ \A k \in VoteKey :
           vote[k] \in IF k[2][1] = "S" THEN {Absent, Zero, a1, a4}
                       ELSE IF k[1] = a4 THEN {Absent} ELSE {Absent} \cup Data
=============================================================================
