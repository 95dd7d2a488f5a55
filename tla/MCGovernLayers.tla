--------------------------- MODULE MCGovernLayers ---------------------------
(* A genesis table of three members, one of which is a table of three.       *)
EXTENDS GovernLayers

CONSTANTS a1, a2, b1, b2, b3, r1, r2, r3

MCMembers == <<a1, a2, Table2>>
MCMembers2 == <<b1, b2, b3>>

\* The reward rate, which only the genesis table can set.
RewardBallot == {<<"R", RR>>}

MCReward == [r \in {RR, RD} |-> r1]
NoTail == [h \in {} |-> h]
=============================================================================
