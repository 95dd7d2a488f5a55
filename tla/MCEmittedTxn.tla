--------------------------- MODULE MCEmittedTxn ---------------------------
(* Small networks for TLC.                                                 *)
EXTENDS EmittedTxn, TLC

CONSTANTS n1, n2, n3, t1, t2

TxSymmetry == Permutations(Tx)
NodeSymmetry == Permutations(Node)
BothSymmetry == TxSymmetry \cup NodeSymmetry
=============================================================================
