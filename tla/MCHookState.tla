----------------------------- MODULE MCHookState -----------------------------
(* Few accounts and slots for TLC.                                         *)
EXTENDS HookState

\* The hooks of account 1 may write the state of account 2.
GrantToFirst == {<<1, 2, n>> : n \in Namespace}

\* Bound: hooks touch one slot of account 1 and three of account 2, which are in two
\* namespaces.  No state in which the map holds another slot is explored further.
Touched == {<<1, 1, 1>>, <<2, 1, 1>>, <<2, 1, 2>>, <<2, 2, 1>>}
FourSlots == \A p \in Place \ Touched : ~Cached(p[1], <<p[2], p[3]>>)
=============================================================================
