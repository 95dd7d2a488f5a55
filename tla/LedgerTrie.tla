----------------------------- MODULE LedgerTrie -----------------------------
(* The compressed trie of validated ledgers (consensus/LedgerTrie.h), with *)
(* the ledgers of RCLValidations.cpp.  A ledger is its ID, a number, of    *)
(* which only the order matters; its history is the IDs of its ancestors   *)
(* from sequence 1 up to itself, and 0 is the genesis ledger of sequence 0.*)
(* A ledger knows the IDs of its last MaxAncestors ancestors only.         *)
EXTENDS Integers, Sequences, FiniteSets, FiniteSetsExt, Functions, TLC

CONSTANTS
    History,
    MaxAncestors    \* the length of the skip list (256 in the source)

Ledger == DOMAIN History

ASSUME HistoryAssumption ==
    /\ MaxAncestors \in Nat
    /\ \A l \in Ledger :
           /\ History[l] # <<>> /\ l > 0 /\ History[l][Len(History[l])] = l
           /\ \A s \in DOMAIN History[l] :
                  History[l][s] \in Ledger /\ History[History[l][s]] = SubSeq(History[l], 1, s)

SeqOf(l) == IF l = 0 THEN 0 ELSE Len(History[l])
Depth == Max({SeqOf(l) : l \in Ledger})

\* a is l or an ancestor of it, known to l or not.
Chain == [l \in Ledger \cup {0} |-> {0} \cup (IF l = 0 THEN {} ELSE Range(History[l]))]
IsAncestor(a, l) == a \in Chain[l]

\* The ledgers that l knows: itself and its last ancestors, from minSeq() on.
Known ==
    [l \in Ledger \cup {0} |->
        IF l = 0 THEN {0} ELSE {History[l][s] : s \in Max({1, SeqOf(l) - MaxAncestors}) .. SeqOf(l)}]

\* The ledger's ancestor of sequence s (operator[]); 0 if it is not known.
Ancestor(l, s) == IF s # 0 /\ History[l][s] \in Known[l] THEN History[l][s] ELSE 0

\* The first sequence at which they may differ: everything after the genesis ledger
\* if they share nothing that both know.
Mismatch(a, b) == Max({0} \cup {SeqOf(x) : x \in Known[a] \cap Known[b]}) + 1

-----------------------------------------------------------------------------
\* A node is named by the tip of its span; a span starts at some sequence, ends
\* after the tip, and is looked up in a ledger that is the tip or descends from it.
\* The root keeps the span of the genesis ledger.
EmptyTrie ==
    [node |-> [l \in {0} |-> [ledger |-> 0, start |-> 0, tips |-> 0, branch |-> 0, parent |-> 0]],
     seqSupport |-> [s \in 1 .. Depth |-> 0]]

End(k) == SeqOf(k) + 1
Children(t, k) == {c \in DOMAIN t.node \ {0} : t.node[c].parent = k}

\* Span::diff, clamped to the span.
Diff(t, k, l) == Max({t.node[k].start, Min({Mismatch(t.node[k].ledger, l), End(k)})})

\* The node of the longest common ancestry with l, below k.
RECURSIVE Find(_, _, _)
Find(t, l, k) ==
    LET longer == {c \in Children(t, k) : Diff(t, c, l) > Diff(t, k, l)}
    IN  IF Diff(t, k, l) = End(k) /\ longer # {} THEN Find(t, l, CHOOSE c \in longer : TRUE) ELSE k

\* k and the nodes above it.
RECURSIVE Lineage(_, _)
Lineage(t, k) == IF k = 0 THEN {0} ELSE {k} \cup Lineage(t, t.node[k].parent)

\* Add n to the support of node k, and to its branch.
Supported(t, k, n) ==
    LET up == Lineage(t, k)
    IN  [node |-> [x \in DOMAIN t.node |->
                      [t.node[x] EXCEPT !.tips = IF x = k THEN @ + n ELSE @,
                                        !.branch = IF x \in up THEN @ + n ELSE @]],
         seqSupport |-> [t.seqSupport EXCEPT ![SeqOf(k)] = @ + n]]

\* The node loc is cut before the sequence d; the new lower node keeps its tip.
Split(t, loc, d) ==
    LET old == t.node[loc]
        p == Ancestor(old.ledger, d - 1)
    IN  [t EXCEPT !.node =
            [x \in DOMAIN t.node \cup {p} |->
                CASE x = p -> [old EXCEPT !.tips = 0]
                  [] x = loc -> [old EXCEPT !.start = d, !.parent = p]
                  [] OTHER -> t.node[x]]]

Insert(t, l) ==
    LET loc == Find(t, l, 0)
        d == Diff(t, loc, l)
        cut == d < End(loc)
        t1 == IF cut THEN Split(t, loc, d) ELSE t
        above == IF cut THEN Ancestor(t.node[loc].ledger, d - 1) ELSE loc
        leaf == [ledger |-> l, start |-> d, tips |-> 0, branch |-> 0, parent |-> above]
        t2 == IF d < End(l) THEN [t1 EXCEPT !.node = (l :> leaf) @@ @] ELSE t1
    IN  Supported(t2, l, 1)

\* Mutant of Compressed: a node that has lost its support and one of two children
\* is not joined with the other one.
CompressedOnce(t, k) ==
    IF k # 0 /\ t.node[k].tips = 0 /\ Children(t, k) = {}
    THEN [t EXCEPT !.node = Restrict(@, DOMAIN @ \ {k})] ELSE t

\* Nodes without support and with less than two children disappear, upwards.
RECURSIVE Compressed(_, _)
Compressed(t, k) ==
    LET kids == Children(t, k)
        up == t.node[k].parent
        joined == [x \in DOMAIN t.node \ {k} |->
                      IF x \in kids THEN [t.node[x] EXCEPT !.start = t.node[k].start, !.parent = up]
                      ELSE t.node[x]]
    IN  IF k = 0 \/ t.node[k].tips > 0 \/ Cardinality(kids) > 1 THEN t
        ELSE Compressed([t EXCEPT !.node = joined], up)

Remove(t, l) ==
    IF l \notin DOMAIN t.node THEN t
    ELSE IF t.node[l].tips = 0 THEN t
    ELSE Compressed(Supported(t, l, -1), l)

BranchSupport(t, l) ==
    LET loc == Find(t, l, 0)
    IN  IF l \in DOMAIN t.node THEN t.node[l].branch
        ELSE IF Diff(t, loc, l) > SeqOf(l) /\ SeqOf(l) < End(loc) THEN t.node[loc].branch ELSE 0

TipSupport(t, l) == IF l \in DOMAIN t.node THEN t.node[l].tips ELSE 0

-----------------------------------------------------------------------------
\* The support of sequences below at, the ones that the walk has passed.
Uncommitted(t, at) == MapThenSumSet(LAMBDA s : t.seqSupport[s], {s \in 1 .. Depth : s < at})

\* Along the span of k: where the walk stops, and what it has passed.  It pauses after
\* each sequence that has support.
Along(t, k, next, at) ==
    LET pauses == {at} \cup {s + 1 : s \in {c \in at .. SeqOf(k) : t.seqSupport[c] > 0}}
        blocked == {q \in pauses : t.node[k].branch <= Uncommitted(t, q)}
    IN  IF next >= End(k) \/ at \in blocked THEN <<next, at>>
        ELSE IF blocked # {} THEN <<Min(blocked), Min(blocked)>>
        ELSE <<End(k), Max(pauses)>>

\* The first ledger of the span of node k.
StartID(t, k) == Ancestor(t.node[k].ledger, t.node[k].start)

\* By branch support, then by the first ID.
Better(t, a, b) ==
    \/ t.node[a].branch > t.node[b].branch
    \/ t.node[a].branch = t.node[b].branch /\ StartID(t, a) > StartID(t, b)

Best(t, kids) == CHOOSE a \in kids : \A b \in kids \ {a} : Better(t, a, b)

\* Mutant of Margin: the tie-breaker is left out.
MarginEven(t, kids) ==
    LET best == Best(t, kids)
    IN  IF Cardinality(kids) = 1 THEN t.node[best].branch
        ELSE t.node[best].branch - t.node[Best(t, kids \ {best})].branch

Margin(t, kids) ==
    LET best == Best(t, kids)
        second == Best(t, kids \ {best})
    IN  IF Cardinality(kids) = 1 THEN t.node[best].branch
        ELSE t.node[best].branch - t.node[second].branch
             + (IF StartID(t, best) > StartID(t, second) THEN 1 ELSE 0)

RECURSIVE Walk(_, _, _, _)
Walk(t, largestIssued, k, at) ==
    LET next == t.node[k].start + 1
        reached == Along(t, k, next, Max({at, next, largestIssued}))
        kids == Children(t, k)
        open == Uncommitted(t, reached[2])
    IN  IF reached[1] < End(k) THEN Ancestor(t.node[k].ledger, reached[1] - 1)
        ELSE IF kids # {} /\ (Margin(t, kids) > open \/ open = 0)
             THEN Walk(t, largestIssued, Best(t, kids), reached[2])
        ELSE k

\* The preferred ledger of a trie that is not empty.
GetPreferred(t, largestIssued) == Walk(t, largestIssued, 0, 0)
=============================================================================
