---------------------------- MODULE Validations ----------------------------
(* The validations that a node keeps and the ledger it prefers             *)
(* (consensus/Validations.h), with the trust that RCLValidations.cpp and   *)
(* NetworkOPs.cpp give to validators.  The trie is that of LedgerTrie.  A  *)
(* node's network time and steady clock are one clock.                     *)
EXTENDS LedgerTrie

CONSTANTS
    Node,           \* the validators that are listed
    Recent,         \* the ledgers that may be validated
    Early, Wall,    \* validationCURRENT_EARLY, validationCURRENT_WALL
    SetExpires,     \* validationSET_EXPIRES
    Setups,         \* the bounds of a behaviour, see setup
    None

ASSUME ValidationAssumption == {Early, Wall, SetExpires} \subseteq Nat

\* Any two of these ledgers know where their chains part: no validator is more than
\* MaxAncestors behind another, and no fork is older.
ASSUME RecentAssumption ==
    /\ Recent \subseteq Ledger
    /\ \A a, b \in Recent : Known[a] \cap Known[b] # {}

VARIABLES
    setup,          \* the validators that are heard, which of them are fickle (may enter
                    \* and leave the UNL) and late (their validations may be delayed),
                    \* the ledgers held from the start, the sequences that this node may
                    \* validate, and the last time
    now,
    available,      \* the ledgers that are at hand (LedgerMaster)
    unl,            \* the validators that are trusted (ValidatorList)
    change,         \* a validator whose change of trust Validations has not heard of
    arrived,        \* a validation with the trust it was given, before it is added
    enforcer,       \* seqEnforcers_: the largest sequence of a validator, and when
    issued,         \* localSeqEnforcer_
    current,        \* current_: the latest validation of a validator
    tracked         \* lastLedger_, acquiring_ and trie_

vars == <<setup, now, available, unl, change, arrived, enforcer, issued, current, tracked>>

Fun0 == [x \in {} |-> None]
With(f, x, v) == [y \in DOMAIN f \cup {x} |-> IF y = x THEN v ELSE f[y]]
Without(f, x) == Restrict(f, DOMAIN f \ {x})

IsCurrent(sign) == sign > now - Early /\ sign < now + Wall

\* SeqEnforcer: the state after sequence s was tried; it is accepted if it is stored.
Accepts(e, s) == s > (IF now > e.when + SetExpires THEN 0 ELSE e.seq)
Enforced(e, s) ==
    IF Accepts(e, s) THEN [seq |-> s, when |-> now]
    ELSE [e EXCEPT !.seq = IF now > e.when + SetExpires THEN 0 ELSE @]

-----------------------------------------------------------------------------
\* updateTrie for a ledger that is at hand.
Tracked(v, n, l) ==
    [v EXCEPT !.last = With(@, n, l),
              !.trie = Insert(IF n \in DOMAIN v.last THEN Remove(@, v.last[n]) ELSE @, l)]

\* removeTrie.
Dropped(v, n, val) ==
    LET known == n \in DOMAIN v.last /\ v.last[n] = val.ledger
    IN  [acquiring |-> v.acquiring \ {<<val.ledger, n>>},
         last |-> IF known THEN Without(v.last, n) ELSE v.last,
         trie |-> IF known THEN Remove(v.trie, v.last[n]) ELSE v.trie]

\* checkAcquired, which goes through the ledgers at hand in some order.
Orders(S) == {f \in [1 .. Cardinality(S) -> S] : IsInjective(f)}

RECURSIVE TrackedAll(_, _)
TrackedAll(v, order) ==
    IF order = <<>> THEN v
    ELSE LET l == Head(order)
             nodes == {n \in Node : <<l, n>> \in v.acquiring}
             w == FoldSet(LAMBDA n, u : Tracked(u, n, l), v, nodes)
         IN  TrackedAll([w EXCEPT !.acquiring = @ \ ({l} \X Node)], Tail(order))

CheckAcquired(v) ==
    {TrackedAll(v, order) : order \in Orders({p[1] : p \in v.acquiring} \cap available)}

\* Mutant of UpdateTrie: the ledger of the validation before stays awaited.
UpdateTriePriorKept(v, n, val, prior) ==
    {IF val.ledger \in available THEN Tracked(w, n, val.ledger)
     ELSE [w EXCEPT !.acquiring = @ \cup {<<val.ledger, n>>}] : w \in CheckAcquired(v)}

\* updateTrie for a trusted validation; prior is the ledger of the one before.
UpdateTrie(v, n, val, prior) ==
    {IF \E p \in w.acquiring : p[1] = val.ledger
     THEN [w EXCEPT !.acquiring = @ \cup {<<val.ledger, n>>}]
     ELSE IF val.ledger \in available THEN Tracked(w, n, val.ledger)
     ELSE [w EXCEPT !.acquiring = @ \cup {<<val.ledger, n>>}] :
        w \in CheckAcquired([v EXCEPT !.acquiring = @ \ {<<prior, n>>}])}

-----------------------------------------------------------------------------
\* handleNewValidation reads the UNL, and add whether the validation is current,
\* before the lock is taken.
Receive(n, l, sign) ==
    /\ arrived = None
    /\ IsCurrent(sign)
    /\ arrived' = [node |-> n, val |-> [ledger |-> l, sign |-> sign, trusted |-> n \in unl]]
    /\ UNCHANGED <<setup, now, available, unl, change, enforcer, issued, current, tracked>>

\* add, under the lock.
Add(n, val) ==
    LET s == SeqOf(val.ledger)
        newer == n \notin DOMAIN current \/ val.sign > current[n].sign
        prior == IF n \in DOMAIN current THEN current[n].ledger ELSE None
        stored == Accepts(enforcer[n], s) /\ newer
    IN  /\ enforcer' = [enforcer EXCEPT ![n] = Enforced(@, s)]
        /\ current' = IF stored THEN With(current, n, val) ELSE current
        /\ IF stored /\ val.trusted THEN tracked' \in UpdateTrie(tracked, n, val, prior)
           ELSE tracked' = tracked
        /\ UNCHANGED <<setup, now, available, unl, change, issued>>

AddLate == arrived # None /\ Add(arrived.node, arrived.val) /\ arrived' = None

\* A validation that is added as soon as it is signed.
AddPrompt(n, l) ==
    /\ IsCurrent(now)
    /\ Add(n, [ledger |-> l, sign |-> now, trusted |-> n \in unl])
    /\ UNCHANGED arrived

\* NetworkOPs::beginConsensus updates the UNL, then tells Validations.
UpdateTrusted(n) ==
    /\ change = None
    /\ unl' = IF n \in unl THEN unl \ {n} ELSE unl \cup {n}
    /\ change' = n
    /\ UNCHANGED <<setup, now, available, arrived, enforcer, issued, current, tracked>>

TrustChanged ==
    /\ change # None
    /\ LET val == IF change \in DOMAIN current THEN current[change] ELSE None
       IN  IF val = None THEN UNCHANGED <<current, tracked>>
           ELSE /\ current' = [current EXCEPT ![change].trusted = change \in unl]
                /\ tracked' \in IF change \in unl THEN UpdateTrie(tracked, change, val, None)
                                ELSE {Dropped(tracked, change, val)}
    /\ change' = None
    /\ UNCHANGED <<setup, now, available, unl, arrived, enforcer, issued>>

\* current(): stale validations are dropped.
Flushed(v, ns) == FoldSet(LAMBDA n, w : Dropped(w, n, current[n]), v, ns)
Stale == {n \in DOMAIN current : ~IsCurrent(current[n].sign)}

\* withTrie, before a calculation; getPreferred and getNodesAfter.
WithTrie ==
    /\ current' = Restrict(current, DOMAIN current \ Stale)
    /\ tracked' \in CheckAcquired(Flushed(tracked, Stale))
    /\ UNCHANGED <<setup, now, available, unl, change, arrived, enforcer, issued>>

\* currentTrusted, getCurrentNodeIDs and laggards only flush.
Flush ==
    /\ current' = Restrict(current, DOMAIN current \ Stale)
    /\ tracked' = Flushed(tracked, Stale)
    /\ UNCHANGED <<setup, now, available, unl, change, arrived, enforcer, issued>>

CanValidateSeq(s) ==
    /\ issued' = Enforced(issued, s)
    /\ UNCHANGED <<setup, now, available, unl, change, arrived, enforcer, current, tracked>>

\* A ledger that was asked for arrives.
Acquire(l) ==
    /\ l \notin available
    /\ available' = available \cup {l}
    /\ UNCHANGED <<setup, now, unl, change, arrived, enforcer, issued, current, tracked>>

Tick ==
    /\ now < setup.maxTime
    /\ now' = now + 1
    /\ UNCHANGED <<setup, available, unl, change, arrived, enforcer, issued, current, tracked>>

Init ==
    /\ setup \in Setups
    /\ now = 0
    /\ available = setup.held
    /\ unl = Node
    /\ change = None /\ arrived = None
    /\ enforcer = [n \in Node |-> [seq |-> 0, when |-> 0]]
    /\ issued = [seq |-> 0, when |-> 0]
    /\ current = Fun0
    /\ tracked = [last |-> Fun0, acquiring |-> {}, trie |-> EmptyTrie]

Next ==
    \/ \E n \in setup.late, l \in Recent, sign \in 0 .. setup.maxTime : Receive(n, l, sign)
    \/ AddLate
    \/ \E n \in setup.nodes \ setup.late, l \in Recent : AddPrompt(n, l)
    \/ \E n \in setup.fickle : UpdateTrusted(n)
    \/ TrustChanged
    \/ WithTrie
    \/ Flush
    \/ \E s \in setup.own : CanValidateSeq(s)
    \/ \E l \in Recent : Acquire(l)
    \/ Tick

Spec == Init /\ [][Next]_vars

-----------------------------------------------------------------------------
\* What the trie should say, from the ledgers that it counts.
last == tracked.last
Counted(l) == {n \in DOMAIN last : last[n] = l}
Backing(l) == {n \in DOMAIN last : IsAncestor(l, last[n])}
Child == [p \in Ledger \cup {0} |-> {l \in Ledger : SeqOf(l) = SeqOf(p) + 1 /\ IsAncestor(p, l)}]
Successors(p) == {l \in Child[p] : Backing(l) # {}}

\* The validators that may still validate any ledger of sequence s.
Undecided(s, largestIssued) ==
    {n \in DOMAIN last : SeqOf(last[n]) < Max({s, largestIssued})}

\* c stays ahead of the others whatever the undecided validators do.
Certain(c, p, largestIssued) ==
    LET u == Cardinality(Undecided(SeqOf(c), largestIssued))
        b == Cardinality(Backing(c))
    IN  /\ b > u
        /\ \A r \in Successors(p) \ {c} :
              LET most == Cardinality(Backing(r)) + u
              IN  b > most \/ (b = most /\ c > r)

RECURSIVE Followed(_, _)
Followed(p, largestIssued) ==
    LET sure == {c \in Successors(p) : Certain(c, p, largestIssued)}
    IN  IF sure = {} THEN p ELSE Followed(CHOOSE c \in sure : TRUE, largestIssued)

\* Mutant of Preferred: the branch with most support, whoever is undecided.
RECURSIVE MostSupported(_, _)
MostSupported(t, k) ==
    LET kids == Children(t, k)
    IN  IF kids = {} THEN k ELSE MostSupported(t, Best(t, kids))
PreferredMost(v) == MostSupported(v.trie, 0)

Preferred(v) == GetPreferred(v.trie, issued.seq)

-----------------------------------------------------------------------------
\* However validations, ledgers, changes of trust and flushes interleave, the
\* trie is the compressed trie of exactly the ledgers in lastLedger_: its nodes
\* are the root, those ledgers and the forks between them, and every support is
\* the number of validators on that ledger or branch (LedgerTrie::insert and
\* remove, checkInvariants).
TrieExact ==
    LET forks == {l \in Ledger : Cardinality(Successors(l)) > 1}
        kept == {0} \cup Range(last) \cup forks
        Above(l) == CHOOSE p \in kept \ {l} :
                       /\ IsAncestor(p, l)
                       /\ \A q \in kept \ {l} : IsAncestor(q, l) => SeqOf(q) <= SeqOf(p)
    IN  /\ DOMAIN tracked.trie.node = kept
        /\ \A l \in kept :
              LET k == tracked.trie.node[l]
              IN  /\ k.tips = Cardinality(Counted(l))
                  /\ k.branch = Cardinality(Backing(l))
                  /\ l # 0 => k.parent = Above(l) /\ k.start = SeqOf(Above(l)) + 1
        /\ \A s \in 1 .. Depth :
              tracked.trie.seqSupport[s] = Cardinality({n \in DOMAIN last : SeqOf(last[n]) = s})

\* The walk along compressed spans gives what the definition asks of every
\* ledger on the way: the preferred ledger is the last one whose support cannot
\* be overtaken by a rival, even if all validators that have not validated its
\* sequence, or are behind our own last validation, side with that rival
\* (LedgerTrie::getPreferred).  The support for ledgers after one, which tells
\* how many validators have moved on, is that of its proper descendants.
TrieAnswers ==
    /\ last # Fun0 =>
          \A s \in 0 .. Depth : GetPreferred(tracked.trie, s) = Followed(0, s)
    /\ \A l \in Recent :
          BranchSupport(tracked.trie, l) - TipSupport(tracked.trie, l)
             = Cardinality(Backing(l) \ Counted(l))

\* While the same validators are counted, none leaves its own chain and we issue
\* no validation, the preferred ledger only moves forward: no branch is
\* preferred that later validations for known chains take back ("only switch to
\* a different branch when you see enough peer validations to *know* another
\* branch won't have preferred support", LedgerTrie::getPreferred).
PreferenceStable ==
    [][(/\ last # Fun0 /\ last' # last /\ DOMAIN last' = DOMAIN last
        /\ \A n \in DOMAIN last : IsAncestor(last[n], last'[n])
        /\ issued' = issued)
       => \A next \in {tracked'} : IsAncestor(Preferred(tracked), Preferred(next))]_vars

\* A trusted validator with a current validation always has a ledger that is
\* counted or being acquired; it is the ledger of that validation as long as the
\* validator's trust has never changed (Validations::add, updateTrie,
\* checkAcquired).  Only ledgers that are at hand are counted.
CurrentCounted ==
    /\ Range(last) \subseteq available
    /\ \A n \in DOMAIN current :
          current[n].trusted =>
              \E l \in IF n \in setup.fickle THEN Recent ELSE {current[n].ledger} :
                  (n \in DOMAIN last /\ last[n] = l) \/ <<l, n>> \in tracked.acquiring
=============================================================================
