------------------------------ MODULE HookState ------------------------------
(***************************************************************************)
(* The state of hooks: the entries an account owns in the ledger, with the *)
(* counters kept in its account root, and the HookStateMap through which   *)
(* the hooks of one transaction read and write them.                       *)
(*                                                                         *)
(* Transactions follow each other.  Each runs strong hooks on one map,     *)
(* commits that map or drops it, and is applied.  If it was emitted with a *)
(* callback, that runs on a map of its own.  Weak hooks then share another *)
(* map, which is committed last.  A transaction whose apply() fails after  *)
(* the first commit is reset, which undoes the commit: it is the same as   *)
(* one that dropped the map.                                               *)
(***************************************************************************)
EXTENDS Integers, FiniteSets

CONSTANTS
    Account, Namespace, Key,  \* numbers, in the order of the maps' keys
    Value,            \* what an entry may hold
    Nil,              \* the empty blob; also the value of an absent entry
    NoCache,          \* cache[a] when a is not in the map
    NoEntry,          \* a slot that is not in the map
    NoAccount,        \* no hook is running
    Grant,            \* <<h, a, n>>: hooks of h may write namespace n of a
    Balance,          \* balances an account may be left with
    BaseReserve, Increment,   \* the reserve
    HookFee,          \* fee of a weak execution
    MaxNamespaces,    \* maxNamespaces() (256)
    MaxModifications, \* max_state_modifications (256)
    FixXahauV1        \* amendment fixXahauV1

VARIABLES
    data,        \* the entries in the ledger
    stateCount,  \* sfHookStateCount
    ownerCount,  \* sfOwnerCount
    namespaces,  \* sfHookNamespaces
    balance,     \* sfBalance
    cache,       \* the HookStateMap
    modCount,    \* its modified_entry_count
    pending,     \* modified slots that finalizeHookState has still to write
    phase,       \* of the transaction
    result,      \* its result so far: success, or a fee claimed ("tec")
    runner,      \* account whose hook is running
    disabled,    \* foreignStateSetDisabled of that hook
    processed,   \* accounts whose chains ran as originator or stakeholder
    aawMap,      \* accounts with hooks that are to run again as weak
    written,     \* history: slots the running callback or weak hook wrote
    revoked      \* history: slots last written by a hook that rolled back

account == <<data, stateCount, ownerCount, namespaces>>
map == <<cache, modCount>>
hook == <<runner, disabled, written>>
vars == <<account, balance, map, pending, phase, result, hook, processed, aawMap, revoked>>

Slot == Namespace \X Key
Place == Account \X Namespace \X Key

CacheEntry == [modified : BOOLEAN, data : Value \cup {Nil}]
MapEntry == [avail : Int, nsCount : Nat, slots : [Slot -> CacheEntry \cup {NoEntry}]]

ASSUME HookStateAssumption ==
    /\ Account \subseteq Nat /\ Namespace \subseteq Nat /\ Key \subseteq Nat
    /\ Balance \subseteq Nat /\ BaseReserve \in Nat /\ Increment \in Nat \ {0}
    /\ HookFee \in Nat \ {0}
    /\ MaxNamespaces \in Nat /\ MaxModifications \in Nat
    /\ IsFiniteSet(Namespace) /\ IsFiniteSet(Key)
    /\ Nil \notin Value /\ NoAccount \notin Account
    /\ NoEntry \notin CacheEntry /\ NoCache \notin MapEntry
    /\ Grant \subseteq Account \X Account \X Namespace
    /\ FixXahauV1 \in BOOLEAN

AccountReserve(n) == BaseReserve + n * Increment

\* keylet::hookStateDir exists exactly while the namespace has an entry.
NamespaceExists(d, n) == \E k \in Key : d[<<n, k>>] # Nil

-----------------------------------------------------------------------------
(* set_state_cache.                                                        *)

\* Division of C++, which truncates.
AvailableForReserves(a) ==
    LET spare == balance[a] - AccountReserve(ownerCount[a])
    IN  IF spare >= 0 THEN spare \div Increment ELSE -((-spare) \div Increment)

CreatesNamespace(a, n) == FixXahauV1 /\ ~NamespaceExists(data[a], n)

Cached(a, s) == cache[a] # NoCache /\ cache[a].slots[s] # NoEntry

NamespaceCached(a, n) == \E k \in Key : Cached(a, <<n, k>>)

\* Mutants of Accepts: no reserve is set aside after the first entry of an
\* account, and only the first namespace is counted.
AcceptsUnreserved(a, s, modified) ==
    /\ modified => modCount < MaxModifications
    /\ cache[a] = NoCache /\ modified => AvailableForReserves(a) >= 1

AcceptsUncounted(a, s, modified) ==
    /\ modified => modCount < MaxModifications
    /\ IF cache[a] = NoCache
       THEN /\ modified => AvailableForReserves(a) >= 1
            /\ CreatesNamespace(a, s[1]) => Cardinality(namespaces[a]) + 1 <= MaxNamespaces
       ELSE modified /\ ~Cached(a, s) => cache[a].avail > 0

Accepts(a, s, modified) ==
    /\ modified => modCount < MaxModifications
    /\ IF cache[a] = NoCache
       THEN /\ modified => AvailableForReserves(a) >= 1
            /\ CreatesNamespace(a, s[1]) => Cardinality(namespaces[a]) + 1 <= MaxNamespaces
       ELSE modified /\ ~Cached(a, s) =>
                /\ cache[a].avail > 0
                /\ ~NamespaceCached(a, s[1]) /\ CreatesNamespace(a, s[1]) =>
                       cache[a].nsCount + 1 <= MaxNamespaces

One(condition) == IF condition THEN 1 ELSE 0

\* Mutant of Entered: a write to an entry that was read does not mark it.
EnteredUnmarked(a, s, v, modified) ==
    IF cache[a] = NoCache
    THEN [avail |-> AvailableForReserves(a) - 1, nsCount |-> Cardinality(namespaces[a]),
          slots |-> [t \in Slot |-> IF t = s THEN [modified |-> modified, data |-> v] ELSE NoEntry]]
    ELSE [cache[a] EXCEPT !.slots[s] = [modified |-> IF Cached(a, s) THEN @.modified ELSE modified,
                                        data |-> v]]

\* The map's entry for account a once slot s has been accepted with value v.
Entered(a, s, v, modified) ==
    IF cache[a] = NoCache
    THEN [avail |-> AvailableForReserves(a) - 1,
          nsCount |-> Cardinality(namespaces[a]) + One(CreatesNamespace(a, s[1])),
          slots |-> [t \in Slot |-> IF t = s THEN [modified |-> modified, data |-> v] ELSE NoEntry]]
    ELSE [avail |-> cache[a].avail - One(modified /\ ~Cached(a, s)),
          nsCount |-> cache[a].nsCount + One(/\ modified /\ ~NamespaceCached(a, s[1])
                                             /\ CreatesNamespace(a, s[1])),
          slots |-> [cache[a].slots EXCEPT
                        ![s] = [modified |-> modified \/ (Cached(a, s) /\ @.modified), data |-> v]]]

SetStateCache(a, s, v, modified) ==
    /\ Accepts(a, s, modified)
    /\ cache' = [cache EXCEPT ![a] = Entered(a, s, v, modified)]
    /\ modCount' = modCount + One(modified \/ cache[a] = NoCache)

-----------------------------------------------------------------------------
(* What a running hook does.                                               *)

Running == phase \in {"strong", "callback", "weak", "again"} /\ runner # NoAccount

\* state_foreign: an entry of the ledger that is not in the map is put there.
Read(a, s) ==
    /\ Running
    /\ ~Cached(a, s)
    /\ data[a][s] # Nil
    /\ SetStateCache(a, s, data[a][s], FALSE)
    /\ UNCHANGED <<account, balance, pending, phase, result, hook, processed, aawMap, revoked>>

\* state_foreign_set does not check grants for its own account, nor again for
\* an entry that is marked modified.
Authorized(a, s) ==
    \/ a = runner
    \/ /\ ~disabled
       /\ \/ Cached(a, s) /\ cache[a].slots[s].modified
          \/ <<runner, a, s[1]>> \in Grant

Set(a, s, v) ==
    /\ Running
    /\ Authorized(a, s)
    /\ SetStateCache(a, s, v, TRUE)
    /\ written' = IF phase = "strong" THEN {} ELSE written \cup {<<a, s[1], s[2]>>}
    /\ revoked' = revoked \ {<<a, s[1], s[2]>>}
    /\ UNCHANGED <<account, balance, pending, phase, result, runner, disabled, processed, aawMap>>

\* A hook has one attempt at an entry it has no grant for.
Denied(a, s) ==
    /\ Running
    /\ ~disabled
    /\ ~Authorized(a, s)
    /\ disabled' = TRUE
    /\ UNCHANGED <<account, balance, map, pending, phase, result, runner, written, processed, aawMap, revoked>>

-----------------------------------------------------------------------------
(* Which hooks run.                                                        *)

StartHook(a) == runner' = a /\ disabled' = FALSE /\ written' = {}

\* The chain of the originator, or of a strong stakeholder; or the next hook
\* of the chain that is running.
StrongHook(a) ==
    /\ phase = "strong"
    /\ a = runner \/ a \notin processed
    /\ StartHook(a)
    /\ processed' = processed \cup {a}
    /\ UNCHANGED <<account, balance, map, pending, phase, result, aawMap, revoked>>

\* doTSH(weak) takes the fee of the chain from the stakeholder before it runs.
WeakHook(a) ==
    /\ phase = "weak"
    /\ a \notin processed
    /\ HookFee + AccountReserve(ownerCount[a]) <= balance[a]
    /\ balance' = [balance EXCEPT ![a] = @ - HookFee]
    /\ StartHook(a)
    /\ processed' = processed \cup {a}
    /\ UNCHANGED <<account, map, pending, phase, result, aawMap, revoked>>

NextWeakHook ==
    /\ phase = "weak" /\ runner # NoAccount
    /\ StartHook(runner)
    /\ UNCHANGED <<account, balance, map, pending, phase, result, processed, aawMap, revoked>>

\* doAgainAsWeak, for the accounts of aawMap in order, runs the hooks that
\* asked for it once more, for no fee.
AgainAsWeak(a) ==
    /\ phase \in {"weak", "again"}
    /\ a \in aawMap
    /\ phase' = "again"
    /\ StartHook(a)
    /\ aawMap' = {b \in aawMap : a <= b}
    /\ UNCHANGED <<account, balance, map, pending, result, processed, revoked>>

\* A weak hook that rolls back ends its chain; the map stays as it is.
WeakRollback ==
    /\ phase \in {"weak", "again"} /\ runner # NoAccount
    /\ revoked' = revoked \cup written
    /\ StartHook(NoAccount)
    /\ UNCHANGED <<account, balance, map, pending, phase, result, processed, aawMap>>

-----------------------------------------------------------------------------
(* finalizeHookState and setHookState.                                     *)

Modified == {p \in Place : /\ Cached(p[1], <<p[2], p[3]>>)
                           /\ cache[p[1]].slots[<<p[2], p[3]>>].modified}

\* Mutant of ToWrite: entries that hold nothing are passed over.
ToWriteSet == {p \in Modified : cache[p[1]].slots[<<p[2], p[3]>>].data # Nil}

ToWrite == Modified

\* The maps are walked in the order of their keys.
Before(p, q) ==
    \/ p[1] < q[1]
    \/ p[1] = q[1] /\ p[2] < q[2]
    \/ p[1] = q[1] /\ p[2] = q[2] /\ p[3] < q[3]

IsNext(p) == p \in pending /\ \A q \in pending \ {p} : Before(p, q)

Finalize(from, to, a) ==
    /\ phase \in from
    /\ phase' = to
    /\ pending' = ToWrite
    /\ StartHook(a)
    /\ UNCHANGED <<account, balance, map, result, processed, aawMap, revoked>>

FinalizeStrong == Finalize({"strong"}, "strongWrite", NoAccount)
FinalizeCallback == runner # NoAccount /\ Finalize({"callback"}, "callbackWrite", runner)
FinalizeWeak == Finalize({"weak", "again"}, "weakWrite", NoAccount)

Blob(p) == cache[p[1]].slots[<<p[2], p[3]>>].data
Stored(p) == data[p[1]][<<p[2], p[3]>>]

\* setHookState and the overflow check around it succeed for this slot.
Writable(p) ==
    /\ Cardinality(Modified \ pending) + 1 <= MaxModifications + 1
    /\ Blob(p) # Nil /\ Stored(p) = Nil =>
           balance[p[1]] >= AccountReserve(ownerCount[p[1]] + 1)

\* Mutants of CountChange and NamespacesAfter: deletion forgets them.
CountChangeCreate(p) == One(Stored(p) = Nil /\ Blob(p) # Nil)
NamespacesAdded(a, n, d) == namespaces[a] \cup {m \in {n} : NamespaceExists(d, m)}

CountChange(p) == One(Stored(p) = Nil /\ Blob(p) # Nil) - One(Stored(p) # Nil /\ Blob(p) = Nil)

\* An allotment of one entry per owner count: computeHookStateOwnerCount.
OwnerChange(p) == One(Stored(p) = Nil /\ Blob(p) # Nil) - One(Stored(p) # Nil /\ Blob(p) = Nil)

NamespacesAfter(a, n, d) ==
    IF NamespaceExists(d, n) THEN namespaces[a] \cup {n} ELSE namespaces[a] \ {n}

Writing == phase \in {"strongWrite", "callbackWrite", "weakWrite"} /\ pending # {}

SetHookState(p) ==
    /\ Writing /\ IsNext(p) /\ Writable(p)
    /\ LET a == p[1]
           d == [data[a] EXCEPT ![<<p[2], p[3]>>] = Blob(p)]
       IN  /\ data' = [data EXCEPT ![a] = d]
           /\ stateCount' = [stateCount EXCEPT ![a] = @ + CountChange(p)]
           /\ ownerCount' = [ownerCount EXCEPT ![a] = @ + OwnerChange(p)]
           /\ namespaces' = [namespaces EXCEPT ![a] = NamespacesAfter(a, p[2], d)]
    /\ pending' = pending \ {p}
    /\ UNCHANGED <<balance, map, phase, result, hook, processed, aawMap, revoked>>

\* The first error ends finalizeHookState; its callers ignore it, and what was
\* written before stays.
SetHookStateFails(p) ==
    /\ Writing /\ IsNext(p) /\ ~Writable(p)
    /\ pending' = {}
    /\ UNCHANGED <<account, balance, map, phase, result, hook, processed, aawMap, revoked>>

-----------------------------------------------------------------------------
(* The transaction.                                                        *)

EmptyMap == [a \in Account |-> NoCache]

NewMap == cache' = EmptyMap /\ modCount' = 0
Cleared == NewMap /\ written' = {} /\ revoked' = {}

\* apply() moves funds; the map of the strong hooks is gone.
Applied(r) ==
    /\ phase' = "callback"
    /\ result' = r
    /\ balance' \in [Account -> Balance]
    /\ aawMap' \in SUBSET processed
    /\ runner' = NoAccount /\ disabled' = FALSE
    /\ Cleared
    /\ UNCHANGED <<account, pending, processed>>

Apply == phase = "strongWrite" /\ pending = {} /\ Applied("tes")

\* A strong hook rolls back, or apply() fails: the map is not committed, the
\* fee is claimed, and callback and weak hooks still run.
Reject == phase = "strong" /\ Applied("tec")

\* The last callback has committed its map, or has rolled back, or there is none.
CallbackOver == phase = "callback" \/ (phase = "callbackWrite" /\ pending = {})

\* A callback that is followed by another without a commit has rolled back.
NextCallback(a) ==
    /\ CallbackOver
    /\ runner \in {NoAccount, a}
    /\ phase' = "callback"
    /\ StartHook(a)
    /\ revoked' = revoked \cup written
    /\ UNCHANGED <<account, balance, pending, result, processed, aawMap>>

\* Mutant of CallbackHook: the callbacks share a map, as the weak hooks do.
CallbackHookShared(a) == NextCallback(a) /\ UNCHANGED map

\* doHookCallback runs each installed copy of the hook that emitted the
\* transaction, all of one account, on a new map and for no fee.
CallbackHook(a) == NextCallback(a) /\ NewMap

\* The weak hooks get a map of their own.
EnterWeak ==
    /\ CallbackOver
    /\ phase' = "weak"
    /\ runner' = NoAccount /\ disabled' = FALSE
    /\ Cleared
    /\ UNCHANGED <<account, balance, pending, result, processed, aawMap>>

Finish ==
    /\ phase = "weakWrite" /\ pending = {}
    /\ phase' = "strong"
    /\ result' = "tes"
    /\ processed' = {} /\ aawMap' = {}
    /\ Cleared
    /\ UNCHANGED <<account, balance, pending, runner, disabled>>

Init ==
    /\ data = [a \in Account |-> [s \in Slot |-> Nil]]
    /\ stateCount = [a \in Account |-> 0]
    /\ ownerCount = [a \in Account |-> 0]
    /\ namespaces = [a \in Account |-> {}]
    /\ balance \in [Account -> Balance]
    /\ cache = EmptyMap /\ modCount = 0 /\ pending = {}
    /\ phase = "strong" /\ result = "tes"
    /\ runner = NoAccount /\ disabled = FALSE
    /\ processed = {} /\ aawMap = {} /\ written = {} /\ revoked = {}

Next ==
    \/ \E a \in Account, s \in Slot : Read(a, s)
    \/ \E a \in Account, s \in Slot, v \in Value \cup {Nil} : Set(a, s, v)
    \/ \E a \in Account, s \in Slot : Denied(a, s)
    \/ \E a \in Account : StrongHook(a)
    \/ \E a \in Account : WeakHook(a)
    \/ NextWeakHook
    \/ \E a \in Account : AgainAsWeak(a)
    \/ WeakRollback
    \/ FinalizeStrong
    \/ FinalizeCallback
    \/ FinalizeWeak
    \/ \E p \in Place : SetHookState(p)
    \/ \E p \in Place : SetHookStateFails(p)
    \/ Apply
    \/ Reject
    \/ \E a \in Account : CallbackHook(a)
    \/ EnterWeak
    \/ Finish

Spec == Init /\ [][Next]_vars

-----------------------------------------------------------------------------
(* Properties.                                                             *)

TypeOK ==
    /\ data \in [Account -> [Slot -> Value \cup {Nil}]]
    /\ stateCount \in [Account -> Nat] /\ ownerCount \in [Account -> Nat]
    /\ namespaces \in [Account -> SUBSET Namespace]
    /\ balance \in [Account -> Nat]
    /\ cache \in [Account -> MapEntry \cup {NoCache}] /\ modCount \in Nat
    /\ pending \in SUBSET Place
    /\ phase \in {"strong", "strongWrite", "callback", "callbackWrite", "weak", "again", "weakWrite"}
    /\ result \in {"tes", "tec"}
    /\ runner \in Account \cup {NoAccount} /\ disabled \in BOOLEAN
    /\ processed \in SUBSET Account /\ aawMap \in SUBSET Account
    /\ written \in SUBSET Place /\ revoked \in SUBSET Place

\* sfHookStateCount is the number of entries the account owns, and its owner
\* count moves with it.
CountsExact ==
    \A a \in Account :
        /\ stateCount[a] = Cardinality({s \in Slot : data[a][s] # Nil})
        /\ ownerCount[a] = stateCount[a]

\* sfHookNamespaces lists exactly the namespaces that have an entry.
NamespacesExact ==
    \A a \in Account : namespaces[a] = {n \in Namespace : NamespaceExists(data[a], n)}

\* The account root agrees with the ledger's entries in its counts and in its list of
\* namespaces, also in the middle of finalizeHookState and after one that stopped
\* half way with its error ignored.
BookkeepingExact == CountsExact /\ NamespacesExact

\* With fixXahauV1 no account has more than maxNamespaces() namespaces, although
\* set_state_cache counts them before any is created.
NamespacesBounded ==
    FixXahauV1 => \A a \in Account : Cardinality(namespaces[a]) <= MaxNamespaces

\* What the map holds without being marked modified is what the ledger holds.
CacheCoherent ==
    \A a \in Account, s \in Slot :
        Cached(a, s) /\ ~cache[a].slots[s].modified => cache[a].slots[s].data = data[a][s]

\* When the map of the strong hooks or of a callback has been committed, every
\* entry that they modified has the last value they gave it.
CommitComplete ==
    phase \in {"strongWrite", "callbackWrite"} /\ pending = {} =>
        \A p \in Modified : Stored(p) = Blob(p)

\* Committing that map never fails: no fee is taken between the reserve check of
\* set_state_cache and that of setHookState.
CommitSucceeds ==
    phase \in {"strongWrite", "callbackWrite"} => \A p \in pending : IsNext(p) => Writable(p)

\* A callback's changes are committed only "if cbak resulted in accept()": what
\* one wrote before it rolled back is not committed by the next one.
CallbackRollbackDiscards ==
    [][\A p \in Place : phase = "callbackWrite" /\ Stored(p)' # Stored(p) => p \notin revoked]_vars
=============================================================================
