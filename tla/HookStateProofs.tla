--------------------------- MODULE HookStateProofs ---------------------------
(***************************************************************************)
(* Hook state, for any accounts, namespaces, keys, limits and grants.      *)
(*                                                                         *)
(* The counters and the namespace list of every account match its entries: *)
(* the invariant IInv adds that what is still to be written is modified in *)
(* the map, which is left alone while it is being committed.  And the map  *)
(* promises its commit: the invariant MapInv says what set_state_cache has *)
(* set aside for the entries that the map holds.                           *)
(***************************************************************************)
EXTENDS HookState, FiniteSetTheorems, TLAPS

PendingInv ==
    /\ pending \subseteq Modified
    /\ pending # {} => phase \in {"strongWrite", "callbackWrite", "weakWrite"}

IInv == TypeOK /\ CountsExact /\ NamespacesExact /\ PendingInv

Present(d) == {s \in Slot : d[s] # Nil}

\* There are finitely many slots.
LEMMA SlotFinite == IsFiniteSet(Slot)
<1>1. IsFiniteSet(Namespace) /\ IsFiniteSet(Key)
  BY HookStateAssumption, Zenon
<1> QED
  BY <1>1, FS_Product, Zenon DEF Slot

\* Entries of an account can be counted.
LEMMA PresentFinite == ASSUME NEW d PROVE IsFiniteSet(Present(d)) /\ Cardinality(Present(d)) \in Nat
<1>1. Present(d) \subseteq Slot
  BY Zenon DEF Present
<1> QED
  BY <1>1, SlotFinite, FS_Subset, FS_CardinalityType, Zenon

\* Setting one slot changes the number of entries by one at most, as the
\* counters of setHookState have it.
LEMMA PresentChange ==
    ASSUME NEW d \in [Slot -> Value \cup {Nil}], NEW s \in Slot, NEW v \in Value \cup {Nil}
    PROVE  Cardinality(Present([d EXCEPT ![s] = v])) =
               Cardinality(Present(d)) + (One(d[s] = Nil /\ v # Nil) - One(d[s] # Nil /\ v = Nil))
<1> DEFINE e == [d EXCEPT ![s] = v]
<1>1. IsFiniteSet(Present(d)) /\ Cardinality(Present(d)) \in Nat
  BY PresentFinite, Zenon
<1>2. CASE d[s] = Nil /\ v # Nil
  <2>1. Present(e) = Present(d) \cup {s} /\ s \notin Present(d)
    BY <1>2, Zenon DEF Present
  <2>2. Cardinality(Present(e)) = Cardinality(Present(d)) + 1
    BY <1>1, <2>1, FS_AddElement, Zenon
  <2> QED
    BY <1>1, <1>2, <2>2 DEF One
<1>3. CASE d[s] # Nil /\ v = Nil
  <2>1. Present(e) = Present(d) \ {s} /\ s \in Present(d)
    BY <1>3, Zenon DEF Present
  <2>2. Cardinality(Present(e)) = Cardinality(Present(d)) - 1
    BY <1>1, <2>1, FS_RemoveElement, Zenon
  <2> QED
    BY <1>1, <1>3, <2>2 DEF One
<1>4. CASE (d[s] = Nil) <=> (v = Nil)
  <2>1. Present(e) = Present(d)
    BY <1>4, Zenon DEF Present
  <2> QED
    BY <1>1, <1>4, <2>1 DEF One
<1> QED
  BY <1>2, <1>3, <1>4, Zenon

\* set_state_cache keeps the map well formed.
LEMMA EnteredTyped ==
    ASSUME TypeOK, NEW a \in Account, NEW s \in Slot, NEW v \in Value \cup {Nil},
           NEW modified \in BOOLEAN, IsFiniteSet(namespaces[a])
    PROVE  Entered(a, s, v, modified) \in MapEntry
<1>1. AvailableForReserves(a) \in Int
  <2>1. balance[a] \in Int /\ ownerCount[a] \in Int /\ BaseReserve \in Int
        /\ Increment \in Int /\ Increment > 0
    BY HookStateAssumption DEF TypeOK
  <2>2. balance[a] - AccountReserve(ownerCount[a]) \in Int
    BY <2>1 DEF AccountReserve
  <2> QED
    BY <2>1, <2>2 DEF AvailableForReserves
<1>2. Cardinality(namespaces[a]) \in Nat
  BY FS_CardinalityType, Zenon
<1>3. \A b : One(b) \in Nat
  BY Zenon DEF One
<1>4. \A x \in Int, n \in Nat, f \in [Slot -> CacheEntry \cup {NoEntry}] :
          [avail |-> x, nsCount |-> n, slots |-> f] \in MapEntry
  BY Zenon DEF MapEntry
<1>5. \A b \in BOOLEAN : [modified |-> b, data |-> v] \in CacheEntry
  BY Zenon DEF CacheEntry
<1>6. CASE cache[a] = NoCache
  <2> DEFINE f == [t \in Slot |-> IF t = s THEN [modified |-> modified, data |-> v] ELSE NoEntry]
             n == Cardinality(namespaces[a]) + One(CreatesNamespace(a, s[1]))
             x == AvailableForReserves(a) - 1
  <2>1. f \in [Slot -> CacheEntry \cup {NoEntry}]
    BY <1>5, Zenon
  <2>2. n \in Nat /\ x \in Int
    <3>1. One(CreatesNamespace(a, s[1])) \in Nat
      BY <1>3, Zenon
    <3> QED
      BY <1>1, <1>2, <3>1
  <2>3. Entered(a, s, v, modified) = [avail |-> x, nsCount |-> n, slots |-> f]
    BY <1>6, Zenon DEF Entered
  <2> HIDE DEF f, n, x
  <2> QED
    BY <1>4, <2>1, <2>2, <2>3, Zenon
<1>7. CASE cache[a] # NoCache
  <2> DEFINE b == modified \/ (Cached(a, s) /\ cache[a].slots[s].modified)
             f == [cache[a].slots EXCEPT ![s] = [modified |-> b, data |-> v]]
             g == One(/\ modified /\ ~NamespaceCached(a, s[1]) /\ CreatesNamespace(a, s[1]))
             h == One(modified /\ ~Cached(a, s))
  <2>1. cache[a] \in MapEntry
    BY <1>7, Zenon DEF TypeOK
  <2>2. cache[a].avail \in Int /\ cache[a].nsCount \in Nat
        /\ cache[a].slots \in [Slot -> CacheEntry \cup {NoEntry}]
    BY <2>1, Zenon DEF MapEntry
  <2>3. b \in BOOLEAN
    BY Zenon
  <2>4. g \in Nat /\ h \in Nat
    BY Zenon DEF One
  <2>5. Entered(a, s, v, modified) =
            [avail |-> cache[a].avail - h, nsCount |-> cache[a].nsCount + g, slots |-> f]
    BY <1>7, Zenon DEF Entered
  <2>6. f \in [Slot -> CacheEntry \cup {NoEntry}]
    <3> HIDE DEF b
    <3> QED
      BY <1>5, <2>2, <2>3, Zenon
  <2>7. cache[a].avail - h \in Int /\ cache[a].nsCount + g \in Nat
    <3> HIDE DEF g, h
    <3> QED
      BY <2>2, <2>4
  <2> HIDE DEF f, g, h
  <2> QED
    BY <1>4, <2>5, <2>6, <2>7, Zenon
<1> QED
  BY <1>6, <1>7, Zenon

\* Outside a commit nothing is pending.
LEMMA NothingPending ==
    ASSUME IInv, phase \notin {"strongWrite", "callbackWrite", "weakWrite"}
    PROVE  pending = {}
BY Zenon DEF IInv, PendingInv

\* A step that leaves the accounts alone has only the types and the pending
\* slots to account for.
LEMMA QuietStep ==
    ASSUME IInv, TypeOK', PendingInv', UNCHANGED account
    PROVE  IInv'
<1>1. data' = data /\ stateCount' = stateCount /\ ownerCount' = ownerCount /\ namespaces' = namespaces
  BY Zenon DEF account
<1>2. CountsExact'
  BY <1>1, Zenon DEF IInv, CountsExact
<1>3. NamespacesExact'
  BY <1>1, Zenon DEF IInv, NamespacesExact, NamespaceExists
<1> QED
  BY <1>2, <1>3, Zenon DEF IInv

\* Reads and writes of a running hook change the map only.
LEMMA CacheStep ==
    ASSUME IInv, NEW a \in Account, NEW s \in Slot, NEW v \in Value \cup {Nil},
           Read(a, s) \/ Set(a, s, v)
    PROVE  IInv'
<1>1. PICK w \in Value \cup {Nil}, m \in BOOLEAN : SetStateCache(a, s, w, m)
  <2>1. data[a][s] \in Value \cup {Nil}
    BY DEF IInv, TypeOK
  <2> QED
    BY <2>1, Zenon DEF Read, Set
<1>2. Running /\ UNCHANGED <<account, balance, pending, phase, result, runner, disabled, processed, aawMap>>
  BY Zenon DEF Read, Set, hook
<1>3. pending = {}
  BY <1>2, NothingPending, Zenon DEF Running
<1>4. IsFiniteSet(namespaces[a])
  <2>1. namespaces[a] \subseteq Namespace
    BY Zenon DEF IInv, TypeOK
  <2> QED
    BY <2>1, FS_Subset, HookStateAssumption, Zenon
<1>5. cache' \in [Account -> MapEntry \cup {NoCache}]
  <2>1. Entered(a, s, w, m) \in MapEntry
    BY <1>4, EnteredTyped, Zenon DEF IInv
  <2> QED
    BY <1>1, <2>1, Zenon DEF SetStateCache, IInv, TypeOK
<1>6. modCount' \in Nat
  BY <1>1 DEF SetStateCache, One, IInv, TypeOK
<1>7. written' \in SUBSET Place /\ revoked' \in SUBSET Place
  <2>1. <<a, s[1], s[2]>> \in Place
    BY Zenon DEF Slot, Place
  <2> QED
    BY <2>1, Zenon DEF Read, Set, hook, IInv, TypeOK
<1>8. TypeOK'
  BY <1>2, <1>5, <1>6, <1>7, Zenon DEF account, IInv, TypeOK
<1>9. PendingInv'
  BY <1>2, <1>3, Zenon DEF PendingInv
<1> QED
  BY <1>2, <1>8, <1>9, QuietStep, Zenon

\* Starting and ending hooks changes neither entries nor map.
LEMMA HookStep ==
    ASSUME IInv,
           \/ \E a \in Account, s \in Slot : Denied(a, s)
           \/ \E a \in Account : StrongHook(a) \/ WeakHook(a) \/ AgainAsWeak(a)
           \/ NextWeakHook \/ WeakRollback
    PROVE  IInv'
<1>1. phase \notin {"strongWrite", "callbackWrite", "weakWrite"} /\ UNCHANGED <<account, map, pending>>
  BY Zenon DEF Denied, StrongHook, WeakHook, AgainAsWeak, NextWeakHook, WeakRollback, Running
<1>2. pending' = {}
  BY <1>1, NothingPending, Zenon
<1>3. balance' \in [Account -> Nat]
  <2>1. ASSUME NEW a \in Account, WeakHook(a) PROVE balance' \in [Account -> Nat]
    <3>1. balance[a] \in Nat /\ ownerCount[a] \in Nat /\ HookFee \in Nat
          /\ BaseReserve \in Nat /\ Increment \in Nat
      BY HookStateAssumption, Zenon DEF IInv, TypeOK
    <3>2. AccountReserve(ownerCount[a]) \in Nat
      BY <3>1 DEF AccountReserve
    <3>3. HookFee + AccountReserve(ownerCount[a]) <= balance[a]
      BY <2>1, Zenon DEF WeakHook
    <3>4. balance[a] - HookFee \in Nat
      BY <3>1, <3>2, <3>3
    <3> QED
      BY <2>1, <3>4, Zenon DEF WeakHook, IInv, TypeOK
  <2>2. ASSUME balance' = balance PROVE balance' \in [Account -> Nat]
    BY <2>2, Zenon DEF IInv, TypeOK
  <2> QED
    BY <2>1, <2>2, Zenon DEF Denied, StrongHook, AgainAsWeak, NextWeakHook, WeakRollback
<1>4. /\ runner' \in Account \cup {NoAccount} /\ disabled' \in BOOLEAN
      /\ processed' \in SUBSET Account /\ aawMap' \in SUBSET Account
      /\ written' \in SUBSET Place /\ revoked' \in SUBSET Place
      /\ phase' \in {"strong", "callback", "weak", "again"} /\ result' \in {"tes", "tec"}
  BY <1>1, Zenon DEF Denied, StrongHook, WeakHook, AgainAsWeak, NextWeakHook, WeakRollback, StartHook,
              Running, IInv, TypeOK
<1>5. TypeOK'
  BY <1>1, <1>2, <1>3, <1>4, Zenon DEF account, map, IInv, TypeOK
<1>6. PendingInv'
  BY <1>2, Zenon DEF PendingInv
<1> QED
  BY <1>1, <1>5, <1>6, QuietStep, Zenon

\* The steps of a transaction around its commits.
LEMMA PhaseStep ==
    ASSUME IInv, \/ FinalizeStrong \/ FinalizeCallback \/ FinalizeWeak
                 \/ Apply \/ Reject \/ EnterWeak \/ Finish
                 \/ \E a \in Account : CallbackHook(a)
                 \/ \E p \in Place : SetHookStateFails(p)
    PROVE  IInv'
<1>1. UNCHANGED account
  BY Zenon DEF FinalizeStrong, FinalizeCallback, FinalizeWeak, Finalize, Apply, Reject, Applied,
         EnterWeak, Finish, CallbackHook, NextCallback, SetHookStateFails
<1>2. CASE FinalizeStrong \/ FinalizeCallback \/ FinalizeWeak
  <2>1. /\ pending' = Modified /\ cache' = cache
        /\ phase' \in {"strongWrite", "callbackWrite", "weakWrite"}
    BY <1>2, Zenon DEF FinalizeStrong, FinalizeCallback, FinalizeWeak, Finalize, ToWrite, map
  <2>2. Modified' = Modified
    BY <2>1, Zenon DEF Modified, Cached
  <2>3. PendingInv'
    BY <2>1, <2>2, Zenon DEF PendingInv
  <2>4. Modified \subseteq Place
    BY Zenon DEF Modified
  <2>5. /\ runner' \in Account \cup {NoAccount} /\ disabled' = FALSE /\ written' = {}
        /\ UNCHANGED <<balance, modCount, result, processed, aawMap, revoked>>
    BY <1>2, Zenon DEF FinalizeStrong, FinalizeCallback, FinalizeWeak, Finalize, StartHook, map, IInv, TypeOK
  <2>6. TypeOK'
    BY <1>1, <2>1, <2>4, <2>5, Zenon DEF account, IInv, TypeOK
  <2> QED
    BY <1>1, <2>3, <2>6, QuietStep, Zenon
<1>3. CASE Apply \/ Reject \/ EnterWeak \/ Finish \/ \E a \in Account : CallbackHook(a)
  <2>1. pending = {} /\ pending' = {}
    BY <1>3, NothingPending, Zenon DEF Apply, Reject, Applied, EnterWeak, Finish, CallbackHook,
                                NextCallback, CallbackOver
  <2>2. PendingInv'
    BY <2>1, Zenon DEF PendingInv
  <2>3. balance' \in [Account -> Nat]
    BY <1>3, HookStateAssumption, Zenon DEF Apply, Reject, Applied, EnterWeak, Finish, CallbackHook,
                                     NextCallback, IInv, TypeOK
  <2>4. cache' \in [Account -> MapEntry \cup {NoCache}] /\ modCount' \in Nat
    <3>1. cache' = EmptyMap /\ modCount' = 0
      BY <1>3, Zenon DEF Apply, Reject, Applied, EnterWeak, Finish, CallbackHook, Cleared, NewMap
    <3> QED
      BY <3>1, Zenon DEF EmptyMap
  <2>5. written' = {} /\ revoked' \in SUBSET Place
    BY <1>3, Zenon DEF Apply, Reject, Applied, EnterWeak, Finish, CallbackHook, NextCallback, StartHook,
                Cleared, IInv, TypeOK
  <2>6. /\ phase' \in {"callback", "weak", "strong"} /\ result' \in {"tes", "tec"}
        /\ disabled' \in BOOLEAN /\ runner' \in Account \cup {NoAccount}
    BY <1>3, Zenon DEF Apply, Reject, Applied, EnterWeak, Finish, CallbackHook, NextCallback, StartHook,
                IInv, TypeOK
  <2>7. processed' \in SUBSET Account /\ aawMap' \in SUBSET Account
    <3>1. processed \subseteq Account /\ aawMap \subseteq Account
      BY Zenon DEF IInv, TypeOK
    <3>2. CASE Apply \/ Reject
      <4>1. aawMap' \in SUBSET processed /\ processed' = processed
        BY <3>2, Zenon DEF Apply, Reject, Applied
      <4> QED
        BY <3>1, <4>1, Zenon
    <3>3. CASE EnterWeak \/ Finish \/ \E a \in Account : CallbackHook(a)
      BY <3>1, <3>3, Zenon DEF EnterWeak, Finish, CallbackHook, NextCallback
    <3> QED
      BY <1>3, <3>2, <3>3, Zenon
  <2>8. TypeOK'
    BY <1>1, <2>1, <2>3, <2>4, <2>5, <2>6, <2>7, Zenon DEF account, IInv, TypeOK
  <2> QED
    BY <1>1, <2>2, <2>8, QuietStep, Zenon
<1>4. CASE \E p \in Place : SetHookStateFails(p)
  <2>1. pending' = {}
    BY <1>4, Zenon DEF SetHookStateFails
  <2>2. TypeOK' /\ PendingInv'
    BY <1>4, <2>1, Zenon DEF SetHookStateFails, PendingInv, account, map, hook, IInv, TypeOK
  <2> QED
    BY <1>1, <2>2, QuietStep, Zenon
<1> QED
  BY <1>2, <1>3, <1>4, Zenon

\* setHookState keeps counters and namespaces in step with the entries.
LEMMA WriteStep ==
    ASSUME IInv, NEW p \in Place, SetHookState(p)
    PROVE  IInv'
<1> DEFINE a == p[1]
           s == <<p[2], p[3]>>
           v == Blob(p)
           d == [data[a] EXCEPT ![s] = v]
<1>1. a \in Account /\ s \in Slot /\ p[2] \in Namespace /\ s[1] = p[2]
  BY Zenon DEF Place, Slot
<1>2. p \in pending /\ p \in Modified
  BY Zenon DEF SetHookState, IsNext, IInv, PendingInv
<1>3. v \in Value \cup {Nil}
  <2>1. cache[a] # NoCache /\ cache[a].slots[s] # NoEntry
    BY <1>2, Zenon DEF Modified, Cached
  <2>2. cache[a] \in MapEntry
    BY <1>1, <2>1, Zenon DEF IInv, TypeOK
  <2>3. cache[a].slots[s] \in CacheEntry
    BY <1>1, <2>1, <2>2, Zenon DEF MapEntry
  <2> QED
    BY <2>3, Zenon DEF Blob, CacheEntry
<1>4. data[a] \in [Slot -> Value \cup {Nil}] /\ Stored(p) = data[a][s]
  BY <1>1, Zenon DEF IInv, TypeOK, Stored
<1>5. /\ data' = [data EXCEPT ![a] = d]
      /\ stateCount' = [stateCount EXCEPT ![a] = @ + CountChange(p)]
      /\ ownerCount' = [ownerCount EXCEPT ![a] = @ + OwnerChange(p)]
      /\ namespaces' = [namespaces EXCEPT ![a] = NamespacesAfter(a, p[2], d)]
      /\ pending' = pending \ {p}
      /\ UNCHANGED <<balance, map, phase, result, hook, processed, aawMap, revoked>>
  BY Zenon DEF SetHookState
<1>6. d \in [Slot -> Value \cup {Nil}]
  BY <1>1, <1>3, <1>4, Zenon
<1>7. \A b \in Account : stateCount[b] = Cardinality(Present(data[b])) /\ ownerCount[b] = stateCount[b]
                         /\ stateCount[b] \in Nat
  BY Zenon DEF IInv, CountsExact, Present, TypeOK
<1>8. Cardinality(Present(d)) = stateCount[a] + CountChange(p) /\ Cardinality(Present(d)) \in Nat
      /\ OwnerChange(p) = CountChange(p)
  <2>1. Cardinality(Present(d)) = Cardinality(Present(data[a])) +
            (One(data[a][s] = Nil /\ v # Nil) - One(data[a][s] # Nil /\ v = Nil))
    BY <1>1, <1>3, <1>4, PresentChange, Zenon
  <2>2. Cardinality(Present(d)) \in Nat
    BY PresentFinite, Zenon
  <2> QED
    BY <1>1, <1>4, <1>7, <2>1, <2>2, Zenon DEF CountChange, OwnerChange
<1>9. \A b \in Account : /\ b # a => data'[b] = data[b] /\ stateCount'[b] = stateCount[b]
                                     /\ ownerCount'[b] = ownerCount[b] /\ namespaces'[b] = namespaces[b]
                         /\ b = a => data'[b] = d /\ stateCount'[b] = stateCount[a] + CountChange(p)
                                     /\ ownerCount'[b] = ownerCount[a] + OwnerChange(p)
                                     /\ namespaces'[b] = NamespacesAfter(a, p[2], d)
  <2> HIDE DEF d
  <2> QED
    BY <1>1, <1>5, Zenon DEF IInv, TypeOK
<1>10. CountsExact'
  <2>1. \A b \in Account : stateCount'[b] = Cardinality(Present(data'[b])) /\ ownerCount'[b] = stateCount'[b]
    <3> HIDE DEF a, d
    <3> QED
      BY <1>1, <1>7, <1>8, <1>9, Zenon
  <2> QED
    BY <2>1, Zenon DEF CountsExact, Present
<1>11. NamespacesExact'
  <2>1. \A n \in Namespace : n # p[2] => (NamespaceExists(d, n) <=> NamespaceExists(data[a], n))
    <3> SUFFICES ASSUME NEW n \in Namespace, n # p[2]
                 PROVE  \A k \in Key : d[<<n, k>>] = data[a][<<n, k>>]
      BY Zenon DEF NamespaceExists
    <3> QED
      BY <1>4, Zenon DEF Slot
  <2>2. namespaces[a] = {n \in Namespace : NamespaceExists(data[a], n)}
    BY <1>1, Zenon DEF IInv, NamespacesExact
  <2>3. NamespacesAfter(a, p[2], d) = {n \in Namespace : NamespaceExists(d, n)}
    <3> HIDE DEF a, d
    <3> QED
      BY <1>1, <2>1, <2>2, Zenon DEF NamespacesAfter
  <2>4. \A b \in Account : namespaces[b] = {n \in Namespace : NamespaceExists(data[b], n)}
    BY Zenon DEF IInv, NamespacesExact
  <2>5. \A b \in Account : namespaces'[b] = {n \in Namespace : NamespaceExists(data'[b], n)}
    <3> HIDE DEF a, d
    <3> QED
      BY <1>9, <2>3, <2>4, Zenon
  <2> QED
    BY <2>5, Zenon DEF NamespacesExact, NamespaceExists
<1>12. PendingInv'
  <2>1. cache' = cache /\ phase' = phase
    BY <1>5, Zenon DEF map
  <2>2. Modified' = Modified
    BY <2>1, Zenon DEF Modified, Cached
  <2> QED
    BY <1>5, <2>1, <2>2, Zenon DEF IInv, PendingInv
<1>13. TypeOK'
  <2>1. data' \in [Account -> [Slot -> Value \cup {Nil}]]
    <3> HIDE DEF d
    <3> QED
      BY <1>1, <1>5, <1>6, Zenon DEF IInv, TypeOK
  <2>2. stateCount' \in [Account -> Nat] /\ ownerCount' \in [Account -> Nat]
    <3>1. stateCount[a] + CountChange(p) \in Nat /\ ownerCount[a] + OwnerChange(p) \in Nat
      BY <1>1, <1>7, <1>8, Zenon
    <3> HIDE DEF a
    <3> QED
      BY <1>1, <1>5, <3>1, Zenon DEF IInv, TypeOK
  <2>3. namespaces' \in [Account -> SUBSET Namespace]
    <3>1. NamespacesAfter(a, p[2], d) \subseteq Namespace
      BY <1>1, Zenon DEF NamespacesAfter, IInv, TypeOK
    <3> HIDE DEF a, d
    <3> QED
      BY <1>1, <1>5, <3>1, Zenon DEF IInv, TypeOK
  <2> QED
    BY <1>5, <2>1, <2>2, <2>3, Zenon DEF map, hook, IInv, TypeOK
<1> QED
  BY <1>10, <1>11, <1>12, <1>13, Zenon DEF IInv

\* A ledger without hook state satisfies the invariant.
LEMMA InitEstablishes == Init => IInv
<1> SUFFICES ASSUME Init PROVE IInv
  BY Zenon
<1>1. TypeOK
  BY HookStateAssumption, Zenon DEF Init, TypeOK, EmptyMap
<1>2. CountsExact
  <2>1. \A a \in Account : {s \in Slot : data[a][s] # Nil} = {}
    BY Zenon DEF Init
  <2> QED
    BY <2>1, FS_EmptySet, Zenon DEF Init, CountsExact
<1>3. NamespacesExact
  BY Zenon DEF Init, NamespacesExact, NamespaceExists, Slot
<1>4. PendingInv
  BY Zenon DEF Init, PendingInv
<1> QED
  BY <1>1, <1>2, <1>3, <1>4, Zenon DEF IInv

\* Every step preserves the invariant.
LEMMA Inductive == IInv /\ [Next]_vars => IInv'
<1> SUFFICES ASSUME IInv, [Next]_vars PROVE IInv'
  BY Zenon
<1>1. CASE \E a \in Account, s \in Slot : Read(a, s)
  BY <1>1, CacheStep, Zenon
<1>2. CASE \E a \in Account, s \in Slot, v \in Value \cup {Nil} : Set(a, s, v)
  BY <1>2, CacheStep, Zenon
<1>3. CASE \/ \E a \in Account, s \in Slot : Denied(a, s)
           \/ \E a \in Account : StrongHook(a) \/ WeakHook(a) \/ AgainAsWeak(a)
           \/ NextWeakHook \/ WeakRollback
  BY <1>3, HookStep, Zenon
<1>4. CASE \/ FinalizeStrong \/ FinalizeCallback \/ FinalizeWeak
           \/ Apply \/ Reject \/ EnterWeak \/ Finish
           \/ \E a \in Account : CallbackHook(a)
           \/ \E p \in Place : SetHookStateFails(p)
  BY <1>4, PhaseStep, Zenon
<1>5. CASE \E p \in Place : SetHookState(p)
  BY <1>5, WriteStep, Zenon
<1>6. CASE UNCHANGED vars
  <2>1. TypeOK'
    BY <1>6, Zenon DEF vars, account, map, hook, IInv, TypeOK
  <2>2. PendingInv'
    BY <1>6, Zenon DEF vars, map, IInv, PendingInv, Modified, Cached
  <2> QED
    BY <1>6, <2>1, <2>2, QuietStep, Zenon DEF vars
<1> QED
  BY <1>1, <1>2, <1>3, <1>4, <1>5, <1>6, Zenon DEF Next

\* The invariant holds in every reachable state.
LEMMA InvariantHolds == Spec => []IInv
BY InitEstablishes, Inductive, PTL DEF Spec

-----------------------------------------------------------------------------
\* Ledger entries, counters, HookStateMap and phases keep their types; counters
\* never go below zero, so the guard of setHookState on that is never needed.
THEOREM StateTypeCorrect == Spec => []TypeOK
<1>1. IInv => TypeOK
  BY Zenon DEF IInv
<1> QED
  BY <1>1, InvariantHolds, PTL

\* The counts of hook state and the list of namespaces in the account root match the
\* entries in the ledger in every reachable state, whatever partial commits
\* finalizeHookState leaves.
THEOREM BookkeepingAlwaysExact == Spec => []BookkeepingExact
<1>1. IInv => BookkeepingExact
  BY Zenon DEF IInv, BookkeepingExact
<1> QED
  BY <1>1, InvariantHolds, PTL

-----------------------------------------------------------------------------
(* What the map promises about its commit.                                 *)

\* Namespaces of a that have an entry in the map.
CachedNamespaces(a) == {n \in Namespace : NamespaceCached(a, n)}

\* nsCount covers the namespaces there are and those that the map may add.
NamespaceInv ==
    FixXahauV1 => \A a \in Account : cache[a] # NoCache =>
        /\ Cardinality(namespaces[a] \cup CachedNamespaces(a)) <= cache[a].nsCount
        /\ cache[a].nsCount <= MaxNamespaces

\* modified_entry_count covers the modified entries, which stay within the limit.
LimitInv ==
    /\ IsFiniteSet(Modified)
    /\ Cardinality(Modified) <= modCount /\ Cardinality(Modified) <= MaxModifications

\* Modified slots of a that the ledger does not have yet.
Fresh(a) == {s \in Slot : <<a, s[1], s[2]>> \in Modified /\ data[a][s] = Nil}

\* Slots of a that are still to be written and that the ledger does not have yet.
ToCreate(a) == {s \in Slot : <<a, s[1], s[2]>> \in pending /\ data[a][s] = Nil}

\* Entries that were only read hold something.
ReadInv == \A a \in Account, s \in Slot :
               Cached(a, s) /\ ~cache[a].slots[s].modified => cache[a].slots[s].data # Nil

\* Before the commit the map has set a reserve aside for every fresh slot; during
\* it the balance still covers the slots that remain.
ReserveInv ==
    /\ phase \in {"strong", "callback"} =>
           \A a \in Account : cache[a] # NoCache =>
               /\ Cardinality(Fresh(a)) <= AvailableForReserves(a) - cache[a].avail
               /\ Fresh(a) # {} => cache[a].avail >= 0
    /\ phase \in {"strongWrite", "callbackWrite"} =>
           \A a \in Account : ToCreate(a) # {} =>
               balance[a] >= AccountReserve(ownerCount[a] + Cardinality(ToCreate(a)))

\* What is no longer to be written has been written.
DoneInv ==
    phase \in {"strongWrite", "callbackWrite"} => \A p \in Modified \ pending : Stored(p) = Blob(p)

\* The map of a callback holds nothing that an earlier one left when it rolled back.
RevokedInv == phase \in {"callback", "callbackWrite"} => revoked \cap Modified = {}

MapInv == /\ NamespacesBounded /\ NamespaceInv /\ LimitInv /\ CacheCoherent /\ ReadInv
          /\ ReserveInv /\ DoneInv /\ RevokedInv

\* The map after set_state_cache: one slot of one account has changed.
MapChanged(a, s, v, modified) ==
    /\ \A b \in Account : b # a => cache'[b] = cache[b]
    /\ cache'[a] = Entered(a, s, v, modified)
    /\ cache'[a] # NoCache
    /\ \A t \in Slot : t # s => cache'[a].slots[t] =
           IF cache[a] = NoCache THEN NoEntry ELSE cache[a].slots[t]
    /\ cache'[a].slots[s] =
           [modified |-> modified \/ (Cached(a, s) /\ cache[a].slots[s].modified), data |-> v]
    /\ cache'[a].slots[s] # NoEntry

\* set_state_cache changes the map so.
LEMMA MapChange ==
    ASSUME IInv, NEW a \in Account, NEW s \in Slot, NEW v \in Value \cup {Nil},
           NEW modified \in BOOLEAN, SetStateCache(a, s, v, modified)
    PROVE  MapChanged(a, s, v, modified)
<1>1. IsFiniteSet(namespaces[a])
  <2>1. namespaces[a] \subseteq Namespace
    BY Zenon DEF IInv, TypeOK
  <2> QED
    BY <2>1, FS_Subset, HookStateAssumption, Zenon
<1>2. Entered(a, s, v, modified) \in MapEntry
  BY <1>1, EnteredTyped, Zenon DEF IInv
<1>3. cache' = [cache EXCEPT ![a] = Entered(a, s, v, modified)]
  BY Zenon DEF SetStateCache
<1>4. cache \in [Account -> MapEntry \cup {NoCache}]
  BY Zenon DEF IInv, TypeOK
<1>5. /\ cache' \in [Account -> MapEntry \cup {NoCache}]
      /\ \A b \in Account : b # a => cache'[b] = cache[b]
      /\ cache'[a] = Entered(a, s, v, modified)
  BY <1>2, <1>3, <1>4, Zenon
<1>6. cache'[a] # NoCache
  BY <1>2, <1>5, HookStateAssumption, Zenon
<1>7. /\ \A t \in Slot : t # s => Entered(a, s, v, modified).slots[t] =
              IF cache[a] = NoCache THEN NoEntry ELSE cache[a].slots[t]
      /\ Entered(a, s, v, modified).slots[s] =
              [modified |-> modified \/ (Cached(a, s) /\ cache[a].slots[s].modified), data |-> v]
  <2>1. CASE cache[a] = NoCache
    BY <2>1, Zenon DEF Entered, Cached
  <2>2. CASE cache[a] # NoCache
    <3>1. cache[a] \in MapEntry
      BY <1>4, <2>2, Zenon
    <3>2. cache[a].slots \in [Slot -> CacheEntry \cup {NoEntry}]
      BY <3>1, Zenon DEF MapEntry
    <3> QED
      BY <2>2, <3>2, Zenon DEF Entered
  <2> QED
    BY <2>1, <2>2, Zenon
<1>8. Entered(a, s, v, modified).slots[s] # NoEntry
  <2>1. [modified |-> modified \/ (Cached(a, s) /\ cache[a].slots[s].modified), data |-> v] \in CacheEntry
    BY Zenon DEF CacheEntry
  <2> QED
    BY <1>7, <2>1, HookStateAssumption, Zenon
<1> QED
  BY <1>5, <1>6, <1>7, <1>8, Zenon DEF MapChanged

\* Which slots are in the map after it.
LEMMA CachedAfter ==
    ASSUME IInv, NEW a \in Account, NEW s \in Slot, NEW v \in Value \cup {Nil},
           NEW modified \in BOOLEAN, SetStateCache(a, s, v, modified),
           NEW b \in Account, NEW t \in Slot
    PROVE  /\ Cached(b, t)' <=> Cached(b, t) \/ (b = a /\ t = s)
           /\ Cached(b, t) /\ ~(b = a /\ t = s) => cache'[b].slots[t] = cache[b].slots[t]
<1>0. MapChanged(a, s, v, modified)
  BY MapChange, Zenon
<1>1. /\ \A c \in Account : c # a => cache'[c] = cache[c]
      /\ cache'[a] # NoCache
      /\ \A u \in Slot : u # s => cache'[a].slots[u] =
             IF cache[a] = NoCache THEN NoEntry ELSE cache[a].slots[u]
      /\ cache'[a].slots[s] # NoEntry
  BY <1>0, Zenon DEF MapChanged
<1>2. CASE b # a
  BY <1>1, <1>2, Zenon DEF Cached
<1>3. CASE b = a /\ t # s
  BY <1>1, <1>3, Zenon DEF Cached
<1>4. CASE b = a /\ t = s
  BY <1>1, <1>4, Zenon DEF Cached
<1> QED
  BY <1>2, <1>3, <1>4, Zenon

\* Which slots are modified after it.
LEMMA ModifiedAfter ==
    ASSUME IInv, NEW a \in Account, NEW s \in Slot, NEW v \in Value \cup {Nil},
           NEW modified \in BOOLEAN, SetStateCache(a, s, v, modified),
           modified \/ ~Cached(a, s)
    PROVE  Modified' = IF modified THEN Modified \cup {<<a, s[1], s[2]>>} ELSE Modified
<1>0. MapChanged(a, s, v, modified)
  BY MapChange, Zenon
<1>1. /\ \A p \in Place : p[1] \in Account /\ <<p[2], p[3]>> \in Slot
      /\ <<a, s[1], s[2]>> \in Place /\ s = <<s[1], s[2]>>
      /\ \A p \in Place : p[1] = a /\ <<p[2], p[3]>> = s <=> p = <<a, s[1], s[2]>>
  BY DEF Place, Slot
<1>2. ASSUME NEW p \in Place
      PROVE  p \in Modified' <=> p \in Modified \/ (modified /\ p = <<a, s[1], s[2]>>)
  <2> DEFINE b == p[1]
             t == <<p[2], p[3]>>
  <2>1. b \in Account /\ t \in Slot /\ (b = a /\ t = s <=> p = <<a, s[1], s[2]>>)
    BY <1>1, Zenon
  <2>2. p \in Modified' <=> Cached(b, t)' /\ cache'[b].slots[t].modified
    BY Zenon DEF Modified
  <2>3. p \in Modified <=> Cached(b, t) /\ cache[b].slots[t].modified
    BY Zenon DEF Modified
  <2> HIDE DEF b, t
  <2>4. CASE b = a /\ t = s
    <3>1. Cached(b, t)'
      BY <2>1, <2>4, CachedAfter
    <3>2. cache'[b].slots[t] =
              [modified |-> modified \/ (Cached(a, s) /\ cache[a].slots[s].modified), data |-> v]
      BY <1>0, <2>4, Zenon DEF MapChanged
    <3>3. cache'[b].slots[t].modified <=> modified \/ (Cached(a, s) /\ cache[a].slots[s].modified)
      BY <3>2
    <3> QED
      BY <2>1, <2>2, <2>3, <2>4, <3>1, <3>3, Zenon
  <2>5. CASE ~(b = a /\ t = s)
    <3>1. (Cached(b, t)' <=> Cached(b, t)) /\ (Cached(b, t) => cache'[b].slots[t] = cache[b].slots[t])
      BY <2>1, <2>5, CachedAfter
    <3> QED
      BY <2>1, <2>2, <2>3, <2>5, <3>1, Zenon
  <2> QED
    BY <2>4, <2>5, Zenon
<1>3. Modified \subseteq Place /\ Modified' \subseteq Place
  BY Zenon DEF Modified
<1> QED
  BY <1>1, <1>2, <1>3, Zenon

\* A slot that is put in the map: it is marked modified, or the ledger has it.
Puts(a, s, v, modified) ==
    /\ SetStateCache(a, s, v, modified)
    /\ UNCHANGED <<account, balance, phase, pending>>
    /\ pending = {}
    /\ ~modified => ~Cached(a, s) /\ v = data[a][s] /\ v # Nil

\* The count of namespaces covers the one that is put in the map.
LEMMA PutNamespace ==
    ASSUME IInv, NamespacesBounded, NamespaceInv, NEW a \in Account, NEW s \in Slot,
           NEW v \in Value \cup {Nil}, NEW modified \in BOOLEAN, Puts(a, s, v, modified)
    PROVE  NamespaceInv'
<1> SUFFICES ASSUME FixXahauV1, NEW b \in Account, cache'[b] # NoCache
             PROVE  /\ Cardinality(namespaces[b] \cup CachedNamespaces(b)') <= cache'[b].nsCount
                    /\ cache'[b].nsCount <= MaxNamespaces
  BY Zenon DEF NamespaceInv, Puts, account
<1>0. SetStateCache(a, s, v, modified) /\ MapChanged(a, s, v, modified)
  BY MapChange, Zenon DEF Puts
<1>1. CASE b # a
  <2>1. cache'[b] = cache[b]
    BY <1>0, <1>1, Zenon DEF MapChanged
  <2>2. CachedNamespaces(b)' = CachedNamespaces(b)
    BY <2>1, Zenon DEF CachedNamespaces, NamespaceCached, Cached
  <2> QED
    BY <2>1, <2>2, Zenon DEF NamespaceInv
<1>2. CASE b = a
  <2> DEFINE n == s[1]
             U == namespaces[a] \cup CachedNamespaces(a)
             new == CreatesNamespace(a, n) /\ ~NamespaceCached(a, n)
  <2>1. n \in Namespace /\ s[2] \in Key /\ s = <<n, s[2]>>
    BY DEF Slot
  <2>2. CachedNamespaces(a)' = CachedNamespaces(a) \cup {n}
    <3>1. \A m \in Namespace, k \in Key : <<m, k>> \in Slot /\ (<<m, k>> = s => m = n)
      BY DEF Slot
    <3>2. ASSUME NEW m \in Namespace, NEW k \in Key
          PROVE  Cached(a, <<m, k>>)' <=> Cached(a, <<m, k>>) \/ <<m, k>> = s
      <4>1. <<m, k>> \in Slot
        BY <3>1, Zenon
      <4> QED
        BY <1>0, <4>1, CachedAfter
    <3>3. \A m \in Namespace : NamespaceCached(a, m)' <=> NamespaceCached(a, m) \/ m = n
      BY <2>1, <3>1, <3>2, Zenon DEF NamespaceCached
    <3> QED
      BY <2>1, <3>3, Zenon DEF CachedNamespaces
  <2>3. U \subseteq Namespace /\ IsFiniteSet(U) /\ Cardinality(U) \in Nat
    <3>1. U \subseteq Namespace
      BY Zenon DEF IInv, TypeOK, CachedNamespaces
    <3> QED
      BY <3>1, FS_Subset, FS_CardinalityType, HookStateAssumption, Zenon
  <2>4. CreatesNamespace(a, n) <=> n \notin namespaces[a]
    BY <2>1, Zenon DEF IInv, NamespacesExact, CreatesNamespace
  <2>5. new <=> n \notin U
    BY <2>1, <2>4, Zenon DEF CachedNamespaces
  <2>6. Cardinality(U \cup {n}) = Cardinality(U) + One(new)
    <3>1. Cardinality(U \cup {n}) = IF n \in U THEN Cardinality(U) ELSE Cardinality(U) + 1
      BY <2>3, FS_AddElement, Zenon
    <3> HIDE DEF U, new
    <3> QED
      BY <2>3, <2>5, <3>1 DEF One
  <2>7. namespaces[a] \cup CachedNamespaces(a)' = U \cup {n}
    BY <2>2, Zenon
  <2>8. ASSUME cache[a] = NoCache
       PROVE  /\ Cardinality(U \cup {n}) <= cache'[a].nsCount
              /\ cache'[a].nsCount <= MaxNamespaces
    <3>1. ~NamespaceCached(a, n) /\ CachedNamespaces(a) = {}
      BY <2>8, Zenon DEF NamespaceCached, CachedNamespaces, Cached
    <3>2. cache'[a].nsCount = Cardinality(namespaces[a]) + One(CreatesNamespace(a, n))
      <4>1. cache'[a] = Entered(a, s, v, modified)
        BY <1>0, Zenon DEF MapChanged
      <4> QED
        BY <2>8, <4>1 DEF Entered
    <3>3. CreatesNamespace(a, n) => Cardinality(namespaces[a]) + 1 <= MaxNamespaces
      BY <1>0, <2>8, Zenon DEF SetStateCache, Accepts
    <3>4. Cardinality(namespaces[a]) <= MaxNamespaces
      BY Zenon DEF NamespacesBounded
    <3>5. U = namespaces[a]
      BY <3>1, Zenon
    <3>6. new <=> CreatesNamespace(a, n)
      BY <3>1, Zenon
    <3>7. MaxNamespaces \in Nat
      BY HookStateAssumption, Zenon
    <3> HIDE DEF U, new
    <3>8. One(new) = One(CreatesNamespace(a, n))
      BY <3>6, Zenon DEF One
    <3> QED
      BY <2>3, <2>6, <3>2, <3>3, <3>4, <3>5, <3>7, <3>8 DEF One
  <2>9. ASSUME cache[a] # NoCache
       PROVE  /\ Cardinality(U \cup {n}) <= cache'[a].nsCount
              /\ cache'[a].nsCount <= MaxNamespaces
    <3>1. new => modified /\ ~Cached(a, s)
      <4>1. ~modified => n \in namespaces[a]
        <5>1. ~modified => data[a][<<n, s[2]>>] # Nil
          BY <2>1, Zenon DEF Puts
        <5> QED
          BY <2>1, <5>1, Zenon DEF NamespaceExists, IInv, NamespacesExact
      <4>2. Cached(a, s) => NamespaceCached(a, n)
        BY <2>1, Zenon DEF NamespaceCached
      <4> QED
        BY <2>4, <4>1, <4>2, Zenon
    <3>2. cache'[a].nsCount = cache[a].nsCount + One(/\ modified /\ ~NamespaceCached(a, n)
                                                    /\ CreatesNamespace(a, n))
      <4>1. cache'[a] = Entered(a, s, v, modified)
        BY <1>0, Zenon DEF MapChanged
      <4> QED
        BY <2>9, <4>1 DEF Entered, One
    <3>3. (/\ modified /\ ~NamespaceCached(a, n) /\ CreatesNamespace(a, n)) <=> new
      BY <3>1, Zenon
    <3>4. new => cache[a].nsCount + 1 <= MaxNamespaces
      BY <1>0, <2>9, <3>1, Zenon DEF SetStateCache, Accepts
    <3>5. Cardinality(U) <= cache[a].nsCount /\ cache[a].nsCount <= MaxNamespaces
      BY <2>9, Zenon DEF NamespaceInv
    <3>6. cache[a].nsCount \in Nat /\ MaxNamespaces \in Nat
      <4>1. cache[a] \in MapEntry
        BY <2>9, Zenon DEF IInv, TypeOK
      <4> QED
        BY <4>1, HookStateAssumption, Zenon DEF MapEntry
    <3>7. cache'[a].nsCount = cache[a].nsCount + One(new)
      <4> HIDE DEF new
      <4> QED
        BY <3>2, <3>3, Zenon DEF One
    <3> HIDE DEF U, new
    <3> QED
      BY <2>3, <2>6, <3>4, <3>5, <3>6, <3>7 DEF One
  <2>10. /\ Cardinality(U \cup {n}) <= cache'[a].nsCount
         /\ cache'[a].nsCount <= MaxNamespaces
    BY <2>8, <2>9, Zenon
  <2> HIDE DEF U, n
  <2> QED
    BY <1>2, <2>7, <2>10, Zenon
<1> QED
  BY <1>1, <1>2, Zenon

\* modified_entry_count covers the slot that is put in the map.
LEMMA PutLimit ==
    ASSUME IInv, LimitInv, NEW a \in Account, NEW s \in Slot,
           NEW v \in Value \cup {Nil}, NEW modified \in BOOLEAN, Puts(a, s, v, modified)
    PROVE  LimitInv'
<1> DEFINE p == <<a, s[1], s[2]>>
<1>1. SetStateCache(a, s, v, modified) /\ (modified \/ ~Cached(a, s))
  BY Zenon DEF Puts
<1>2. Modified' = IF modified THEN Modified \cup {p} ELSE Modified
  BY <1>1, ModifiedAfter, Zenon
<1>3. /\ modified => modCount < MaxModifications
      /\ modCount' = modCount + One(modified \/ cache[a] = NoCache)
  BY <1>1, Zenon DEF SetStateCache, Accepts
<1>4. IsFiniteSet(Modified) /\ Cardinality(Modified) \in Nat
  BY FS_CardinalityType, Zenon DEF LimitInv
<1>5. /\ IsFiniteSet(Modified \cup {p})
      /\ Cardinality(Modified \cup {p}) \in {Cardinality(Modified), Cardinality(Modified) + 1}
  BY <1>4, FS_AddElement, Zenon
<1>6. modCount \in Nat /\ MaxModifications \in Nat
  BY HookStateAssumption, Zenon DEF IInv, TypeOK
<1> HIDE DEF p
<1>7. CASE modified
  <2>1. modCount' = modCount + 1 /\ Modified' = Modified \cup {p}
    BY <1>2, <1>3, <1>7, Zenon DEF One
  <2> QED
    BY <1>3, <1>4, <1>5, <1>6, <1>7, <2>1 DEF LimitInv
<1>8. CASE ~modified
  <2>1. modCount' >= modCount /\ Modified' = Modified
    BY <1>2, <1>3, <1>6, <1>8 DEF One
  <2>2. modCount' \in Nat
    BY <1>3, <1>6 DEF One
  <2> QED
    BY <1>4, <1>6, <2>1, <2>2 DEF LimitInv
<1> QED
  BY <1>7, <1>8, Zenon

\* What is put in the map unmarked is what the ledger holds.
LEMMA PutCoherent ==
    ASSUME IInv, CacheCoherent, NEW a \in Account, NEW s \in Slot,
           NEW v \in Value \cup {Nil}, NEW modified \in BOOLEAN, Puts(a, s, v, modified)
    PROVE  CacheCoherent'
<1> SUFFICES ASSUME NEW b \in Account, NEW t \in Slot, Cached(b, t)', ~cache'[b].slots[t].modified
             PROVE  cache'[b].slots[t].data = data[b][t]
  BY Zenon DEF CacheCoherent, Puts, account
<1>0. SetStateCache(a, s, v, modified) /\ MapChanged(a, s, v, modified)
  BY MapChange, Zenon DEF Puts
<1>1. CASE b = a /\ t = s
  <2>1. cache'[a].slots[s] =
          [modified |-> modified \/ (Cached(a, s) /\ cache[a].slots[s].modified), data |-> v]
    BY <1>0, Zenon DEF MapChanged
  <2>2. ~modified
    BY <1>1, <2>1
  <2> QED
    BY <1>1, <2>1, <2>2 DEF Puts
<1>2. CASE ~(b = a /\ t = s)
  <2>1. Cached(b, t) /\ cache'[b].slots[t] = cache[b].slots[t]
    BY <1>0, <1>2, CachedAfter
  <2> QED
    BY <2>1, Zenon DEF CacheCoherent
<1> QED
  BY <1>1, <1>2, Zenon

\* What is put in the map unmarked is not empty.
LEMMA PutRead ==
    ASSUME IInv, ReadInv, NEW a \in Account, NEW s \in Slot,
           NEW v \in Value \cup {Nil}, NEW modified \in BOOLEAN, Puts(a, s, v, modified)
    PROVE  ReadInv'
<1> SUFFICES ASSUME NEW b \in Account, NEW t \in Slot, Cached(b, t)', ~cache'[b].slots[t].modified
             PROVE  cache'[b].slots[t].data # Nil
  BY Zenon DEF ReadInv
<1>0. SetStateCache(a, s, v, modified) /\ MapChanged(a, s, v, modified)
  BY MapChange, Zenon DEF Puts
<1>1. CASE b = a /\ t = s
  <2>1. cache'[a].slots[s] =
          [modified |-> modified \/ (Cached(a, s) /\ cache[a].slots[s].modified), data |-> v]
    BY <1>0, Zenon DEF MapChanged
  <2>2. ~modified
    BY <1>1, <2>1
  <2> QED
    BY <1>1, <2>1, <2>2 DEF Puts
<1>2. CASE ~(b = a /\ t = s)
  <2>1. Cached(b, t) /\ cache'[b].slots[t] = cache[b].slots[t]
    BY <1>0, <1>2, CachedAfter
  <2> QED
    BY <2>1, Zenon DEF ReadInv
<1> QED
  BY <1>1, <1>2, Zenon

\* Slots that are put in the map and are fresh.
LEMMA FreshAfter ==
    ASSUME IInv, CacheCoherent, ReadInv, NEW a \in Account, NEW s \in Slot,
           NEW v \in Value \cup {Nil}, NEW modified \in BOOLEAN, Puts(a, s, v, modified)
    PROVE  /\ \A b \in Account \ {a} : Fresh(b)' = Fresh(b)
           /\ Fresh(a)' \subseteq Fresh(a) \cup {s}
           /\ ~modified \/ Cached(a, s) => Fresh(a)' = Fresh(a)
<1> DEFINE p == <<a, s[1], s[2]>>
<1>1. data' = data /\ SetStateCache(a, s, v, modified) /\ (modified \/ ~Cached(a, s))
  BY Zenon DEF Puts, account
<1>2. Modified' = IF modified THEN Modified \cup {p} ELSE Modified
  BY <1>1, ModifiedAfter, Zenon
<1>3. \A b \in Account, t \in Slot : <<b, t[1], t[2]>> = p <=> b = a /\ t = s
  BY DEF Slot
<1>4. Cached(a, s) /\ p \notin Modified => data[a][s] # Nil
  <2>1. p \in Place /\ p[1] = a /\ <<p[2], p[3]>> = s
    BY DEF Slot, Place
  <2>2. Cached(a, s) /\ p \notin Modified => ~cache[a].slots[s].modified
    BY <2>1, Zenon DEF Modified
  <2> QED
    BY <2>2, Zenon DEF CacheCoherent, ReadInv
<1> HIDE DEF p
<1>5. \A b \in Account \ {a} : Fresh(b)' = Fresh(b)
  BY <1>1, <1>2, <1>3, Zenon DEF Fresh
<1>6. Fresh(a)' \subseteq Fresh(a) \cup {s}
  BY <1>1, <1>2, <1>3, Zenon DEF Fresh
<1>7. ~modified \/ Cached(a, s) => Fresh(a)' = Fresh(a)
  BY <1>1, <1>2, <1>3, <1>4, Zenon DEF Fresh
<1> QED
  BY <1>5, <1>6, <1>7, Zenon

\* Fresh slots can be counted.
LEMMA FreshFinite ==
    ASSUME NEW a
    PROVE  /\ IsFiniteSet(Fresh(a)) /\ Cardinality(Fresh(a)) \in Nat
           /\ IsFiniteSet(ToCreate(a)) /\ Cardinality(ToCreate(a)) \in Nat
<1>1. Fresh(a) \subseteq Slot /\ ToCreate(a) \subseteq Slot
  BY Zenon DEF Fresh, ToCreate
<1> QED
  BY <1>1, SlotFinite, FS_Subset, FS_CardinalityType, Zenon

\* The division of the reserve yields a number.
LEMMA AvailableInt ==
    ASSUME TypeOK, NEW a \in Account
    PROVE  AvailableForReserves(a) \in Int
<1>1. balance[a] \in Int /\ ownerCount[a] \in Int /\ BaseReserve \in Int
      /\ Increment \in Int /\ Increment > 0
  BY HookStateAssumption DEF TypeOK
<1>2. balance[a] - AccountReserve(ownerCount[a]) \in Int
  BY <1>1 DEF AccountReserve
<1> QED
  BY <1>1, <1>2 DEF AvailableForReserves

\* The map has set a reserve aside for a fresh slot that is put in it.
LEMMA PutReserve ==
    ASSUME IInv, CacheCoherent, ReadInv, ReserveInv, NEW a \in Account, NEW s \in Slot,
           NEW v \in Value \cup {Nil}, NEW modified \in BOOLEAN, Puts(a, s, v, modified),
           phase \notin {"strongWrite", "callbackWrite"}
    PROVE  ReserveInv'
<1>0. SetStateCache(a, s, v, modified) /\ MapChanged(a, s, v, modified)
  BY MapChange, Zenon DEF Puts
<1>1. phase' = phase /\ balance' = balance /\ ownerCount' = ownerCount
  BY Zenon DEF Puts, account
<1> SUFFICES ASSUME phase \in {"strong", "callback"}, NEW b \in Account, cache'[b] # NoCache
             PROVE  /\ Cardinality(Fresh(b)') <= AvailableForReserves(b) - cache'[b].avail
                    /\ Fresh(b)' # {} => cache'[b].avail >= 0
  BY <1>1, Zenon DEF ReserveInv, AvailableForReserves
<1>2. CASE b # a
  <2>1. cache'[b] = cache[b]
    BY <1>0, <1>2, Zenon DEF MapChanged
  <2>2. Fresh(b)' = Fresh(b)
    BY <1>2, FreshAfter
  <2> QED
    BY <2>1, <2>2, Zenon DEF ReserveInv
<1>3. CASE b = a
  <2> DEFINE A == AvailableForReserves(a)
             F == Fresh(a)
             G == Fresh(a)'
  <2>1. A \in Int
    BY AvailableInt, Zenon DEF IInv
  <2>2. G \subseteq F \cup {s} /\ (~modified \/ Cached(a, s) => G = F)
    BY FreshAfter
  <2>3. IsFiniteSet(F) /\ Cardinality(F) \in Nat
    BY FreshFinite, Zenon
  <2>4. Cardinality(G) \in Nat /\ Cardinality(G) <= Cardinality(F) + 1
    <3> HIDE DEF F, G
    <3>1. IsFiniteSet(F \cup {s}) /\ Cardinality(F \cup {s}) \in {Cardinality(F), Cardinality(F) + 1}
      BY <2>3, FS_AddElement, Zenon
    <3>2. IsFiniteSet(G) /\ Cardinality(G) <= Cardinality(F \cup {s})
      BY <2>2, <3>1, FS_Subset, Zenon
    <3>3. Cardinality(G) \in Nat
      BY <3>2, FS_CardinalityType, Zenon
    <3> QED
      BY <2>3, <3>1, <3>2, <3>3
  <2>5. cache'[a] = Entered(a, s, v, modified)
    BY <1>0, Zenon DEF MapChanged
  <2>6. ASSUME cache[a] = NoCache
        PROVE  Cardinality(G) <= A - cache'[a].avail /\ (G # {} => cache'[a].avail >= 0)
    <3>1. F = {}
      BY <2>6, Zenon DEF Fresh, Modified, Cached
    <3>2. cache'[a].avail = A - 1
      BY <2>5, <2>6 DEF Entered
    <3>3. modified => A >= 1
      BY <1>0, <2>6, Zenon DEF SetStateCache, Accepts
    <3>4. Cardinality(F) = 0
      BY <3>1, FS_EmptySet, Zenon
    <3> HIDE DEF A, F, G
    <3> QED
      BY <2>1, <2>2, <2>4, <3>1, <3>2, <3>3, <3>4
  <2>7. ASSUME cache[a] # NoCache
        PROVE  Cardinality(G) <= A - cache'[a].avail /\ (G # {} => cache'[a].avail >= 0)
    <3>1. Cardinality(F) <= A - cache[a].avail /\ (F # {} => cache[a].avail >= 0)
      BY <2>7, Zenon DEF ReserveInv
    <3>2. cache[a].avail \in Int
      <4>1. cache[a] \in MapEntry
        BY <2>7, Zenon DEF IInv, TypeOK
      <4> QED
        BY <4>1, Zenon DEF MapEntry
    <3>3. cache'[a].avail = cache[a].avail - (IF modified /\ ~Cached(a, s) THEN 1 ELSE 0)
      BY <2>5, <2>7 DEF Entered, One
    <3>4. modified /\ ~Cached(a, s) => cache[a].avail > 0
      BY <1>0, <2>7, Zenon DEF SetStateCache, Accepts
    <3> HIDE DEF A, F, G
    <3> QED
      BY <2>1, <2>2, <2>3, <2>4, <3>1, <3>2, <3>3, <3>4
  <2>8. Cardinality(G) <= A - cache'[a].avail /\ (G # {} => cache'[a].avail >= 0)
    BY <2>6, <2>7, Zenon
  <2> QED
    BY <1>3, <2>8, Zenon
<1> QED
  BY <1>2, <1>3, Zenon

\* Reads and writes of a running hook keep what the map promises.
LEMMA MapCacheStep ==
    ASSUME IInv, MapInv, NEW a \in Account, NEW s \in Slot, NEW v \in Value \cup {Nil},
           Read(a, s) \/ Set(a, s, v)
    PROVE  MapInv'
<1> DEFINE p == <<a, s[1], s[2]>>
<1>1. Running /\ UNCHANGED <<account, balance, phase, pending>>
  BY Zenon DEF Read, Set
<1>2. phase \in {"strong", "callback", "weak", "again"} /\ pending = {}
  BY <1>1, NothingPending, Zenon DEF Running
<1>3. PICK w \in Value \cup {Nil}, m \in BOOLEAN :
          /\ Puts(a, s, w, m)
          /\ revoked' = IF m THEN revoked \ {p} ELSE revoked
  <2>1. CASE Read(a, s)
    <3>1. data[a][s] \in Value \cup {Nil}
      BY DEF IInv, TypeOK
    <3>2. Puts(a, s, data[a][s], FALSE) /\ revoked' = revoked
      BY <1>1, <1>2, <2>1, Zenon DEF Read, Puts
    <3> QED
      BY <3>1, <3>2, Zenon
  <2>2. CASE Set(a, s, v)
    <3>1. Puts(a, s, v, TRUE) /\ revoked' = revoked \ {p}
      BY <1>1, <1>2, <2>2, Zenon DEF Set, Puts
    <3> QED
      BY <3>1, Zenon
  <2> QED
    BY <2>1, <2>2, Zenon
<1>4. NamespacesBounded'
  BY <1>1, Zenon DEF MapInv, NamespacesBounded, account
<1>5. NamespaceInv'
  BY <1>3, PutNamespace, Zenon DEF MapInv
<1>6. LimitInv'
  BY <1>3, PutLimit, Zenon DEF MapInv
<1>7. CacheCoherent' /\ ReadInv'
  BY <1>3, PutCoherent, PutRead, Zenon DEF MapInv
<1>8. ReserveInv'
  BY <1>2, <1>3, PutReserve, Zenon DEF MapInv
<1>9. DoneInv'
  BY <1>1, <1>2, Zenon DEF DoneInv
<1>10. RevokedInv'
  <2>1. SetStateCache(a, s, w, m) /\ (m \/ ~Cached(a, s))
    BY <1>3, Zenon DEF Puts
  <2>2. Modified' = IF m THEN Modified \cup {p} ELSE Modified
    BY <2>1, ModifiedAfter, Zenon
  <2> HIDE DEF p
  <2> QED
    BY <1>1, <1>3, <2>2, Zenon DEF MapInv, RevokedInv
<1> QED
  BY <1>4, <1>5, <1>6, <1>7, <1>8, <1>9, <1>10, Zenon DEF MapInv

\* A larger owner count needs a larger reserve.
LEMMA ReserveMonotone ==
    ASSUME NEW m \in Int, NEW n \in Int, m <= n
    PROVE  AccountReserve(m) <= AccountReserve(n)
<1>1. BaseReserve \in Nat /\ Increment \in Nat
  BY HookStateAssumption, Zenon
<1>2. \A i, j, k \in Int : i <= j /\ k >= 0 => i * k <= j * k
  OBVIOUS
<1>3. m * Increment <= n * Increment /\ m * Increment \in Int /\ n * Increment \in Int
  BY <1>1, <1>2
<1> QED
  BY <1>1, <1>3 DEF AccountReserve

\* What is available for reserves pays for that many entries.
LEMMA AvailablePays ==
    ASSUME TypeOK, NEW a \in Account, NEW n \in Nat \ {0}, n <= AvailableForReserves(a)
    PROVE  balance[a] >= AccountReserve(ownerCount[a] + n)
<1> DEFINE spare == balance[a] - AccountReserve(ownerCount[a])
<1>1. balance[a] \in Nat /\ ownerCount[a] \in Nat /\ BaseReserve \in Nat
      /\ Increment \in Nat /\ Increment > 0
  BY HookStateAssumption DEF TypeOK
<1>2. AccountReserve(ownerCount[a]) \in Int
  BY <1>1 DEF AccountReserve
<1>3. spare \in Int
  BY <1>1, <1>2
<1>4. AvailableForReserves(a) = IF spare >= 0 THEN spare \div Increment ELSE -((-spare) \div Increment)
  BY Zenon DEF AvailableForReserves
<1>5. \A x \in Nat : x \div Increment \in Nat /\ (x \div Increment) * Increment <= x
  BY <1>1
<1>6. spare >= 0 /\ n <= spare \div Increment
  <2>1. CASE spare >= 0
    BY <1>4, <2>1, Zenon
  <2>2. CASE ~(spare >= 0)
    <3>1. (-spare) \in Nat
      BY <1>3, <2>2
    <3>2. (-spare) \div Increment \in Nat
      BY <1>5, <3>1, Zenon
    <3>3. AvailableForReserves(a) = -((-spare) \div Increment)
      BY <1>4, <2>2, Zenon
    <3> HIDE DEF spare
    <3> QED
      BY <3>2, <3>3
  <2> QED
    BY <2>1, <2>2, Zenon
<1>7. n * Increment <= spare
  <2> HIDE DEF spare
  <2>1. spare \in Nat
    BY <1>3, <1>6
  <2>2. spare \div Increment \in Nat /\ (spare \div Increment) * Increment <= spare
    BY <1>5, <2>1, Zenon
  <2>3. \A i, j, k \in Int : i <= j /\ k >= 0 => i * k <= j * k
    OBVIOUS
  <2>4. n * Increment <= (spare \div Increment) * Increment
    BY <1>1, <1>6, <2>2, <2>3
  <2>5. n * Increment \in Int /\ (spare \div Increment) * Increment \in Int
    BY <1>1, <2>2
  <2> QED
    BY <2>1, <2>2, <2>4, <2>5
<1>8. AccountReserve(ownerCount[a] + n) = AccountReserve(ownerCount[a]) + n * Increment
  BY <1>1 DEF AccountReserve
<1>9. n * Increment \in Int
  BY <1>1
<1> QED
  BY <1>1, <1>2, <1>7, <1>8, <1>9

\* What the map promises, without the phase it is in.
Promise == NamespacesBounded /\ NamespaceInv /\ LimitInv /\ CacheCoherent /\ ReadInv

\* A step that leaves entries and map alone leaves that as it is.
LEMMA PromiseKept ==
    ASSUME Promise, UNCHANGED <<account, map>>
    PROVE  /\ Promise' /\ Modified' = Modified
           /\ \A a \in Account : Fresh(a)' = Fresh(a)
<1>1. data' = data /\ namespaces' = namespaces /\ cache' = cache /\ modCount' = modCount
  BY Zenon DEF account, map
<1>2. Modified' = Modified
  BY <1>1, Zenon DEF Modified, Cached
<1>3. NamespacesBounded'
  BY <1>1, Zenon DEF Promise, NamespacesBounded
<1>4. NamespaceInv'
  <2>1. \A a \in Account : CachedNamespaces(a)' = CachedNamespaces(a)
    BY <1>1, Zenon DEF CachedNamespaces, NamespaceCached, Cached
  <2> QED
    BY <1>1, <2>1, Zenon DEF Promise, NamespaceInv
<1>5. LimitInv'
  BY <1>1, <1>2, Zenon DEF Promise, LimitInv
<1>6. CacheCoherent' /\ ReadInv'
  BY <1>1, Zenon DEF Promise, CacheCoherent, ReadInv, Cached
<1>7. \A a \in Account : Fresh(a)' = Fresh(a)
  BY <1>1, <1>2, Zenon DEF Fresh
<1> QED
  BY <1>2, <1>3, <1>4, <1>5, <1>6, <1>7, Zenon DEF Promise

\* Starting and ending hooks keeps what the map promises: a fee is taken in the
\* weak phase only, where no commit is promised.
LEMMA MapHookStep ==
    ASSUME IInv, MapInv,
           \/ \E a \in Account, s \in Slot : Denied(a, s)
           \/ \E a \in Account : StrongHook(a) \/ WeakHook(a) \/ AgainAsWeak(a)
           \/ NextWeakHook \/ WeakRollback
    PROVE  MapInv'
<1>1. UNCHANGED <<account, map, pending>>
  BY Zenon DEF Denied, StrongHook, WeakHook, AgainAsWeak, NextWeakHook, WeakRollback
<1>2. \/ phase' = phase /\ phase \in {"strong", "callback"} /\ UNCHANGED <<balance, revoked>>
      \/ phase' \in {"weak", "again"}
  BY Zenon DEF Denied, StrongHook, WeakHook, AgainAsWeak, NextWeakHook, WeakRollback, Running
<1>3. Promise
  BY Zenon DEF MapInv, Promise
<1>4. /\ Promise' /\ Modified' = Modified
      /\ \A a \in Account : Fresh(a)' = Fresh(a)
  BY <1>1, <1>3, PromiseKept, Zenon
<1>5. ReserveInv'
  <2>1. CASE phase' = phase /\ phase \in {"strong", "callback"} /\ UNCHANGED <<balance, revoked>>
    <3>1. cache' = cache /\ ownerCount' = ownerCount
      BY <1>1, Zenon DEF map, account
    <3>2. \A a \in Account : AvailableForReserves(a)' = AvailableForReserves(a)
      BY <2>1, <3>1, Zenon DEF AvailableForReserves
    <3> QED
      BY <1>4, <2>1, <3>1, <3>2, Zenon DEF MapInv, ReserveInv
  <2>2. CASE phase' \in {"weak", "again"}
    BY <2>2, Zenon DEF ReserveInv
  <2> QED
    BY <1>2, <2>1, <2>2, Zenon
<1>6. DoneInv'
  BY <1>2, Zenon DEF DoneInv
<1>7. RevokedInv'
  BY <1>2, <1>4, Zenon DEF MapInv, RevokedInv
<1> QED
  BY <1>4, <1>5, <1>6, <1>7, Zenon DEF MapInv, Promise

\* A new map promises nothing yet.
LEMMA MapNewStep ==
    ASSUME IInv, MapInv, Apply \/ Reject \/ EnterWeak \/ Finish \/ \E a \in Account : CallbackHook(a)
    PROVE  MapInv'
<1>1. /\ cache' = EmptyMap /\ modCount' = 0 /\ UNCHANGED account
      /\ phase' \in {"callback", "weak", "strong"}
  BY Zenon DEF Apply, Reject, Applied, EnterWeak, Finish, CallbackHook, NextCallback, Cleared, NewMap
<1>2. \A a \in Account : cache'[a] = NoCache
  BY <1>1, Zenon DEF EmptyMap
<1>3. Modified' = {}
  BY <1>2, Zenon DEF Modified, Cached, Place
<1>4. NamespacesBounded'
  BY <1>1, Zenon DEF account, MapInv, NamespacesBounded
<1>5. NamespaceInv' /\ CacheCoherent' /\ ReadInv'
  BY <1>2, Zenon DEF NamespaceInv, CacheCoherent, ReadInv, Cached
<1>6. LimitInv'
  BY <1>1, <1>3, FS_EmptySet, HookStateAssumption DEF LimitInv
<1>7. ReserveInv'
  BY <1>1, <1>2, Zenon DEF ReserveInv
<1>8. DoneInv' /\ RevokedInv'
  BY <1>1, <1>3, Zenon DEF DoneInv, RevokedInv
<1> QED
  BY <1>4, <1>5, <1>6, <1>7, <1>8, Zenon DEF MapInv

\* When a commit begins, what was set aside for fresh slots becomes what the
\* balance covers.
LEMMA MapFinalizeStep ==
    ASSUME IInv, MapInv, FinalizeStrong \/ FinalizeCallback \/ FinalizeWeak
    PROVE  MapInv'
<1>1. /\ UNCHANGED <<account, balance, map, revoked>> /\ pending' = Modified
      /\ \/ phase = "strong" /\ phase' = "strongWrite"
         \/ phase = "callback" /\ phase' = "callbackWrite"
         \/ phase' = "weakWrite"
  BY Zenon DEF FinalizeStrong, FinalizeCallback, FinalizeWeak, Finalize, ToWrite
<1>2. Promise
  BY Zenon DEF MapInv, Promise
<1>3. Promise' /\ Modified' = Modified
  BY <1>1, <1>2, PromiseKept, Zenon
<1>4. ReserveInv'
  <2> SUFFICES ASSUME phase \in {"strong", "callback"}, NEW a \in Account, ToCreate(a)' # {}
               PROVE  balance[a] >= AccountReserve(ownerCount[a] + Cardinality(ToCreate(a)'))
    BY <1>1, Zenon DEF ReserveInv, account
  <2> DEFINE n == Cardinality(Fresh(a))
  <2>1. ToCreate(a)' = Fresh(a)
    BY <1>1, Zenon DEF ToCreate, Fresh, account
  <2>2. cache[a] # NoCache
    <3>1. PICK s \in Slot : <<a, s[1], s[2]>> \in Modified
      BY <2>1, Zenon DEF Fresh
    <3> QED
      BY <3>1, Zenon DEF Modified, Cached
  <2>3. n <= AvailableForReserves(a) - cache[a].avail /\ cache[a].avail >= 0
    BY <2>1, <2>2, Zenon DEF MapInv, ReserveInv
  <2>4. n \in Nat \ {0}
    <3>1. IsFiniteSet(Fresh(a)) /\ n \in Nat
      BY FreshFinite, Zenon
    <3>2. Fresh(a) # {}
      BY <2>1, Zenon
    <3> QED
      BY <3>1, <3>2, FS_EmptySet, Zenon
  <2>5. AvailableForReserves(a) \in Int /\ cache[a].avail \in Int
    <3>1. cache[a] \in MapEntry
      BY <2>2, Zenon DEF IInv, TypeOK
    <3> QED
      BY <3>1, AvailableInt, Zenon DEF MapEntry, IInv
  <2> HIDE DEF n
  <2>6. n <= AvailableForReserves(a)
    BY <2>3, <2>4, <2>5
  <2>7. balance[a] >= AccountReserve(ownerCount[a] + n)
    BY <2>4, <2>6, AvailablePays, Zenon DEF IInv
  <2> QED
    BY <2>1, <2>7, Zenon DEF n
<1>5. DoneInv'
  BY <1>1, <1>3, Zenon DEF DoneInv
<1>6. RevokedInv'
  BY <1>1, <1>3, Zenon DEF MapInv, RevokedInv
<1> QED
  BY <1>3, <1>4, <1>5, <1>6, Zenon DEF MapInv, Promise

\* A commit of the strong hooks' map or of a callback's can write its next slot.
LEMMA WritableNext ==
    ASSUME IInv, MapInv, phase \in {"strongWrite", "callbackWrite"}, NEW p \in pending
    PROVE  Writable(p)
<1> DEFINE a == p[1]
           s == <<p[2], p[3]>>
<1>1. p \in Place /\ a \in Account /\ s \in Slot /\ p = <<a, s[1], s[2]>>
  BY DEF IInv, TypeOK, Place, Slot
<1>2. Cardinality(Modified \ pending) + 1 <= MaxModifications + 1
  <2>1. IsFiniteSet(Modified) /\ Cardinality(Modified) <= MaxModifications
    BY Zenon DEF MapInv, LimitInv
  <2>2. IsFiniteSet(Modified \ pending) /\ Cardinality(Modified \ pending) <= Cardinality(Modified)
    BY <2>1, FS_Subset, Zenon
  <2>3. Cardinality(Modified \ pending) \in Nat /\ Cardinality(Modified) \in Nat
    BY <2>1, <2>2, FS_CardinalityType, Zenon
  <2> QED
    BY <2>1, <2>2, <2>3, HookStateAssumption
<1>3. Stored(p) = Nil => balance[a] >= AccountReserve(ownerCount[a] + 1)
  <2> SUFFICES ASSUME Stored(p) = Nil PROVE balance[a] >= AccountReserve(ownerCount[a] + 1)
    BY Zenon
  <2> DEFINE n == Cardinality(ToCreate(a))
  <2>1. s \in ToCreate(a)
    BY <1>1, Zenon DEF ToCreate, Stored
  <2>2. balance[a] >= AccountReserve(ownerCount[a] + n)
    BY <1>1, <2>1, Zenon DEF MapInv, ReserveInv
  <2>3. n \in Nat /\ n >= 1
    <3>1. IsFiniteSet(ToCreate(a)) /\ n \in Nat
      BY FreshFinite, Zenon
    <3> QED
      BY <2>1, <3>1, FS_EmptySet
  <2>4. balance[a] \in Nat /\ ownerCount[a] \in Nat
    BY <1>1, Zenon DEF IInv, TypeOK
  <2> HIDE DEF a, n
  <2>5. AccountReserve(ownerCount[a] + 1) <= AccountReserve(ownerCount[a] + n)
    BY <2>3, <2>4, ReserveMonotone
  <2>6. AccountReserve(ownerCount[a] + 1) \in Int /\ AccountReserve(ownerCount[a] + n) \in Int
    BY <2>3, <2>4, HookStateAssumption DEF AccountReserve
  <2> QED
    BY <2>2, <2>4, <2>5, <2>6
<1> QED
  BY <1>2, <1>3, Zenon DEF Writable

\* Only the weak hooks' commit can fail.
LEMMA MapFailStep ==
    ASSUME IInv, MapInv, NEW p \in Place, SetHookStateFails(p)
    PROVE  MapInv'
<1>1. /\ UNCHANGED <<account, map, phase>> /\ p \in pending /\ ~Writable(p)
      /\ phase \in {"strongWrite", "callbackWrite", "weakWrite"}
  BY Zenon DEF SetHookStateFails, Writing, IsNext
<1>2. phase = "weakWrite" /\ phase' = "weakWrite"
  BY <1>1, WritableNext, Zenon
<1>3. Promise
  BY Zenon DEF MapInv, Promise
<1>4. Promise'
  BY <1>1, <1>3, PromiseKept, Zenon
<1> QED
  BY <1>2, <1>4, Zenon DEF MapInv, Promise, ReserveInv, DoneInv, RevokedInv

\* setHookState in the terms of the slot it writes.
Writes(p, a, s) ==
    /\ a \in Account /\ s \in Slot /\ p = <<a, s[1], s[2]>> /\ p[1] = a /\ <<p[2], p[3]>> = s
    /\ p \in pending /\ p \in Modified /\ pending' = pending \ {p}
    /\ cache' = cache /\ UNCHANGED <<modCount, balance, phase, revoked>>
    /\ \A b \in Account \ {a} : /\ data'[b] = data[b] /\ ownerCount'[b] = ownerCount[b]
                                /\ namespaces'[b] = namespaces[b]
    /\ \A t \in Slot \ {s} : data'[a][t] = data[a][t]
    /\ data'[a][s] = Blob(p)
    /\ ownerCount'[a] = ownerCount[a] + OwnerChange(p)
    /\ namespaces'[a] \subseteq namespaces[a] \cup {s[1]}

\* What setHookState does to the entries.
LEMMA WriteEffect ==
    ASSUME IInv, NEW p \in Place, SetHookState(p)
    PROVE  Writes(p, p[1], <<p[2], p[3]>>)
<1> DEFINE a == p[1]
           s == <<p[2], p[3]>>
           d == [data[a] EXCEPT ![s] = Blob(p)]
           ns == NamespacesAfter(a, p[2], d)
<1>1. a \in Account /\ s \in Slot /\ p = <<a, s[1], s[2]>> /\ s[1] = p[2]
  BY DEF Place, Slot
<1>2. p \in pending /\ p \in Modified /\ pending' = pending \ {p}
  BY Zenon DEF SetHookState, IsNext, IInv, PendingInv
<1>3. /\ data' = [data EXCEPT ![a] = d]
      /\ ownerCount' = [ownerCount EXCEPT ![a] = @ + OwnerChange(p)]
      /\ namespaces' = [namespaces EXCEPT ![a] = ns]
      /\ UNCHANGED <<balance, map, phase, revoked>>
  BY Zenon DEF SetHookState
<1>4. data[a] \in [Slot -> Value \cup {Nil}]
  BY <1>1, Zenon DEF IInv, TypeOK
<1>5. d[s] = Blob(p) /\ \A t \in Slot \ {s} : d[t] = data[a][t]
  BY <1>1, <1>4, Zenon
<1>6. ns \subseteq namespaces[a] \cup {s[1]}
  BY <1>1, Zenon DEF NamespacesAfter
<1>7. cache' = cache /\ UNCHANGED <<modCount, balance, phase, revoked>>
  BY <1>3, Zenon DEF map
<1> HIDE DEF d, ns
<1>8. /\ data'[a] = d /\ ownerCount'[a] = ownerCount[a] + OwnerChange(p) /\ namespaces'[a] = ns
      /\ \A b \in Account \ {a} : /\ data'[b] = data[b] /\ ownerCount'[b] = ownerCount[b]
                                  /\ namespaces'[b] = namespaces[b]
  BY <1>1, <1>3, Zenon DEF IInv, TypeOK
<1> QED
  BY <1>1, <1>2, <1>5, <1>6, <1>7, <1>8, Zenon DEF Writes

\* A namespace that a commit adds was counted by set_state_cache.
LEMMA WriteNamespaces ==
    ASSUME IInv, MapInv, NEW p \in Place, NEW a, NEW s, Writes(p, a, s)
    PROVE  NamespacesBounded' /\ NamespaceInv'
<1>1. /\ a \in Account /\ s \in Slot /\ p[1] = a /\ <<p[2], p[3]>> = s /\ p \in Modified /\ cache' = cache
      /\ \A b \in Account \ {a} : namespaces'[b] = namespaces[b]
      /\ namespaces'[a] \subseteq namespaces[a] \cup {s[1]}
  BY Zenon DEF Writes
<1>2. cache[a] # NoCache /\ s[1] \in CachedNamespaces(a)
  <2>1. Cached(a, s) /\ s[1] \in Namespace /\ s[2] \in Key /\ s = <<s[1], s[2]>>
    BY <1>1, Zenon DEF Modified, Slot
  <2> QED
    BY <2>1, Zenon DEF CachedNamespaces, NamespaceCached, Cached
<1>3. \A b \in Account : namespaces'[b] \cup CachedNamespaces(b) \subseteq namespaces[b] \cup CachedNamespaces(b)
  BY <1>1, <1>2, Zenon
<1>4. \A b \in Account : CachedNamespaces(b)' = CachedNamespaces(b)
  BY <1>1, Zenon DEF CachedNamespaces, NamespaceCached, Cached
<1>5. \A b \in Account : IsFiniteSet(namespaces[b] \cup CachedNamespaces(b))
  <2>1. \A b \in Account : namespaces[b] \cup CachedNamespaces(b) \subseteq Namespace
    BY Zenon DEF IInv, TypeOK, CachedNamespaces
  <2> QED
    BY <2>1, FS_Subset, HookStateAssumption, Zenon
<1>6. ASSUME FixXahauV1, NEW b \in Account, cache[b] # NoCache
      PROVE  /\ Cardinality(namespaces'[b] \cup CachedNamespaces(b)) <= cache[b].nsCount
             /\ cache[b].nsCount <= MaxNamespaces
             /\ Cardinality(namespaces'[b]) <= MaxNamespaces
  <2> DEFINE U == namespaces[b] \cup CachedNamespaces(b)
             V == namespaces'[b] \cup CachedNamespaces(b)
             W == namespaces'[b]
  <2>1. Cardinality(U) <= cache[b].nsCount /\ cache[b].nsCount <= MaxNamespaces
    BY <1>6, Zenon DEF MapInv, NamespaceInv
  <2>2. W \subseteq V /\ V \subseteq U /\ IsFiniteSet(U)
    BY <1>3, <1>5, Zenon
  <2>3. cache[b].nsCount \in Nat /\ MaxNamespaces \in Nat
    <3>1. cache[b] \in MapEntry
      BY <1>6, Zenon DEF IInv, TypeOK
    <3> QED
      BY <3>1, HookStateAssumption, Zenon DEF MapEntry
  <2> HIDE DEF U, V, W
  <2>4. IsFiniteSet(V) /\ Cardinality(V) <= Cardinality(U)
    BY <2>2, FS_Subset, Zenon
  <2>5. IsFiniteSet(W) /\ Cardinality(W) <= Cardinality(V)
    BY <2>2, <2>4, FS_Subset, Zenon
  <2>6. Cardinality(U) \in Nat /\ Cardinality(V) \in Nat /\ Cardinality(W) \in Nat
    BY <2>2, <2>4, <2>5, FS_CardinalityType, Zenon
  <2>7. Cardinality(V) <= cache[b].nsCount /\ Cardinality(W) <= MaxNamespaces
    BY <2>1, <2>3, <2>4, <2>5, <2>6
  <2> QED
    BY <2>1, <2>7, Zenon DEF V, W
<1>7. NamespaceInv'
  BY <1>1, <1>4, <1>6, Zenon DEF NamespaceInv
<1>8. NamespacesBounded'
  <2> SUFFICES ASSUME FixXahauV1, NEW b \in Account PROVE Cardinality(namespaces'[b]) <= MaxNamespaces
    BY Zenon DEF NamespacesBounded
  <2>1. CASE b = a
    BY <1>2, <1>6, <2>1, Zenon
  <2>2. CASE b # a
    BY <1>1, <2>2, Zenon DEF MapInv, NamespacesBounded
  <2> QED
    BY <2>1, <2>2, Zenon
<1> QED
  BY <1>7, <1>8, Zenon

\* The balance still covers the slots that remain to be written.
LEMMA WriteReserve ==
    ASSUME IInv, IInv', MapInv, NEW p \in Place, NEW a, NEW s, Writes(p, a, s)
    PROVE  ReserveInv'
<1>1. /\ a \in Account /\ s \in Slot /\ p = <<a, s[1], s[2]>> /\ p \in pending /\ pending' = pending \ {p}
      /\ cache' = cache /\ UNCHANGED <<balance, phase>> /\ p[1] = a /\ <<p[2], p[3]>> = s
      /\ \A b \in Account \ {a} : data'[b] = data[b] /\ ownerCount'[b] = ownerCount[b]
      /\ \A t \in Slot \ {s} : data'[a][t] = data[a][t]
      /\ ownerCount'[a] = ownerCount[a] + OwnerChange(p)
  BY Zenon DEF Writes
<1>2. phase' \in {"strongWrite", "callbackWrite", "weakWrite"}
  BY <1>1, Zenon DEF IInv, PendingInv
<1> SUFFICES ASSUME phase \in {"strongWrite", "callbackWrite"}, NEW b \in Account, ToCreate(b)' # {}
             PROVE  balance[b] >= AccountReserve(ownerCount'[b] + Cardinality(ToCreate(b)'))
  BY <1>1, <1>2, Zenon DEF ReserveInv
<1>3. \A c \in Account, t \in Slot : <<c, t[1], t[2]>> = p <=> c = a /\ t = s
  BY <1>1 DEF Slot
<1>4. CASE b # a
  <2>1. ToCreate(b)' = ToCreate(b)
    BY <1>1, <1>3, <1>4 DEF ToCreate
  <2> QED
    BY <1>1, <1>4, <2>1, Zenon DEF MapInv, ReserveInv
<1>5. CASE b = a
  <2> DEFINE T == ToCreate(a)
             R == ToCreate(a)'
  <2>1. R = T \ {s}
    BY <1>1, <1>3, Zenon DEF ToCreate
  <2>2. IsFiniteSet(T) /\ Cardinality(T) \in Nat
    BY FreshFinite, Zenon
  <2>3. s \in T <=> Stored(p) = Nil
    BY <1>1, Zenon DEF ToCreate, Stored
  <2>4. OwnerChange(p) \in Int /\ OwnerChange(p) <= 1 /\ (s \notin T => OwnerChange(p) <= 0)
    <3> HIDE DEF T
    <3> QED
      BY <2>3 DEF OwnerChange, One
  <2>5. Cardinality(R) \in Nat /\ Cardinality(R) = IF s \in T THEN Cardinality(T) - 1 ELSE Cardinality(T)
    <3> HIDE DEF T, R
    <3>1. IsFiniteSet(R) /\ Cardinality(R) = IF s \in T THEN Cardinality(T) - 1 ELSE Cardinality(T)
      BY <2>1, <2>2, FS_RemoveElement, Zenon
    <3> QED
      BY <3>1, FS_CardinalityType, Zenon
  <2>6. ownerCount[a] \in Nat /\ ownerCount'[a] \in Nat /\ balance[a] \in Nat
    BY <1>1, Zenon DEF IInv, TypeOK
  <2>7. R # {}
    BY <1>5, Zenon
  <2>8. balance[a] >= AccountReserve(ownerCount[a] + Cardinality(T))
    <3>1. T # {}
      BY <2>1, <2>7, Zenon
    <3> QED
      BY <1>1, <3>1, Zenon DEF MapInv, ReserveInv
  <2> HIDE DEF T, R
  <2>9. ownerCount'[a] + Cardinality(R) <= ownerCount[a] + Cardinality(T)
    BY <1>1, <2>2, <2>4, <2>5, <2>6
  <2> DEFINE i == ownerCount'[a] + Cardinality(R)
             j == ownerCount[a] + Cardinality(T)
  <2>10. i \in Int /\ j \in Int /\ i <= j
    BY <2>2, <2>5, <2>6, <2>9
  <2> HIDE DEF i, j
  <2>11. AccountReserve(i) <= AccountReserve(j) /\ AccountReserve(i) \in Int /\ AccountReserve(j) \in Int
    <3>1. AccountReserve(i) <= AccountReserve(j)
      BY <2>10, ReserveMonotone, Zenon
    <3>2. AccountReserve(i) \in Int /\ AccountReserve(j) \in Int
      BY <2>10, HookStateAssumption DEF AccountReserve
    <3> QED
      BY <3>1, <3>2, Zenon
  <2>12. balance[a] >= AccountReserve(j)
    BY <2>8, Zenon DEF j
  <2>13. balance[a] >= AccountReserve(i)
    BY <2>6, <2>11, <2>12
  <2> QED
    BY <1>5, <2>13, Zenon DEF i, R
<1> QED
  BY <1>4, <1>5, Zenon

\* setHookState keeps what the map promises.
LEMMA MapWriteStep ==
    ASSUME IInv, IInv', MapInv, NEW p \in Place, SetHookState(p)
    PROVE  MapInv'
<1> DEFINE a == p[1]
           s == <<p[2], p[3]>>
<1>0. Writes(p, a, s)
  BY WriteEffect, Zenon
<1> HIDE DEF a, s
<1>1. /\ a \in Account /\ s \in Slot /\ p = <<a, s[1], s[2]>> /\ p[1] = a /\ <<p[2], p[3]>> = s
      /\ p \in Modified /\ pending' = pending \ {p}
      /\ cache' = cache /\ UNCHANGED <<modCount, phase, revoked>>
      /\ \A b \in Account \ {a} : data'[b] = data[b]
      /\ \A t \in Slot \ {s} : data'[a][t] = data[a][t]
      /\ data'[a][s] = Blob(p)
  BY <1>0, Zenon DEF Writes
<1>2. Modified' = Modified
  BY <1>1, Zenon DEF Modified, Cached
<1>3. NamespacesBounded' /\ NamespaceInv'
  BY <1>0, WriteNamespaces, Zenon
<1>4. LimitInv'
  BY <1>1, <1>2, Zenon DEF MapInv, LimitInv
<1>5. CacheCoherent'
  <2> SUFFICES ASSUME NEW b \in Account, NEW t \in Slot, Cached(b, t), ~cache[b].slots[t].modified
               PROVE  cache[b].slots[t].data = data'[b][t]
    BY <1>1, Zenon DEF CacheCoherent, Cached
  <2>1. ~(b = a /\ t = s)
    BY <1>1, Zenon DEF Modified
  <2>2. data'[b][t] = data[b][t]
    BY <1>1, <2>1, Zenon
  <2> QED
    BY <2>2, Zenon DEF MapInv, CacheCoherent
<1>6. ReadInv'
  BY <1>1, Zenon DEF MapInv, ReadInv, Cached
<1>7. ReserveInv'
  BY <1>0, WriteReserve, Zenon
<1>8. DoneInv'
  <2> SUFFICES ASSUME phase \in {"strongWrite", "callbackWrite"}, NEW q \in Modified, q \notin pending \ {p}
               PROVE  Stored(q)' = Blob(q)
    BY <1>1, <1>2, Zenon DEF DoneInv, Blob
  <2>1. CASE q = p
    BY <1>1, <2>1, Zenon DEF Stored
  <2>2. CASE q # p
    <3>1. q \in Place /\ q[1] \in Account /\ <<q[2], q[3]>> \in Slot /\ ~(q[1] = a /\ <<q[2], q[3]>> = s)
      BY <1>1, <2>2 DEF Modified, Place, Slot
    <3>2. Stored(q)' = Stored(q)
      BY <1>1, <3>1, Zenon DEF Stored
    <3>3. Stored(q) = Blob(q)
      BY <2>2, Zenon DEF MapInv, DoneInv
    <3> QED
      BY <3>2, <3>3, Zenon
  <2> QED
    BY <2>1, <2>2, Zenon
<1>9. RevokedInv'
  BY <1>1, <1>2, Zenon DEF MapInv, RevokedInv
<1> QED
  BY <1>3, <1>4, <1>5, <1>6, <1>7, <1>8, <1>9, Zenon DEF MapInv

\* An empty map promises nothing.
LEMMA MapInit == Init => MapInv
<1> SUFFICES ASSUME Init PROVE MapInv
  BY Zenon
<1>1. \A a \in Account : cache[a] = NoCache /\ namespaces[a] = {}
  BY Zenon DEF Init, EmptyMap
<1>2. Modified = {} /\ modCount = 0 /\ phase = "strong"
  BY <1>1, Zenon DEF Modified, Cached, Place, Init
<1>3. NamespacesBounded
  <2>1. Cardinality({}) = 0 /\ MaxNamespaces \in Nat
    BY FS_EmptySet, HookStateAssumption, Zenon
  <2> QED
    BY <1>1, <2>1 DEF NamespacesBounded
<1>4. LimitInv
  BY <1>2, FS_EmptySet, HookStateAssumption DEF LimitInv
<1> QED
  BY <1>1, <1>2, <1>3, <1>4, Zenon DEF MapInv, NamespaceInv, CacheCoherent, ReadInv, ReserveInv, DoneInv,
                                RevokedInv, Cached

\* Every step preserves what the map promises.
LEMMA MapInductive == IInv /\ IInv' /\ MapInv /\ [Next]_vars => MapInv'
<1> SUFFICES ASSUME IInv, IInv', MapInv, [Next]_vars PROVE MapInv'
  BY Zenon
<1>1. CASE \E a \in Account, s \in Slot : Read(a, s)
  BY <1>1, MapCacheStep, Zenon
<1>2. CASE \E a \in Account, s \in Slot, v \in Value \cup {Nil} : Set(a, s, v)
  BY <1>2, MapCacheStep, Zenon
<1>3. CASE \/ \E a \in Account, s \in Slot : Denied(a, s)
           \/ \E a \in Account : StrongHook(a) \/ WeakHook(a) \/ AgainAsWeak(a)
           \/ NextWeakHook \/ WeakRollback
  BY <1>3, MapHookStep, Zenon
<1>4. CASE FinalizeStrong \/ FinalizeCallback \/ FinalizeWeak
  BY <1>4, MapFinalizeStep, Zenon
<1>5. CASE Apply \/ Reject \/ EnterWeak \/ Finish \/ \E a \in Account : CallbackHook(a)
  BY <1>5, MapNewStep, Zenon
<1>6. CASE \E p \in Place : SetHookStateFails(p)
  BY <1>6, MapFailStep, Zenon
<1>7. CASE \E p \in Place : SetHookState(p)
  BY <1>7, MapWriteStep, Zenon
<1>8. CASE UNCHANGED vars
  <2>1. UNCHANGED <<account, map, balance, pending, phase, revoked>>
    BY <1>8, Zenon DEF vars
  <2>2. Promise
    BY Zenon DEF MapInv, Promise
  <2>3. /\ Promise' /\ Modified' = Modified
        /\ \A a \in Account : Fresh(a)' = Fresh(a)
    BY <2>1, <2>2, PromiseKept, Zenon
  <2>4. ReserveInv'
    <3>1. cache' = cache /\ ownerCount' = ownerCount /\ data' = data
      BY <2>1, Zenon DEF map, account
    <3>2. \A a \in Account : AvailableForReserves(a)' = AvailableForReserves(a) /\ ToCreate(a)' = ToCreate(a)
      BY <2>1, <3>1, Zenon DEF AvailableForReserves, ToCreate
    <3> QED
      BY <2>1, <2>3, <3>1, <3>2, Zenon DEF MapInv, ReserveInv
  <2>5. DoneInv' /\ RevokedInv'
    BY <2>1, <2>3, Zenon DEF MapInv, DoneInv, RevokedInv, Stored, Blob, map, account
  <2> QED
    BY <2>3, <2>4, <2>5, Zenon DEF MapInv, Promise
<1> QED
  BY <1>1, <1>2, <1>3, <1>4, <1>5, <1>6, <1>7, <1>8, Zenon DEF Next

\* The map keeps its promises in every reachable state.
LEMMA MapInvariantHolds == Spec => []MapInv
BY MapInit, MapInductive, InvariantHolds, PTL DEF Spec

-----------------------------------------------------------------------------
\* With fixXahauV1 no account ever has more than maxNamespaces() namespaces:
\* set_state_cache counts them in the map before setHookState creates any.
THEOREM NamespacesAlwaysBounded == Spec => []NamespacesBounded
<1>1. MapInv => NamespacesBounded
  BY Zenon DEF MapInv
<1> QED
  BY <1>1, MapInvariantHolds, PTL

\* What the HookStateMap holds without being marked modified is always what the
\* ledger holds, also while finalizeHookState is writing.
THEOREM CacheAlwaysCoherent == Spec => []CacheCoherent
<1>1. MapInv => CacheCoherent
  BY Zenon DEF MapInv
<1> QED
  BY <1>1, MapInvariantHolds, PTL

\* A committed map of strong hooks or of a callback is always complete: every
\* modified entry has the last value that was set.
THEOREM CommitAlwaysComplete == Spec => []CommitComplete
<1>1. MapInv => CommitComplete
  BY Zenon DEF MapInv, DoneInv, CommitComplete
<1> QED
  BY <1>1, MapInvariantHolds, PTL

\* That commit never fails: the reserves and the limit that set_state_cache
\* checked suffice for every setHookState of finalizeHookState.
THEOREM CommitAlwaysSucceeds == Spec => []CommitSucceeds
<1>1. IInv /\ MapInv => CommitSucceeds
  BY WritableNext, Zenon DEF CommitSucceeds
<1> QED
  BY <1>1, InvariantHolds, MapInvariantHolds, PTL

\* No step of a callback's commit writes an entry that was last set by a
\* callback that rolled back: doHookCallback gives each its own map.
THEOREM CallbackRollbackAlwaysDiscards == Spec => CallbackRollbackDiscards
<1> DEFINE A == \A p \in Place : phase = "callbackWrite" /\ Stored(p)' # Stored(p) => p \notin revoked
<1>1. ASSUME IInv, MapInv, [Next]_vars PROVE A
  <2>1. CASE UNCHANGED data
    BY <2>1, Zenon DEF Stored
  <2>2. ASSUME NEW q \in Place, SetHookState(q) PROVE A
    <3> SUFFICES ASSUME phase = "callbackWrite", NEW p \in Place, Stored(p)' # Stored(p)
                 PROVE  p \notin revoked
      BY Zenon
    <3>0. Writes(q, q[1], <<q[2], q[3]>>)
      BY <1>1, <2>2, WriteEffect, Zenon
    <3>1. /\ q \in Modified /\ q[1] \in Account
          /\ \A b \in Account \ {q[1]} : data'[b] = data[b]
          /\ \A t \in Slot \ {<<q[2], q[3]>>} : data'[q[1]][t] = data[q[1]][t]
      BY <3>0, Zenon DEF Writes
    <3>2. p[1] \in Account /\ <<p[2], p[3]>> \in Slot
      BY Zenon DEF Place, Slot
    <3>3. p[1] = q[1] /\ <<p[2], p[3]>> = <<q[2], q[3]>>
      BY <3>1, <3>2, Zenon DEF Stored
    <3>4. p = q
      BY <3>3 DEF Place
    <3> QED
      BY <1>1, <3>1, <3>4, Zenon DEF MapInv, RevokedInv
  <2>3. \/ UNCHANGED data \/ \E q \in Place : SetHookState(q)
    BY <1>1, Zenon DEF Next, vars, account, Read, Set, Denied, StrongHook, WeakHook, NextWeakHook, AgainAsWeak,
                WeakRollback, FinalizeStrong, FinalizeCallback, FinalizeWeak, Finalize, SetHookStateFails,
                Apply, Reject, Applied, CallbackHook, NextCallback, EnterWeak, Finish
  <2> QED
    BY <2>1, <2>2, <2>3, Zenon
<1>2. IInv /\ MapInv /\ [Next]_vars => [A]_vars
  BY <1>1, Zenon
<1> QED
  BY <1>2, InvariantHolds, MapInvariantHolds, PTL DEF Spec, CallbackRollbackDiscards
=============================================================================
