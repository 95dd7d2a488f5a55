---------------------------- MODULE SetHookProofs ----------------------------
(***************************************************************************)
(* Reference counts and state counts are exact, owner counts are so but    *)
(* for what genesis left unbilled, and hooks read what was asked for, for  *)
(* any accounts, code, namespaces, parameters, grants and limits.          *)
(*                                                                         *)
(* The first part is about the loop of setHook: at every iteration the     *)
(* view's definitions count the new array up to the loop's position and    *)
(* the old one from there on.  The second part is about whole              *)
(* transactions, the third about the fields of the hooks that are built.   *)
(***************************************************************************)
EXTENDS SetHook, FiniteSetTheorems, TLAPS

\* The code at a slot in the view of the transaction.
WorkHash(s) ==
    IF s[1] = tx.account /\ s[2] <= Len(tx.new) THEN HashAt(tx.new, s[2]) ELSE HashAt(hooks[s[1]], s[2])

Working(h) == {s \in Slots : WorkHash(s) = h}

\* What the definitions of a view count.
Counts(ds, doomed, W(_)) ==
    \A h \in Hash : IF ds[h] = Absent THEN W(h) = {}
                    ELSE ds[h].rc = Cardinality(W(h)) /\ (ds[h].rc = 0 => h \in doomed)

LoopInv ==
    Running => /\ Len(tx.new) <= MaxHooks
               /\ Counts(tx.defs, tx.doomed, Working)
               /\ \A h \in Hash : defs[h] # Absent => tx.defs[h] # Absent

Here == <<tx.account, Position>>

HashOf(h) == IF h = Absent THEN Absent ELSE h.hash

-----------------------------------------------------------------------------

\* The length of an array is bounded by a number.
LEMMA LimitTyped == MaxHooks \in Nat /\ MaxNamespaceDelete \in Nat \ {0}
BY SetHookAssumption, Zenon

\* There are finitely many slots, so users can be counted.
LEMMA SlotsFinite == IsFiniteSet(Slots)
<1>1. IsFiniteSet(Account) /\ MaxHooks \in Int /\ 1 \in Int
  BY SetHookAssumption
<1>2. IsFiniteSet(1 .. MaxHooks)
  BY <1>1, FS_Interval, Zenon
<1> QED
  BY <1>1, <1>2, FS_Product, Zenon DEF Slots

\* The users of a definition, in the ledger and in the new array, are finitely many.
LEMMA WorkingFinite == ASSUME NEW h PROVE IsFiniteSet(Working(h)) /\ Cardinality(Working(h)) \in Nat
<1>1. Working(h) \subseteq Slots
  BY Zenon DEF Working
<1> QED
  BY <1>1, SlotsFinite, FS_Subset, FS_CardinalityType, Zenon

\* The transaction's fields have their types.
LEMMA TxTyped ==
    ASSUME TypeOK, Running
    PROVE  /\ tx \in Transaction /\ tx.account \in Account
           /\ tx.new \in Seq(Optional(Hook)) /\ tx.asked \in Seq(Entry)
           /\ tx.defs \in [Hash -> Optional(Definition)]
           /\ tx.doomed \in SUBSET Hash /\ tx.marked \in SUBSET Namespace
           /\ hooks[tx.account] \in Seq(Optional(Hook))
           /\ Position \in Nat /\ Position >= 1
<1>1. tx \in Transaction
  BY Zenon DEF TypeOK, Running
<1>2. tx.account \in Account /\ tx.new \in Seq(Optional(Hook))
  BY <1>1, Zenon DEF Transaction
<1>3. Len(tx.new) \in Nat
  BY <1>2
<1> QED
  BY <1>1, <1>2, <1>3 DEF Transaction, Position, TypeOK

\* The hook at the loop's position, and its hash.
LEMMA OldHookTyped ==
    ASSUME TypeOK, Running
    PROVE  /\ OldHook \in Optional(Hook)
           /\ OldHook # Absent => OldHook \in Hook /\ OldHook.hash \in Hash
           /\ HashOf(OldHook) = HashAt(hooks[tx.account], Position)
           /\ HashOf(OldHook) = Absent <=> OldHook = Absent
<1>1. /\ hooks[tx.account] \in Seq(Optional(Hook)) /\ Position \in Nat /\ Position >= 1
  BY TxTyped, Zenon
<1>2. OldHook \in Optional(Hook)
  BY <1>1 DEF OldHook, Optional
<1>3. \A h \in Hook : h.hash \in Hash
  BY Zenon DEF Hook
<1>4. OldHook # Absent => OldHook \in Hook
  BY <1>2, Zenon DEF Optional
<1>5. Absent \notin Hash
  BY SetHookAssumption, Zenon
<1> QED
  BY <1>1, <1>2, <1>3, <1>4, <1>5 DEF HashOf, HashAt, OldHook

\* Where the loop stands, the old hook is still counted.
LEMMA HereCounted ==
    ASSUME TypeOK, Running, Position <= MaxHooks
    PROVE  Here \in Slots /\ (\A h : Here \in Working(h) <=> HashOf(OldHook) = h)
<1>1. tx.account \in Account /\ Position \in Nat /\ Position >= 1 /\ Position = Len(tx.new) + 1
      /\ Len(tx.new) \in Nat
  BY TxTyped DEF Position
<1>2. Here \in Slots /\ Here[1] = tx.account /\ Here[2] = Position
  BY <1>1, SetHookAssumption DEF Here, Slots
<1>3. ~(Here[2] <= Len(tx.new))
  BY <1>1, <1>2
<1>4. WorkHash(Here) = HashAt(hooks[tx.account], Position)
  BY <1>2, <1>3, Zenon DEF WorkHash
<1> QED
  BY <1>2, <1>4, OldHookTyped, Zenon DEF Working

\* Pushing a hook changes the count at the loop's position only.
LEMMA PushCounted ==
    ASSUME TypeOK, Running, Position <= MaxHooks,
           NEW e, NEW h \in Optional(Hook), NEW ds, NEW doomed, Push(e, h, ds, doomed)
    PROVE  \A k \in Hash : Working(k)' = (Working(k) \ {Here}) \cup (IF HashOf(h) = k THEN {Here} ELSE {})
<1>1. /\ tx \in Transaction /\ tx.new \in Seq(Optional(Hook)) /\ Position = Len(tx.new) + 1
      /\ Len(tx.new) \in Nat
  BY TxTyped DEF Position
<1>2. /\ tx'.new = Append(tx.new, h) /\ tx'.account = tx.account /\ hooks' = hooks
  BY <1>1, Zenon DEF Push, ledger, Transaction
<1>3. /\ Len(tx'.new) = Len(tx.new) + 1
      /\ \A i \in 1 .. Len(tx.new) : tx'.new[i] = tx.new[i]
      /\ tx'.new[Position] = h
  BY <1>1, <1>2
<1>4. Here \in Slots /\ Here = <<tx.account, Position>>
  BY HereCounted, Zenon DEF Here
<1>5. ASSUME NEW s \in Slots, s # Here
      PROVE  WorkHash(s)' = WorkHash(s)
  <2>1. s[2] \in Nat /\ s[2] >= 1 /\ s = <<s[1], s[2]>>
    BY SetHookAssumption DEF Slots
  <2>2. CASE s[1] # tx.account
    BY <1>2, <2>2, Zenon DEF WorkHash, HashAt
  <2>3. CASE s[1] = tx.account /\ s[2] <= Len(tx.new)
    <3>1. s[2] \in 1 .. Len(tx.new) /\ s[2] \in 1 .. Len(tx'.new)
      BY <1>1, <1>3, <2>1, <2>3
    <3> QED
      BY <1>2, <1>3, <2>3, <3>1 DEF WorkHash, HashAt
  <2>4. CASE s[1] = tx.account /\ ~(s[2] <= Len(tx.new))
    <3>1. s[2] # Position
      BY <1>4, <1>5, <2>1, <2>4, Zenon
    <3>2. ~(s[2] <= Len(tx'.new))
      BY <1>1, <1>3, <2>1, <2>4, <3>1
    <3> QED
      BY <1>2, <2>4, <3>2, Zenon DEF WorkHash, HashAt
  <2> QED
    BY <2>2, <2>3, <2>4, Zenon
<1>6. ASSUME NEW s \in Slots, s = Here
      PROVE  WorkHash(s)' = HashOf(h)
  <2>1. s[1] = tx.account /\ s[2] = Position
    BY <1>6, Zenon DEF Here
  <2>2. Position <= Len(tx'.new) /\ Position \in 1 .. Len(tx'.new)
    BY <1>1, <1>3
  <2>3. WorkHash(s)' = HashAt(tx'.new, s[2])
    BY <1>2, <2>1, <2>2, Zenon DEF WorkHash
  <2> QED
    BY <1>3, <2>1, <2>2, <2>3, Zenon DEF HashAt, HashOf
<1> QED
  BY <1>4, <1>5, <1>6, Zenon DEF Working, Slots

\* A reference released at the loop's position is no longer counted.
LEMMA ReleasedCounted ==
    ASSUME TypeOK, LoopInv, Running, Position <= MaxHooks
    PROVE  /\ Released \in [Hash -> Optional(Definition)]
           /\ \A h \in Hash : Released[h] = Absent <=> tx.defs[h] = Absent
           /\ \A h \in Hash : IF Released[h] = Absent THEN Working(h) = {}
                              ELSE /\ Released[h].rc = Cardinality(Working(h) \ {Here})
                                   /\ Released[h].rc = 0 => h \in tx.doomed \cup Doomed
<1>1. tx.defs \in [Hash -> Optional(Definition)]
  BY TxTyped, Zenon
<1>2. \A h \in Hash : IF tx.defs[h] = Absent THEN Working(h) = {}
                      ELSE tx.defs[h].rc = Cardinality(Working(h)) /\ (tx.defs[h].rc = 0 => h \in tx.doomed)
  BY Zenon DEF LoopInv, Counts
<1>3. \A h : IsFiniteSet(Working(h)) /\ Cardinality(Working(h)) \in Nat
  BY WorkingFinite, Zenon
<1>4. \A h : Here \in Working(h) <=> HashOf(OldHook) = h
  BY HereCounted, Zenon
<1>5. CASE OldHook = Absent
  <2>1. \A h \in Hash : Here \notin Working(h)
    BY <1>4, <1>5, SetHookAssumption DEF HashOf
  <2>2. \A h \in Hash : Working(h) \ {Here} = Working(h)
    BY <2>1, Zenon
  <2>3. Released = tx.defs
    BY <1>5, Zenon DEF Released
  <2> QED
    BY <1>1, <1>2, <2>2, <2>3, ZenonT(60)
<1>6. CASE OldHook # Absent
  <2> DEFINE o == OldHook.hash
  <2>1. o \in Hash /\ HashOf(OldHook) = o
    BY <1>6, OldHookTyped, Zenon DEF HashOf
  <2>2. Here \in Working(o)
    BY <1>4, <2>1, Zenon
  <2>3. tx.defs[o] # Absent /\ tx.defs[o].rc = Cardinality(Working(o))
    BY <1>2, <2>1, <2>2, Zenon
  <2>4. tx.defs[o] \in Definition
    BY <1>1, <2>1, <2>3, Zenon DEF Optional
  <2>5. Cardinality(Working(o)) # 0
    BY <1>3, <2>2, FS_EmptySet, Zenon
  <2>6. tx.defs[o].rc \in Nat /\ tx.defs[o].rc > 0
    BY <1>3, <2>3, <2>5
  <2>7. /\ Released = [tx.defs EXCEPT ![o] = [tx.defs[o] EXCEPT !.rc = tx.defs[o].rc - 1]]
        /\ [tx.defs[o] EXCEPT !.rc = tx.defs[o].rc - 1] \in Definition
    BY <1>1, <1>6, <2>1, <2>4, <2>6 DEF Released, ReduceReferenceCount, Definition
  <2>8. Released[o] \in Definition /\ Released[o].rc = tx.defs[o].rc - 1 /\ Released[o] # Absent
    BY <1>1, <2>1, <2>4, <2>7, SetHookAssumption, Zenon DEF Definition
  <2>9. Cardinality(Working(o) \ {Here}) = Cardinality(Working(o)) - 1
    BY <1>3, <2>2, FS_RemoveElement, ZenonT(60)
  <2>10. Released[o].rc = 0 => o \in Doomed
    BY <1>6, Zenon DEF Doomed
  <2>11. ASSUME NEW h \in Hash, h # o
         PROVE  Released[h] = tx.defs[h] /\ Working(h) \ {Here} = Working(h)
    <3>1. Here \notin Working(h)
      BY <1>4, <2>1, <2>11, Zenon
    <3>2. Released[h] = tx.defs[h]
      BY <1>1, <2>7, <2>11, Zenon
    <3> QED
      BY <3>1, <3>2, Zenon
  <2>12. Released \in [Hash -> Optional(Definition)]
    BY <1>1, <2>1, <2>7, Zenon DEF Optional
  <2> HIDE DEF o
  <2> QED
    BY <1>2, <2>3, <2>8, <2>9, <2>10, <2>11, <2>12, ZenonT(60)
<1> QED
  BY <1>5, <1>6, Zenon

\* The fields of an object, and the hooks and definitions made of them.
LEMMA BlankTyped == BlankEntry \in Entry
BY Zenon DEF BlankEntry, Entry, Optional

\* The merged parameters of a hook are parameters.
LEMMA ParamsTyped ==
    ASSUME NEW def, NEW old \in Params, NEW e \in Entry
    PROVE  UpdateHookParameters(def, old, e.params) \in Params /\ NoParams \in Params
<1>1. e.params = Absent \/ e.params \in [ParamName -> ParamValue \cup {Blank, NoValue, Absent}]
  BY Zenon DEF Entry, Optional
<1>2. \A p \in ParamName : old[p] \in ParamValue \cup {Blank, Absent}
  BY Zenon DEF Params
<1> QED
  BY <1>1, <1>2, Zenon DEF UpdateHookParameters, Params, NoParams

\* The merged grants of a hook are grants.
LEMMA GrantsTyped ==
    ASSUME NEW e \in Entry, NEW old \in SUBSET Grant
    PROVE  GrantsOf(e, old) \in SUBSET Grant
BY Zenon DEF Entry, GrantsOf, Optional

\* A field that is kept only where it differs is absent or of its type.
LEMMA DifferingTyped ==
    ASSUME NEW S, NEW x \in Optional(S), NEW y
    PROVE  Differing(x, y) \in Optional(S)
BY Zenon DEF Differing, Optional

\* The flags of an object are flags.
LEMMA FlagsTyped ==
    ASSUME NEW e \in Entry
    PROVE  Flags(e) \in SUBSET Flag /\ LedgerFlags(e) \in SUBSET Flag
BY Zenon DEF Entry, Flags, LedgerFlags, Optional

\* An installed hook has its definition in the view.
LEMMA OldDefTyped ==
    ASSUME TypeOK, LoopInv, Running, Position <= MaxHooks, OldHook # Absent
    PROVE  /\ OldHook \in Hook /\ OldHook.hash \in Hash
           /\ OldDef = tx.defs[OldHook.hash] /\ OldDef # Absent /\ OldDef \in Definition
<1>1. OldHook \in Hook /\ OldHook.hash \in Hash /\ HashOf(OldHook) = OldHook.hash
  BY OldHookTyped, Zenon DEF HashOf
<1>2. Here \in Working(OldHook.hash)
  BY <1>1, HereCounted, Zenon
<1>3. tx.defs[OldHook.hash] # Absent
  BY <1>1, <1>2, Zenon DEF LoopInv, Counts
<1>4. tx.defs[OldHook.hash] \in Definition
  BY <1>1, <1>3, TxTyped, Zenon DEF Optional
<1> QED
  BY <1>1, <1>3, <1>4, Zenon DEF OldDef

\* Namespaces marked for destruction are namespaces.
LEMMA MarkedTyped ==
    ASSUME TypeOK, LoopInv, Running, Position <= MaxHooks, NEW e \in Entry
    PROVE  MarkedNamespaces(e) \in SUBSET Namespace
<1>1. CASE "NSDELETE" \notin Flags(e)
  BY <1>1, Zenon DEF MarkedNamespaces
<1>2. CASE "NSDELETE" \in Flags(e) /\ InferOperation(e) = "NSDELETE"
  <2>1. e.ns # Absent /\ e.ns \in Optional(Namespace)
    BY <1>2, Zenon DEF InferOperation, Entry
  <2> QED
    BY <1>2, <2>1, Zenon DEF MarkedNamespaces, Optional
<1>3. CASE OldHook # Absent /\ InferOperation(e) # "NSDELETE"
  <2>1. OldHook \in Hook /\ OldDef \in Definition
    BY <1>3, OldDefTyped, Zenon
  <2>2. OldHook.ns \in Optional(Namespace) /\ OldDef.ns \in Namespace
    BY <2>1, Zenon DEF Hook, Definition
  <2>3. NamespaceOf(OldHook, OldDef) \in Namespace
    BY <2>2, Zenon DEF NamespaceOf, Optional
  <2> QED
    BY <1>3, <2>3, Zenon DEF MarkedNamespaces
<1>4. CASE OldHook = Absent /\ InferOperation(e) # "NSDELETE"
  BY <1>4, Zenon DEF MarkedNamespaces
<1> QED
  BY <1>1, <1>2, <1>3, <1>4, Zenon

\* A hook is pushed with its references counted.
LEMMA PushPreserves ==
    ASSUME TypeOK, LoopInv, Running, Position <= MaxHooks,
           NEW e \in Entry, NEW h \in Optional(Hook), NEW ds \in [Hash -> Optional(Definition)],
           NEW doomed \in SUBSET Hash, Push(e, h, ds, doomed),
           NEW W, W = [k \in Hash |-> (Working(k) \ {Here}) \cup (IF HashOf(h) = k THEN {Here} ELSE {})],
           \A k \in Hash : tx.defs[k] # Absent => ds[k] # Absent,
           \A k \in Hash : IF ds[k] = Absent THEN W[k] = {}
                           ELSE ds[k].rc = Cardinality(W[k]) /\ (ds[k].rc = 0 => k \in tx.doomed \cup doomed)
    PROVE  TypeOK' /\ LoopInv' /\ UNCHANGED ledger
<1>1. /\ tx \in Transaction /\ tx.new \in Seq(Optional(Hook)) /\ tx.asked \in Seq(Entry)
      /\ tx.doomed \in SUBSET Hash /\ tx.marked \in SUBSET Namespace
      /\ Position = Len(tx.new) + 1 /\ Len(tx.new) \in Nat
  BY TxTyped DEF Position
<1>2. MarkedNamespaces(e) \in SUBSET Namespace
  BY MarkedTyped, Zenon
<1>3. Append(tx.asked, e) \in Seq(Entry) /\ Append(tx.new, h) \in Seq(Optional(Hook))
      /\ Len(Append(tx.new, h)) = Len(tx.new) + 1
  BY <1>1
<1>4. tx' = [tx EXCEPT !.asked = Append(tx.asked, e), !.new = Append(tx.new, h), !.defs = ds,
                       !.doomed = tx.doomed \cup doomed, !.marked = tx.marked \cup MarkedNamespaces(e)]
  BY Zenon DEF Push
<1>5. tx' \in Transaction
  BY <1>1, <1>2, <1>3, <1>4, ZenonT(60) DEF Transaction
<1>6. /\ tx'.new = Append(tx.new, h) /\ tx'.defs = ds /\ tx'.doomed = tx.doomed \cup doomed
  BY <1>1, <1>4, Zenon DEF Transaction
<1>7. UNCHANGED ledger
  BY Zenon DEF Push
<1>8. TypeOK'
  BY <1>5, <1>7, Zenon DEF TypeOK, ledger, state
<1>9. \A k \in Hash : Working(k)' = W[k]
  BY PushCounted, Zenon
<1>10. Len(tx'.new) <= MaxHooks
  BY <1>1, <1>3, <1>6, SetHookAssumption, Zenon
<1>11. Counts(tx.defs, tx.doomed, Working)'
  BY <1>6, <1>9, ZenonT(60) DEF Counts
<1>12. \A k \in Hash : defs'[k] # Absent => tx'.defs[k] # Absent
  BY <1>6, <1>7, Zenon DEF LoopInv, ledger
<1> QED
  BY <1>7, <1>8, <1>10, <1>11, <1>12, Zenon DEF LoopInv

\* An error ends the loop.
LEMMA AbortPreserves ==
    ASSUME TypeOK, Running, NEW r \in {"tecNO_ENTRY", "tecINTERNAL", "tecREQUIRES_FLAG",
                                     "tecINSUFFICIENT_RESERVE", "tefINTERNAL"},
           Abort(r)
    PROVE  TypeOK' /\ LoopInv' /\ UNCHANGED ledger
<1>1. tx \in Transaction /\ tx' = [tx EXCEPT !.result = r] /\ UNCHANGED ledger
  BY TxTyped, Zenon DEF Abort
<1>2. tx' \in Transaction /\ tx'.result = r
  BY <1>1, ZenonT(60) DEF Transaction
<1>3. ~Running'
  BY <1>2, Zenon DEF Running
<1> QED
  BY <1>1, <1>2, <1>3, Zenon DEF TypeOK, LoopInv, ledger, state

\* A position that keeps its code keeps its references.
LEMMA SameCodePreserves ==
    ASSUME TypeOK, LoopInv, Running, Position <= MaxHooks,
           NEW e \in Entry, NEW h \in Optional(Hook), HashOf(h) = HashOf(OldHook),
           Push(e, h, tx.defs, {})
    PROVE  TypeOK' /\ LoopInv' /\ UNCHANGED ledger
<1> DEFINE W == [k \in Hash |-> (Working(k) \ {Here}) \cup (IF HashOf(h) = k THEN {Here} ELSE {})]
<1>1. \A k : Here \in Working(k) <=> HashOf(OldHook) = k
  BY HereCounted, Zenon
<1>2. \A k \in Hash : W[k] = Working(k)
  BY <1>1, Zenon
<1>3. \A k \in Hash : IF tx.defs[k] = Absent THEN Working(k) = {}
                      ELSE tx.defs[k].rc = Cardinality(Working(k)) /\ (tx.defs[k].rc = 0 => k \in tx.doomed \cup {})
  BY Zenon DEF LoopInv, Counts
<1>4. \A k \in Hash : IF tx.defs[k] = Absent THEN W[k] = {}
                      ELSE tx.defs[k].rc = Cardinality(W[k]) /\ (tx.defs[k].rc = 0 => k \in tx.doomed \cup {})
  BY <1>2, <1>3, ZenonT(60)
<1>5. tx.defs \in [Hash -> Optional(Definition)]
  BY TxTyped, Zenon
<1> HIDE DEF W
<1>6. W = [k \in Hash |-> (Working(k) \ {Here}) \cup (IF HashOf(h) = k THEN {Here} ELSE {})]
  BY Zenon DEF W
<1>7. {} \in SUBSET Hash /\ \A k \in Hash : tx.defs[k] # Absent => tx.defs[k] # Absent
  BY Zenon
<1> QED
  BY <1>4, <1>5, <1>6, <1>7, PushPreserves

\* A position that is left alone keeps the invariant of the loop.
LEMMA KeepPreserves ==
    ASSUME TypeOK, LoopInv, Running, Position <= MaxHooks, NEW e \in Entry, Keep(e)
    PROVE  TypeOK' /\ LoopInv' /\ UNCHANGED ledger
BY OldHookTyped, SameCodePreserves, Zenon DEF Keep

\* hsoUPDATE keeps the invariant of the loop.
LEMMA UpdatePreserves ==
    ASSUME TypeOK, LoopInv, Running, Position <= MaxHooks, NEW e \in Entry, Update(e)
    PROVE  TypeOK' /\ LoopInv' /\ UNCHANGED ledger
<1>1. CASE OldHook = Absent
  BY <1>1, AbortPreserves, Zenon DEF Update
<1>2. CASE OldHook # Absent
  <2> DEFINE params == IF e.params = NoParams THEN NoParams
                       ELSE UpdateHookParameters(OldDef, OldHook.params, e.params)
             h == [hash |-> OldHook.hash,
                   ns |-> IF e.ns = Absent THEN OldHook.ns ELSE Differing(e.ns, OldDef.ns),
                   canEmit |-> IF e.canEmit = Absent THEN OldHook.canEmit
                               ELSE Differing(e.canEmit, OldDef.canEmit),
                   flags |-> e.flags,
                   params |-> params,
                   grants |-> GrantsOf(e, OldHook.grants)]
  <2>1. OldHook \in Hook /\ OldHook.hash \in Hash
    BY <1>2, OldDefTyped, Zenon
  <2>2. /\ OldHook.ns \in Optional(Namespace) /\ OldHook.canEmit \in Optional(Mask)
        /\ OldHook.params \in Params /\ OldHook.grants \in SUBSET Grant
    BY <2>1, Zenon DEF Hook
  <2>3. /\ e.ns \in Optional(Namespace) /\ e.canEmit \in Optional(Mask)
        /\ e.flags \in Optional(SUBSET Flag)
    BY Zenon DEF Entry
  <2>4. params \in Params
    BY <2>2, ParamsTyped, ZenonT(60)
  <2>5. GrantsOf(e, OldHook.grants) \in SUBSET Grant
    BY <2>2, GrantsTyped, Zenon
  <2>6. /\ Differing(e.ns, OldDef.ns) \in Optional(Namespace)
        /\ Differing(e.canEmit, OldDef.canEmit) \in Optional(Mask)
    BY <2>3, DifferingTyped, Zenon
  <2>7. h \in Hook
    <3> HIDE DEF params
    <3> QED
      BY <2>1, <2>2, <2>3, <2>4, <2>5, <2>6, Zenon DEF Hook
  <2>8. h # Absent /\ h \in Optional(Hook)
    BY <2>7, SetHookAssumption, Zenon DEF Optional
  <2>9. h.hash = OldHook.hash
    BY Zenon
  <2>10. HashOf(h) = HashOf(OldHook)
    BY <1>2, <2>8, <2>9, Zenon DEF HashOf
  <2>11. Abort("tecINTERNAL") \/ Push(e, h, tx.defs, {})
    BY <1>2, Zenon DEF Update
  <2> HIDE DEF h
  <2> QED
    BY <2>8, <2>10, <2>11, AbortPreserves, SameCodePreserves, Zenon
<1> QED
  BY <1>1, <1>2, Zenon

\* hsoDELETE keeps the invariant of the loop.
LEMMA DeletePreserves ==
    ASSUME TypeOK, LoopInv, Running, Position <= MaxHooks, NEW e \in Entry, Delete(e)
    PROVE  TypeOK' /\ LoopInv' /\ UNCHANGED ledger
<1> DEFINE W == [k \in Hash |-> (Working(k) \ {Here}) \cup (IF HashOf(Absent) = k THEN {Here} ELSE {})]
<1>1. \A k \in Hash : W[k] = Working(k) \ {Here}
  BY SetHookAssumption, Zenon DEF HashOf
<1>2. /\ Released \in [Hash -> Optional(Definition)]
      /\ \A k \in Hash : tx.defs[k] # Absent => Released[k] # Absent
      /\ \A k \in Hash : IF Released[k] = Absent THEN Working(k) = {}
                         ELSE /\ Released[k].rc = Cardinality(Working(k) \ {Here})
                              /\ Released[k].rc = 0 => k \in tx.doomed \cup Doomed
  BY ReleasedCounted, Zenon
<1>3. \A k \in Hash : IF Released[k] = Absent THEN W[k] = {}
                      ELSE Released[k].rc = Cardinality(W[k]) /\ (Released[k].rc = 0 => k \in tx.doomed \cup Doomed)
  BY <1>1, <1>2, ZenonT(60)
<1>4. Doomed \in SUBSET Hash
  BY OldHookTyped, Zenon DEF Doomed
<1>5. Push(e, Absent, Released, Doomed) /\ Absent \in Optional(Hook)
  BY Zenon DEF Delete, Optional
<1>6. W = [k \in Hash |-> (Working(k) \ {Here}) \cup (IF HashOf(Absent) = k THEN {Here} ELSE {})]
  BY Zenon
<1>7. \A k \in Hash : tx.defs[k] # Absent => Released[k] # Absent
  BY <1>2, Zenon
<1>8. Released \in [Hash -> Optional(Definition)]
  BY <1>2, Zenon
<1> HIDE DEF W
<1> QED
  BY <1>3, <1>4, <1>5, <1>6, <1>7, <1>8, PushPreserves, SMTT(60)

\* hsoCREATE keeps the invariant of the loop.
LEMMA CreatePreserves ==
    ASSUME TypeOK, LoopInv, Running, Position <= MaxHooks, NEW e \in Entry, Admitted(e), Create(e)
    PROVE  TypeOK' /\ LoopInv' /\ UNCHANGED ledger
<1>1. e.code \in Hash /\ e.ns \in Namespace /\ tx.defs[e.code] = Absent
  <2>1. e.code # Absent /\ e.code # Blank /\ e.ns # Absent /\ tx.defs[e.code] = Absent
    BY Zenon DEF Create, InferOperation, Admitted, ValidateHookSetEntry
  <2> QED
    BY <2>1, Zenon DEF Entry, Optional
<1> DEFINE def == [rc |-> 1, ns |-> e.ns, canEmit |-> e.canEmit, flags |-> LedgerFlags(e),
                   params |-> IF e.params = Absent THEN NoParams
                              ELSE [p \in ParamName |-> Default(e.params[p])]]
           h == [hash |-> e.code, ns |-> Absent, canEmit |-> Absent, flags |-> Absent,
                 params |-> NoParams, grants |-> GrantsOf(e, {})]
           ds == [Released EXCEPT ![e.code] = def]
           W == [k \in Hash |-> (Working(k) \ {Here}) \cup (IF HashOf(h) = k THEN {Here} ELSE {})]
<1>2. def \in Definition /\ def.rc = 1 /\ def # Absent
  <2>1. e.params = Absent \/ e.params \in [ParamName -> ParamValue \cup {Blank, NoValue, Absent}]
    BY Zenon DEF Entry, Optional
  <2>2. (IF e.params = Absent THEN NoParams ELSE [p \in ParamName |-> Default(e.params[p])]) \in Params
    BY <2>1, Zenon DEF Params, NoParams, Default
  <2>3. e.canEmit \in Optional(Mask) /\ LedgerFlags(e) \in SUBSET Flag
    BY FlagsTyped, ZenonT(60) DEF Entry
  <2>4. def \in Definition
    BY <1>1, <2>2, <2>3, Zenon DEF Definition
  <2> QED
    BY <2>4, SetHookAssumption, Zenon
<1>3. h \in Hook /\ h.hash = e.code /\ h \in Optional(Hook) /\ HashOf(h) = e.code
  <2>1. GrantsOf(e, {}) \in SUBSET Grant /\ NoParams \in Params
    BY GrantsTyped, Zenon DEF NoParams, Params
  <2>2. h \in Hook
    BY <1>1, <2>1, Zenon DEF Hook, Optional
  <2>3. h # Absent
    BY <2>2, SetHookAssumption, Zenon
  <2> QED
    BY <2>2, <2>3, Zenon DEF Optional, HashOf
<1>4. /\ Released \in [Hash -> Optional(Definition)]
      /\ \A k \in Hash : tx.defs[k] # Absent => Released[k] # Absent
      /\ \A k \in Hash : IF Released[k] = Absent THEN Working(k) = {}
                         ELSE /\ Released[k].rc = Cardinality(Working(k) \ {Here})
                              /\ Released[k].rc = 0 => k \in tx.doomed \cup Doomed
      /\ Working(e.code) = {}
  BY <1>1, ReleasedCounted, ZenonT(60)
<1>5. Abort("tecREQUIRES_FLAG") \/ Push(e, h, ds, Doomed)
  BY Zenon DEF Create
<1> HIDE DEF def, h
<1>6. W[e.code] = {Here} /\ Cardinality(W[e.code]) = 1
  <2>1. W[e.code] = {Here}
    BY <1>1, <1>3, <1>4, Zenon
  <2> QED
    BY <2>1, FS_Singleton, ZenonT(60)
<1>7. \A k \in Hash \ {e.code} : W[k] = Working(k) \ {Here}
  BY <1>3, Zenon
<1>8. ds \in [Hash -> Optional(Definition)] /\ ds[e.code] = def
      /\ \A k \in Hash \ {e.code} : ds[k] = Released[k]
  BY <1>1, <1>2, <1>4, Zenon DEF Optional
<1>9. W = [k \in Hash |-> (Working(k) \ {Here}) \cup (IF HashOf(h) = k THEN {Here} ELSE {})]
  BY Zenon
<1> HIDE DEF ds, W
<1>10. \A k \in Hash : IF ds[k] = Absent THEN W[k] = {}
                       ELSE ds[k].rc = Cardinality(W[k]) /\ (ds[k].rc = 0 => k \in tx.doomed \cup Doomed)
  <2>1. ASSUME NEW k \in Hash, k # e.code
        PROVE  IF ds[k] = Absent THEN W[k] = {}
               ELSE ds[k].rc = Cardinality(W[k]) /\ (ds[k].rc = 0 => k \in tx.doomed \cup Doomed)
    BY <1>4, <1>7, <1>8, <2>1, Zenon
  <2>2. ds[e.code] # Absent /\ ds[e.code].rc = Cardinality(W[e.code]) /\ ds[e.code].rc # 0
    BY <1>2, <1>6, <1>8
  <2> QED
    BY <2>1, <2>2, Zenon
<1>11. \A k \in Hash : tx.defs[k] # Absent => ds[k] # Absent
  BY <1>2, <1>4, <1>8, Zenon
<1>12. Doomed \in SUBSET Hash
  BY OldHookTyped, Zenon DEF Doomed
<1>13. CASE Push(e, h, ds, Doomed)
  <2>1. h \in Optional(Hook) /\ ds \in [Hash -> Optional(Definition)]
    BY <1>3, <1>8, Zenon
  <2> QED
    BY <1>9, <1>10, <1>11, <1>12, <1>13, <2>1, PushPreserves, SMTT(60)
<1> QED
  BY <1>5, <1>13, AbortPreserves, Zenon

\* hsoINSTALL keeps the invariant of the loop.
LEMMA InstallPreserves ==
    ASSUME TypeOK, LoopInv, Running, Position <= MaxHooks, NEW e \in Entry, Admitted(e), Install(e)
    PROVE  TypeOK' /\ LoopInv' /\ UNCHANGED ledger
<1> DEFINE T == Target(e)
           def == tx.defs[T]
           params == UpdateHookParameters(def, NoParams, e.params)
           h == [hash |-> T,
                 ns |-> IF e.ns = Absent THEN Absent ELSE Differing(e.ns, def.ns),
                 canEmit |-> IF e.canEmit = Absent THEN Absent
                             ELSE Differing(e.canEmit, DefHookCanEmit(def)),
                 flags |-> IF e.flags = Absent THEN Absent ELSE LedgerFlags(e),
                 params |-> params,
                 grants |-> GrantsOf(e, {})]
           ds == IncrementReferenceCount(Released, T)
           W == [k \in Hash |-> (Working(k) \ {Here}) \cup (IF HashOf(h) = k THEN {Here} ELSE {})]
<1>1. T \in Hash /\ def # Absent
  <2>1. CASE e.hash # Absent
    BY <2>1, Zenon DEF Target, Admitted, LoopInv, Entry, Optional
  <2>2. CASE e.hash = Absent
    <3>1. e.code # Absent /\ e.code # Blank /\ tx.defs[e.code] # Absent
      BY <2>2, ZenonT(60) DEF Install, InferOperation
    <3> QED
      BY <2>2, <3>1, Zenon DEF Target, Entry, Optional
  <2> QED
    BY <2>1, <2>2, Zenon
<1>2. h \in Hook /\ h.hash = T /\ h \in Optional(Hook) /\ HashOf(h) = T
  <2>1. /\ e.ns \in Optional(Namespace) /\ e.canEmit \in Optional(Mask) /\ Absent \in Optional(Namespace)
        /\ Absent \in Optional(Mask)
    BY Zenon DEF Entry, Optional
  <2>2. /\ Differing(e.ns, def.ns) \in Optional(Namespace)
        /\ Differing(e.canEmit, DefHookCanEmit(def)) \in Optional(Mask)
    BY <2>1, DifferingTyped, Zenon
  <2>3. (IF e.flags = Absent THEN Absent ELSE LedgerFlags(e)) \in Optional(SUBSET Flag)
    BY FlagsTyped, Zenon DEF Optional
  <2>4. GrantsOf(e, {}) \in SUBSET Grant /\ NoParams \in Params
    BY GrantsTyped, Zenon DEF NoParams, Params
  <2>5. params \in Params
    BY <2>4, ParamsTyped, ZenonT(60)
  <2>6. h \in Hook
    <3> HIDE DEF T, def, params
    <3> QED
      BY <1>1, <2>1, <2>2, <2>3, <2>4, <2>5, Zenon DEF Hook
  <2>7. h # Absent
    BY <2>6, SetHookAssumption, Zenon
  <2> QED
    BY <2>6, <2>7, Zenon DEF Optional, HashOf
<1>3. /\ Released \in [Hash -> Optional(Definition)]
      /\ \A k \in Hash : tx.defs[k] # Absent => Released[k] # Absent
      /\ \A k \in Hash : IF Released[k] = Absent THEN Working(k) = {}
                         ELSE /\ Released[k].rc = Cardinality(Working(k) \ {Here})
                              /\ Released[k].rc = 0 => k \in tx.doomed \cup Doomed
  BY ReleasedCounted, Zenon
<1>4. \/ Abort("tecREQUIRES_FLAG") \/ Abort("tecINTERNAL")
      \/ Push(e, h, ds, Doomed)
  BY Zenon DEF Install
<1>5. W = [k \in Hash |-> (Working(k) \ {Here}) \cup (IF HashOf(h) = k THEN {Here} ELSE {})]
  BY Zenon
<1> HIDE DEF T, def, h
<1>6. W[T] = (Working(T) \ {Here}) \cup {Here} /\ \A k \in Hash \ {T} : W[k] = Working(k) \ {Here}
  BY <1>1, <1>2, Zenon
<1>7. Released[T] # Absent /\ Released[T] \in Definition
      /\ Released[T].rc = Cardinality(Working(T) \ {Here})
  BY <1>1, <1>3, Zenon DEF Optional, def
<1>8. Released[T].rc \in Nat
  BY <1>7, Zenon DEF Definition
<1>9. /\ ds = [Released EXCEPT ![T] = [Released[T] EXCEPT !.rc = Released[T].rc + 1]]
      /\ [Released[T] EXCEPT !.rc = Released[T].rc + 1] \in Definition
  BY <1>1, <1>3, <1>7, <1>8 DEF IncrementReferenceCount, Definition
<1>10. ds[T] \in Definition /\ ds[T].rc = Released[T].rc + 1 /\ ds[T] # Absent
  BY <1>1, <1>3, <1>7, <1>9, SetHookAssumption DEF Definition
<1>11. ds \in [Hash -> Optional(Definition)] /\ \A k \in Hash \ {T} : ds[k] = Released[k]
  BY <1>1, <1>3, <1>9, Zenon DEF Optional
<1>12. Cardinality(W[T]) = Released[T].rc + 1
  <2>1. IsFiniteSet(Working(T))
    BY WorkingFinite, Zenon
  <2>2. IsFiniteSet(Working(T) \ {Here}) /\ Here \notin Working(T) \ {Here}
    BY <2>1, FS_RemoveElement, Zenon
  <2>3. Cardinality((Working(T) \ {Here}) \cup {Here}) = Cardinality(Working(T) \ {Here}) + 1
    BY <2>2, FS_AddElement, Zenon
  <2> QED
    BY <1>6, <1>7, <2>3, Zenon
<1> HIDE DEF ds, W
<1>13. \A k \in Hash : IF ds[k] = Absent THEN W[k] = {}
                       ELSE ds[k].rc = Cardinality(W[k]) /\ (ds[k].rc = 0 => k \in tx.doomed \cup Doomed)
  <2>1. ASSUME NEW k \in Hash, k # T
        PROVE  IF ds[k] = Absent THEN W[k] = {}
               ELSE ds[k].rc = Cardinality(W[k]) /\ (ds[k].rc = 0 => k \in tx.doomed \cup Doomed)
    BY <1>3, <1>6, <1>11, <2>1, ZenonT(60)
  <2>2. ds[T] # Absent /\ ds[T].rc = Cardinality(W[T]) /\ ds[T].rc # 0
    BY <1>8, <1>10, <1>12
  <2> QED
    BY <2>1, <2>2, Zenon
<1>14. \A k \in Hash : tx.defs[k] # Absent => ds[k] # Absent
  BY <1>3, <1>10, <1>11, Zenon
<1>15. Doomed \in SUBSET Hash
  BY OldHookTyped, Zenon DEF Doomed
<1>16. CASE Push(e, h, ds, Doomed)
  <2>1. h \in Optional(Hook) /\ ds \in [Hash -> Optional(Definition)]
    BY <1>2, <1>11, Zenon
  <2> QED
    BY <1>5, <1>13, <1>14, <1>15, <1>16, <2>1, PushPreserves, SMTT(60)
<1> QED
  BY <1>4, <1>16, AbortPreserves, Zenon

\* An iteration of the loop keeps the view's counts and leaves the ledger alone.
LEMMA LoopPreserves ==
    ASSUME TypeOK, LoopInv, Running, NEW e \in Menu[tx.account] \cup {BlankEntry}, SetHookObject(e)
    PROVE  TypeOK' /\ LoopInv' /\ UNCHANGED ledger
<1>1. e \in Entry
  <2>1. Menu[tx.account] \in SUBSET Entry
    BY TxTyped, SetHookAssumption, Zenon
  <2> QED
    BY <2>1, BlankTyped, Zenon
<1>2. Position <= MaxHooks /\ Admitted(e)
      /\ (Keep(e) \/ Delete(e) \/ Update(e) \/ Create(e) \/ Install(e))
  BY Zenon DEF SetHookObject, Step
<1> QED
  BY <1>1, <1>2, KeepPreserves, DeletePreserves, UpdatePreserves, CreatePreserves, InstallPreserves, Zenon

-----------------------------------------------------------------------------
(* Whole transactions.                                                     *)

LengthInv == \A a \in Account : Len(hooks[a]) <= MaxHooks

\* An owner count is what is billed, up to what genesis left out.
Covers(count, bill, a) == count <= bill /\ bill - count <= Unbilled(a)

IInv == TypeOK /\ LengthInv /\ LoopInv /\ ReferencesExact /\ StateCounted /\ OwnerCountBilled

-----------------------------------------------------------------------------

\* What is billed can be counted.
LEMMA BilledFinite ==
    ASSUME NEW array \in Seq(Optional(Hook))
    PROVE  HookReserve(array) \in Nat /\ IsFiniteSet(Billed(array))
<1>1. Len(array) \in Int /\ 1 \in Int
  OBVIOUS
<1>2. IsFiniteSet(1 .. Len(array))
  BY <1>1, FS_Interval, Zenon
<1>3. IsFiniteSet(ParamName \cup Grant \cup {Absent})
  <2>1. IsFiniteSet(ParamName) /\ IsFiniteSet(Grant)
    BY SetHookAssumption, Zenon
  <2>2. IsFiniteSet(ParamName \cup Grant)
    BY <2>1, FS_Union, ZenonT(60)
  <2> QED
    BY <2>2, FS_AddElement, ZenonT(60)
<1> DEFINE all == (1 .. Len(array)) \X (ParamName \cup Grant \cup {Absent})
<1>4. IsFiniteSet(all)
  BY <1>2, <1>3, FS_Product, Zenon
<1>5. Billed(array) \in SUBSET all
  BY Zenon DEF Billed
<1> HIDE DEF all
<1>6. IsFiniteSet(Billed(array))
  BY <1>4, <1>5, FS_Subset, Zenon
<1> QED
  BY <1>6, FS_CardinalityType, Zenon DEF HookReserve

\* An array without blanks is billed at least its hooks.
LEMMA HooksBilled ==
    ASSUME NEW array \in Seq(Optional(Hook)), \A i \in 1 .. Len(array) : array[i] # Absent
    PROVE  Len(array) <= HookReserve(array)
<1> DEFINE n == Len(array)
           each == (1 .. n) \X {Absent}
<1>1. n \in Nat /\ 1 \in Int /\ n \in Int
  OBVIOUS
<1>2. IsFiniteSet(1 .. n) /\ Cardinality(1 .. n) = n
  <2>1. IsFiniteSet(1 .. n) /\ Cardinality(1 .. n) = IF 1 > n THEN 0 ELSE n - 1 + 1
    BY <1>1, FS_Interval, Zenon
  <2> QED BY <1>1, <2>1
<1>3. IsFiniteSet({Absent}) /\ Cardinality({Absent}) = 1
  BY FS_Singleton, Zenon
<1>4. Cardinality(each) = Cardinality(1 .. n) * Cardinality({Absent})
  BY <1>2, <1>3, FS_Product, Zenon
<1>5. each \subseteq Billed(array)
  BY Zenon DEF Billed
<1>6. IsFiniteSet(Billed(array))
  BY BilledFinite, Zenon
<1> HIDE DEF n, each
<1>7. Cardinality(each) <= Cardinality(Billed(array))
  BY <1>5, <1>6, FS_Subset, Zenon
<1>8. Cardinality(each) = n
  BY <1>1, <1>2, <1>3, <1>4
<1> QED BY <1>7, <1>8, Zenon DEF HookReserve, n

\* The arrays that the activation installs (activateXahauGenesis).
LEMMA GenesisTyped ==
    ASSUME NEW a \in Account
    PROVE  /\ GenesisArray(a) \in Seq(Optional(Hook)) /\ Len(GenesisArray(a)) <= MaxHooks
           /\ \A i \in 1 .. Len(GenesisArray(a)) : GenesisArray(a)[i] \in Hook
           /\ \A i \in 1 .. MaxHooks :
                 HashAt(GenesisArray(a), i) =
                    IF a = GenesisAccount /\ i <= Len(GenesisCode) THEN GenesisCode[i]
                    ELSE IF a \in Tables /\ i = 1 THEN GenesisCode[1] ELSE Absent
<1>1. /\ GenesisCode \in Seq(Hash) /\ Len(GenesisCode) <= MaxHooks /\ MaxHooks \in Nat
      /\ GovernParams \in [{GenesisAccount} \cup Tables -> Params]
      /\ a \in Tables => a # GenesisAccount /\ GenesisCode # <<>>
      /\ Absent \notin Hook
  BY SetHookAssumption, Zenon
<1>2. /\ Len(GenesisCode) \in Nat /\ \A i \in 1 .. Len(GenesisCode) : GenesisCode[i] \in Hash
      /\ GenesisCode # <<>> => 1 <= Len(GenesisCode) /\ 1 \in 1 .. Len(GenesisCode)
  BY <1>1
<1>3. NoParams \in Params
  BY Zenon DEF NoParams, Params
<1>4. \A h \in Hash, params \in Params : GenesisHook(h, params) \in Hook /\ GenesisHook(h, params).hash = h
  BY Zenon DEF GenesisHook, Hook, Optional
<1> DEFINE n == Len(GenesisCode)
           all == [i \in 1 .. n |-> GenesisHook(GenesisCode[i], IF i = 1 THEN GovernParams[a] ELSE NoParams)]
           one == <<GenesisHook(GenesisCode[1], GovernParams[a])>>
<1>5. CASE a = GenesisAccount
  <2>1. GenesisArray(a) = all
    BY <1>5, Zenon DEF GenesisArray
  <2>2. \A i \in 1 .. n : all[i] \in Hook /\ all[i].hash = GenesisCode[i]
    <3>1. GovernParams[a] \in Params
      BY <1>1, <1>5, Zenon
    <3> QED BY <1>2, <1>3, <1>4, <3>1, Zenon
  <2>3. all \in [1 .. n -> Optional(Hook)]
    BY <2>2, Zenon DEF Optional
  <2> HIDE DEF all
  <2>4. n \in Nat /\ n <= MaxHooks
    BY <1>1, <1>2, Zenon
  <2> HIDE DEF n
  <2>5. all \in Seq(Optional(Hook)) /\ Len(all) = n
    <3>1. all \in Seq(Optional(Hook))
      BY <2>3, <2>4
    <3>2. DOMAIN all = 1 .. n
      BY <2>3, Zenon
    <3> QED BY <2>4, <3>1, <3>2
  <2>6. ASSUME NEW i \in 1 .. MaxHooks
        PROVE  HashAt(all, i) = IF i <= n THEN GenesisCode[i] ELSE Absent
    <3>1. i <= n <=> i \in 1 .. n
      BY <1>1, <2>4
    <3> QED BY <1>1, <2>2, <2>5, <3>1, Zenon DEF HashAt
  <2>7. a \notin Tables
    BY <1>1, <1>5, Zenon
  <2> QED BY <1>5, <2>1, <2>2, <2>4, <2>5, <2>6, <2>7, Zenon DEF n
<1>6. CASE a \in Tables
  <2>1. GenesisArray(a) = one /\ a # GenesisAccount
    BY <1>1, <1>6, Zenon DEF GenesisArray
  <2>2. GenesisHook(GenesisCode[1], GovernParams[a]) \in Hook
        /\ GenesisHook(GenesisCode[1], GovernParams[a]).hash = GenesisCode[1]
    BY <1>1, <1>2, <1>4, <1>6, Zenon
  <2> DEFINE x == GenesisHook(GenesisCode[1], GovernParams[a])
  <2>3. one[1] = x /\ one[1] \in Hook /\ one[1].hash = GenesisCode[1] /\ one = <<x>>
    BY <2>2
  <2> HIDE DEF x
  <2>4. Len(one) = 1 /\ one \in Seq(Optional(Hook))
    <3>1. x \in Optional(Hook)
      BY <2>3, Zenon DEF Optional
    <3> QED BY <2>3, <3>1
  <2> HIDE DEF one
  <2>5. 1 <= MaxHooks
    BY <1>1, <1>2, <1>6
  <2>6. \A i \in 1 .. 1 : i = 1
    OBVIOUS
  <2>7. ASSUME NEW i \in 1 .. MaxHooks
        PROVE  HashAt(one, i) = IF i = 1 THEN GenesisCode[1] ELSE Absent
    <3>1. i \in 1 .. 1 <=> i = 1
      BY <1>1
    <3> QED BY <1>1, <2>3, <2>4, <3>1, Zenon DEF HashAt
  <2> QED BY <1>6, <2>1, <2>3, <2>4, <2>5, <2>6, <2>7, Zenon
<1>7. CASE a # GenesisAccount /\ a \notin Tables
  <2>1. GenesisArray(a) = <<>>
    BY <1>7, Zenon DEF GenesisArray
  <2>2. Len(<<>>) = 0 /\ <<>> \in Seq(Optional(Hook)) /\ 1 .. Len(<<>>) = {} /\ 0 <= MaxHooks
    BY <1>1
  <2> QED BY <1>7, <2>1, <2>2, Zenon DEF HashAt
<1> QED BY <1>5, <1>6, <1>7, Zenon

\* The activation leaves no negative number unbilled.
LEMMA UnbilledTyped ==
    ASSUME NEW a \in Account
    PROVE  Unbilled(a) \in Nat
<1>1. /\ GenesisArray(a) \in Seq(Optional(Hook))
      /\ \A i \in 1 .. Len(GenesisArray(a)) : GenesisArray(a)[i] # Absent
  <2>1. Absent \notin Hook
    BY SetHookAssumption, Zenon
  <2> QED BY <2>1, GenesisTyped, ZenonT(60)
<1> DEFINE n == Len(GenesisArray(a))
           r == HookReserve(GenesisArray(a))
<1>2. n <= r /\ r \in Nat
  BY <1>1, HooksBilled, BilledFinite, Zenon
<1>3. n \in Nat
  BY <1>1
<1> HIDE DEF n, r
<1>4. r - n \in Nat
  BY <1>2, <1>3
<1> QED BY <1>4, Zenon DEF Unbilled, n, r

\* An array of blanks is billed nothing, as no array is.
LEMMA NewArrayBilled ==
    ASSUME TypeOK, Running
    PROVE  /\ NewArray \in Seq(Optional(Hook)) /\ Len(NewArray) <= Len(tx.new)
           /\ HookReserve(NewArray) = HookReserve(tx.new)
           /\ \A i \in Nat : HashAt(NewArray, i) = HashAt(tx.new, i)
<1>1. tx.new \in Seq(Optional(Hook)) /\ Len(tx.new) \in Nat
  BY TxTyped
<1>2. CASE \A i \in DOMAIN tx.new : tx.new[i] = Absent
  <2>1. NewArray = <<>>
    BY <1>2, Zenon DEF NewArray
  <2>2. DOMAIN tx.new = 1 .. Len(tx.new)
    BY <1>1
  <2>3. Billed(tx.new) = {}
    BY <1>2, <2>2, Zenon DEF Billed
  <2>4. Len(<<>>) = 0 /\ <<>> \in Seq(Optional(Hook))
    OBVIOUS
  <2>5. Billed(<<>>) = {}
    BY <2>4 DEF Billed
  <2>6. \A i \in Nat : HashAt(<<>>, i) = Absent
    BY <2>4 DEF HashAt
  <2>7. \A i \in Nat : HashAt(tx.new, i) = Absent
    BY <1>2, <2>2, Zenon DEF HashAt
  <2>8. HookReserve(NewArray) = HookReserve(tx.new)
    BY <2>1, <2>3, <2>5, ZenonT(60) DEF HookReserve
  <2>9. Len(NewArray) <= Len(tx.new) /\ NewArray \in Seq(Optional(Hook))
    BY <1>1, <2>1, <2>4
  <2> QED
    BY <2>1, <2>6, <2>7, <2>8, <2>9, Zenon
<1>3. CASE ~ \A i \in DOMAIN tx.new : tx.new[i] = Absent
  BY <1>1, <1>3 DEF NewArray
<1> QED
  BY <1>2, <1>3, Zenon

\* Once the loop is over, the view counts the users of the new ledger.
LEMMA CommitReferences ==
    ASSUME IInv, NEW affordable \in Affordable, NEW gone \in SUBSET entries, Commit(affordable, gone)
    PROVE  ReferencesExact' /\ LengthInv' /\ defs' \in [Hash -> Optional(Definition)]
           /\ hooks' \in [Account -> Seq(Optional(Hook))]
<1>1. TypeOK /\ Running /\ LoopInv /\ LengthInv
  BY Zenon DEF IInv, Commit, LoopDone
<1>2. /\ tx.account \in Account /\ tx.new \in Seq(Optional(Hook)) /\ Len(tx.new) \in Nat
      /\ hooks \in [Account -> Seq(Optional(Hook))]
      /\ tx.defs \in [Hash -> Optional(Definition)]
      /\ Len(hooks[tx.account]) \in Nat
  <2>1. /\ tx.account \in Account /\ tx.new \in Seq(Optional(Hook))
        /\ tx.defs \in [Hash -> Optional(Definition)] /\ hooks[tx.account] \in Seq(Optional(Hook))
    BY <1>1, TxTyped, ZenonT(60)
  <2>2. hooks \in [Account -> Seq(Optional(Hook))]
    BY <1>1, Zenon DEF TypeOK
  <2> QED
    BY <2>1, <2>2
<1>3. Len(tx.new) >= Len(hooks[tx.account]) /\ Len(tx.new) <= MaxHooks
  BY <1>1, Zenon DEF Commit, LoopDone, LoopInv
<1>4. /\ NewArray \in Seq(Optional(Hook)) /\ Len(NewArray) <= Len(tx.new)
      /\ \A i \in Nat : HashAt(NewArray, i) = HashAt(tx.new, i)
  BY <1>1, NewArrayBilled, Zenon
<1>5. /\ hooks' = [hooks EXCEPT ![tx.account] = NewArray]
      /\ defs' = Remaining
  BY Zenon DEF Commit
<1>6. LengthInv'
  <2>1. Len(NewArray) \in Nat /\ MaxHooks \in Nat
    BY <1>4, SetHookAssumption
  <2>2. Len(NewArray) <= MaxHooks
    BY <1>2, <1>3, <1>4, <2>1
  <2>3. \A a \in Account : hooks'[a] = IF a = tx.account THEN NewArray ELSE hooks[a]
    BY <1>2, <1>5, Zenon
  <2> QED
    BY <1>1, <2>2, <2>3, Zenon DEF LengthInv
<1>7. ASSUME NEW s \in Slots
      PROVE  HashAt(hooks'[s[1]], s[2]) = WorkHash(s)
  <2>1. s[1] \in Account /\ s[2] \in Nat /\ s[2] >= 1
    BY SetHookAssumption DEF Slots
  <2>2. CASE s[1] # tx.account
    BY <1>2, <1>5, <2>1, <2>2, Zenon DEF WorkHash
  <2>3. CASE s[1] = tx.account
    <3>1. HashAt(hooks'[s[1]], s[2]) = HashAt(tx.new, s[2])
      BY <1>2, <1>4, <1>5, <2>1, <2>3, Zenon
    <3>2. CASE s[2] <= Len(tx.new)
      BY <2>3, <3>1, <3>2, Zenon DEF WorkHash
    <3>3. CASE ~(s[2] <= Len(tx.new))
      <4>1. s[2] \notin 1 .. Len(tx.new) /\ s[2] \notin 1 .. Len(hooks[tx.account])
        BY <1>2, <1>3, <2>1, <3>3
      <4> QED
        BY <2>3, <3>1, <3>3, <4>1, Zenon DEF WorkHash, HashAt
    <3> QED
      BY <3>2, <3>3, Zenon
  <2> QED
    BY <2>2, <2>3, Zenon
<1>8. \A h \in Hash : Users(h)' = Working(h)
  BY <1>7, Zenon DEF Users, Working, Slots
<1>9. \A h \in Hash : IF tx.defs[h] = Absent THEN Working(h) = {}
                      ELSE tx.defs[h].rc = Cardinality(Working(h)) /\ (tx.defs[h].rc = 0 => h \in tx.doomed)
  BY <1>1, Zenon DEF LoopInv, Counts
<1>10. \A h : IsFiniteSet(Working(h)) /\ Cardinality(Working(h)) \in Nat
  BY WorkingFinite, Zenon
<1>11. ASSUME NEW h \in Hash
       PROVE  IF defs'[h] = Absent THEN Users(h)' = {}
              ELSE defs'[h].rc > 0 /\ defs'[h].rc = Cardinality(Users(h)')
  <2>1. defs'[h] = IF h \in tx.doomed /\ tx.defs[h].rc = 0 THEN Absent ELSE tx.defs[h]
    BY <1>5, Zenon DEF Remaining
  <2>2. Users(h)' = Working(h) /\ IsFiniteSet(Working(h)) /\ Cardinality(Working(h)) \in Nat
    BY <1>8, <1>10, Zenon
  <2>3. CASE tx.defs[h] = Absent
    BY <1>9, <2>1, <2>2, <2>3, Zenon
  <2>4. CASE tx.defs[h] # Absent /\ tx.defs[h].rc = 0
    <3>1. defs'[h] = Absent /\ Cardinality(Working(h)) = 0
      BY <1>9, <2>1, <2>4, Zenon
    <3>2. Working(h) = {}
      BY <2>2, <3>1, FS_EmptySet, Zenon
    <3> QED
      BY <2>2, <3>1, <3>2, Zenon
  <2>5. CASE tx.defs[h] # Absent /\ tx.defs[h].rc # 0
    <3>1. defs'[h] = tx.defs[h] /\ tx.defs[h].rc = Cardinality(Working(h))
      BY <1>9, <2>1, <2>5, Zenon
    <3>2. tx.defs[h].rc > 0
      BY <2>2, <2>5, <3>1
    <3> QED
      BY <2>2, <2>5, <3>1, <3>2, Zenon
  <2> QED
    BY <2>3, <2>4, <2>5, Zenon
<1>12. defs' \in [Hash -> Optional(Definition)] /\ hooks' \in [Account -> Seq(Optional(Hook))]
  BY <1>2, <1>4, <1>5, Zenon DEF Remaining, Optional
<1> QED
  BY <1>6, <1>11, <1>12, Zenon DEF ReferencesExact

\* A destroyed namespace takes its entries off the counts, and only those.
LEMMA CommitState ==
    ASSUME IInv, NEW affordable \in Affordable, NEW gone \in SUBSET entries, Commit(affordable, gone)
    PROVE  /\ entries' \in SUBSET Place /\ stateCount' \in [Account -> Nat]
           /\ namespaces' \in [Account -> SUBSET Namespace]
           /\ StateCounted'
           /\ stateCount[tx.account] >= Cardinality(gone) /\ Cardinality(gone) \in Nat
           /\ stateCount' = [stateCount EXCEPT ![tx.account] = @ - Cardinality(gone)]
<1> DEFINE a == tx.account
           mine == {p \in entries : p[1] = a}
<1>1. TypeOK /\ Running /\ StateCounted
  BY Zenon DEF IInv, Commit, LoopDone
<1>2. /\ a \in Account /\ tx.marked \in SUBSET Namespace
      /\ entries \in SUBSET Place /\ stateCount \in [Account -> Nat]
      /\ namespaces \in [Account -> SUBSET Namespace]
  BY <1>1, TxTyped, Zenon DEF TypeOK
<1>3. /\ \A p \in gone : p[1] = a /\ p[2] \in tx.marked
      /\ \A n \in tx.marked : Destroys(a, n, gone)
      /\ entries' = entries \ gone
      /\ stateCount' = [stateCount EXCEPT ![a] = @ - Cardinality(gone)]
      /\ namespaces' = [namespaces EXCEPT ![a] = @ \ Unlisted(a)]
  BY Zenon DEF Commit
<1> HIDE DEF a
<1>4. IsFiniteSet(entries)
  BY <1>2, SetHookAssumption, FS_Subset, Zenon
<1>5. mine \in SUBSET entries /\ gone \in SUBSET mine
  BY <1>3, Zenon
<1>6. IsFiniteSet(mine) /\ IsFiniteSet(gone)
  BY <1>4, <1>5, FS_Subset, Zenon
<1>7. /\ Cardinality(mine) \in Nat /\ Cardinality(gone) \in Nat /\ Cardinality(gone) <= Cardinality(mine)
  BY <1>5, <1>6, FS_CardinalityType, FS_Subset, Zenon
<1>8. Cardinality(mine \ gone) = Cardinality(mine) - Cardinality(gone)
  <2>1. mine \cap gone = gone
    BY <1>5, Zenon
  <2> QED
    BY <1>6, <2>1, FS_Difference, Zenon
<1>9. stateCount[a] = Cardinality(mine)
  BY <1>1, <1>2, Zenon DEF StateCounted
<1>10. \A b \in Account : {p \in entries' : p[1] = b} =
                              IF b = a THEN mine \ gone ELSE {p \in entries : p[1] = b}
  BY <1>3, Zenon
<1> HIDE DEF mine
<1>11. \A b \in Account : stateCount'[b] = Cardinality({p \in entries' : p[1] = b})
  <2> SUFFICES ASSUME NEW b \in Account
               PROVE  stateCount'[b] = Cardinality({p \in entries' : p[1] = b})
    BY Zenon
  <2>1. CASE b = a
    BY <1>2, <1>3, <1>8, <1>9, <1>10, <2>1, ZenonT(60)
  <2>2. CASE b # a
    <3>1. stateCount'[b] = stateCount[b]
      BY <1>2, <1>3, <2>2, Zenon
    <3> QED
      BY <1>1, <1>10, <2>2, <3>1, Zenon DEF StateCounted
  <2> QED
    BY <2>1, <2>2, Zenon
<1>12. \A b \in Account : namespaces[b] = {n \in Namespace : EntriesOf(b, n) # {}}
  BY <1>1, ZenonT(60) DEF StateCounted
<1>13. ASSUME NEW n \in Namespace
       PROVE  {p \in entries' : p[1] = a /\ p[2] = n} # {} <=> EntriesOf(a, n) # {} /\ n \notin Unlisted(a)
  <2> DEFINE all == EntriesOf(a, n)
  <2>1. all \in SUBSET entries
    BY Zenon DEF EntriesOf
  <2>2. {p \in entries' : p[1] = a /\ p[2] = n} = all \ gone
    BY <1>3, Zenon DEF EntriesOf
  <2>4. IsFiniteSet(all)
    BY <1>4, <2>1, FS_Subset, Zenon
  <2>5. Cardinality(all) \in Nat /\ MaxNamespaceDelete \in Nat \ {0}
    BY <2>4, FS_CardinalityType, SetHookAssumption, Zenon
  <2>6. CASE n \notin tx.marked
    <3>1. all \cap gone = {}
      BY <1>3, <2>6, Zenon DEF EntriesOf
    <3>2. n \notin Unlisted(a)
      BY <2>6, Zenon DEF Unlisted
    <3> HIDE DEF all
    <3>3. all \ gone = all
      BY <3>1, Zenon
    <3> QED
      BY <2>2, <3>2, <3>3, Zenon DEF all
  <2>7. CASE n \in tx.marked /\ Cardinality(all) <= MaxNamespaceDelete
    <3>1. all \in SUBSET gone
      BY <1>3, <2>7, ZenonT(60) DEF Destroys
    <3>2. n \in Unlisted(a)
      BY <2>5, <2>7 DEF Unlisted, Partial
    <3> HIDE DEF all
    <3>3. all \ gone = {}
      BY <3>1, Zenon
    <3> QED
      BY <2>2, <3>2, <3>3, Zenon
  <2>8. CASE n \in tx.marked /\ ~(Cardinality(all) <= MaxNamespaceDelete)
    <3>1. Cardinality(all \cap gone) = MaxNamespaceDelete
      BY <1>3, <2>8, Zenon DEF Destroys
    <3>2. n \notin Unlisted(a)
      BY <2>5, <2>8 DEF Unlisted, Partial
    <3>3. all \cap gone # all
      <4> HIDE DEF all
      <4> QED
        BY <2>5, <2>8, <3>1
    <3>4. all # {}
      <4>1. Cardinality({}) = 0
        BY FS_EmptySet, Zenon
      <4> HIDE DEF all
      <4> QED
        BY <2>5, <2>8, <4>1
    <3>5. all \ gone # {}
      <4> HIDE DEF all
      <4> QED
        BY <3>3, Zenon
    <3> QED
      BY <2>2, <3>2, <3>4, <3>5, Zenon
  <2> QED
    BY <2>6, <2>7, <2>8, Zenon
<1>14. ASSUME NEW b \in Account
       PROVE  namespaces'[b] = {n \in Namespace : {p \in entries' : p[1] = b /\ p[2] = n} # {}}
  <2>1. CASE b = a
    <3>1. namespaces'[b] = namespaces[a] \ Unlisted(a)
      BY <1>2, <1>3, <2>1, Zenon
    <3> QED
      BY <1>2, <1>12, <1>13, <2>1, <3>1
  <2>2. CASE b # a
    <3>1. namespaces'[b] = namespaces[b]
      BY <1>2, <1>3, <2>2, Zenon
    <3>2. \A n : {p \in entries' : p[1] = b /\ p[2] = n} = EntriesOf(b, n)
      BY <1>3, <2>2, Zenon DEF EntriesOf
    <3> QED
      BY <1>12, <3>1, <3>2, Zenon
  <2> QED
    BY <2>1, <2>2, Zenon
<1>15. StateCounted'
  BY <1>11, <1>14, Zenon DEF StateCounted, EntriesOf
<1>16. stateCount' \in [Account -> Nat]
  <2>1. stateCount[a] - Cardinality(gone) \in Nat
    BY <1>7, <1>9
  <2> QED
    BY <1>2, <1>3, <2>1, Zenon
<1>17. namespaces' \in [Account -> SUBSET Namespace] /\ entries' \in SUBSET Place
  BY <1>2, <1>3, Zenon
<1> QED
  BY <1>3, <1>7, <1>9, <1>15, <1>16, <1>17, Zenon DEF a

\* Committing keeps every count exact.
LEMMA CommitPreserves ==
    ASSUME IInv, NEW affordable \in Affordable, NEW gone \in SUBSET entries, Commit(affordable, gone)
    PROVE  IInv'
<1> DEFINE a == tx.account
<1>1. /\ TypeOK /\ Running /\ OwnerCountBilled /\ LengthInv
  BY Zenon DEF IInv, Commit, LoopDone
<1>2. /\ a \in Account /\ tx \in Transaction /\ tx.new \in Seq(Optional(Hook))
      /\ hooks \in [Account -> Seq(Optional(Hook))] /\ ownerCount \in [Account -> Nat]
      /\ stateCount \in [Account -> Nat]
  BY <1>1, TxTyped, Zenon DEF TypeOK
<1>3. PICK result \in Result(a) : tx' = [tx EXCEPT !.result = result]
  BY Zenon DEF Commit
<1>4. tx' \in Transaction /\ ~Running'
  <2>1. result \in {"tesSUCCESS", "tesPARTIAL"}
    BY <1>3, Zenon DEF Result
  <2> QED
    BY <1>2, <1>3, <2>1, ZenonT(60) DEF Transaction, Running
<1>5. /\ hooks' = [hooks EXCEPT ![a] = NewArray]
      /\ ownerCount' = [ownerCount EXCEPT ![a] = OwnerCountAfter(a, gone)]
  BY Zenon DEF Commit
<1>6. /\ HookReserve(NewArray) = HookReserve(tx.new)
      /\ HookReserve(tx.new) \in Nat
  BY <1>1, <1>2, NewArrayBilled, BilledFinite, Zenon
<1>7. /\ stateCount[a] >= Cardinality(gone) /\ Cardinality(gone) \in Nat
      /\ stateCount' = [stateCount EXCEPT ![a] = @ - Cardinality(gone)]
  BY CommitState, Zenon
<1> HIDE DEF a
<1>8. /\ HookReserve(hooks[a]) \in Nat /\ stateCount[a] \in Nat /\ ownerCount[a] \in Nat
      /\ Covers(ownerCount[a], HookReserve(hooks[a]) + stateCount[a], a) /\ Unbilled(a) \in Nat
  BY <1>1, <1>2, BilledFinite, UnbilledTyped, Zenon DEF OwnerCountBilled, Bill, Covers
<1>9. /\ OwnerCountAfter(a, gone) \in Nat
      /\ Covers(OwnerCountAfter(a, gone), HookReserve(tx.new) + (stateCount[a] - Cardinality(gone)), a)
  <2> DEFINE new == HookReserve(tx.new)
             old == HookReserve(hooks[a])
             c == Cardinality(gone)
             n == stateCount[a]
             own == ownerCount[a]
             u == Unbilled(a)
  <2>1. /\ new \in Nat /\ old \in Nat /\ c \in Nat /\ n \in Nat /\ n >= c
        /\ own \in Nat /\ u \in Nat /\ own <= old + n /\ (old + n) - own <= u
    BY <1>6, <1>7, <1>8, Zenon DEF Covers
  <2> DEFINE mid == Confined(own - c)
             end == Confined(mid + new - old)
  <2>2. OwnerCountAfter(a, gone) = end
    BY Zenon DEF OwnerCountAfter
  <2> HIDE DEF new, old, c, n, own, u
  <2>3. mid \in Nat /\ mid <= (old + n) - c /\ ((old + n) - c) - mid <= u
    BY <2>1 DEF Confined
  <2> HIDE DEF mid
  <2>4. end \in Nat /\ end <= new + (n - c) /\ (new + (n - c)) - end <= u
    BY <2>1, <2>3 DEF Confined
  <2> HIDE DEF end
  <2> QED
    BY <2>2, <2>4, Zenon DEF Covers, new, c, n, u
<1>11. ownerCount' \in [Account -> Nat]
  BY <1>2, <1>5, <1>9, Zenon
<1>12. ASSUME NEW b \in Account
       PROVE  Covers(ownerCount'[b], HookReserve(hooks'[b]) + stateCount'[b], b)
  <2>1. CASE b = a
    BY <1>2, <1>5, <1>6, <1>7, <1>9, <2>1, Zenon
  <2>2. CASE b # a
    <3>1. ownerCount'[b] = ownerCount[b] /\ hooks'[b] = hooks[b] /\ stateCount'[b] = stateCount[b]
      BY <1>2, <1>5, <1>7, <2>2, Zenon
    <3> QED
      BY <1>1, <3>1, Zenon DEF OwnerCountBilled, Bill, Covers
  <2> QED
    BY <2>1, <2>2, ZenonT(60)
<1>13. OwnerCountBilled'
  BY <1>12, Zenon DEF OwnerCountBilled, Bill, Covers, HookReserve, Billed
<1>14. TypeOK'
  BY <1>4, <1>11, CommitReferences, CommitState, Zenon DEF TypeOK
<1> QED
  BY <1>4, <1>13, <1>14, CommitReferences, CommitState, ZenonT(60) DEF IInv, LoopInv

\* A transaction starts from the counts of the ledger.
LEMMA BeginPreserves ==
    ASSUME IInv, NEW a \in Account, Begin(a)
    PROVE  TypeOK' /\ LoopInv' /\ UNCHANGED ledger
<1>1. /\ tx' = [account |-> a, asked |-> <<>>, new |-> <<>>, defs |-> defs, doomed |-> {},
                marked |-> {}, result |-> "running"]
      /\ UNCHANGED ledger
  BY Zenon DEF Begin
<1>2. TypeOK /\ ReferencesExact
  BY Zenon DEF IInv
<1>3. /\ defs' = defs /\ hooks' = hooks /\ entries' = entries /\ stateCount' = stateCount
      /\ ownerCount' = ownerCount /\ namespaces' = namespaces
  BY <1>1, Zenon DEF ledger, state
<1>4. tx' \in Transaction
  <2>1. defs \in [Hash -> Optional(Definition)]
    BY <1>2, Zenon DEF TypeOK
  <2>2. <<>> \in Seq(Entry) /\ <<>> \in Seq(Optional(Hook))
    OBVIOUS
  <2> QED
    BY <1>1, <2>1, <2>2, Zenon DEF Transaction
<1>5. TypeOK'
  BY <1>2, <1>3, <1>4, Zenon DEF TypeOK
<1>6. tx'.new = <<>> /\ tx'.defs = defs /\ Len(<<>>) = 0
  BY <1>1, Zenon
<1>7. \A s \in Slots : ~(s[2] <= 0)
  BY LimitTyped DEF Slots
<1>8. \A s \in Slots : WorkHash(s)' = HashAt(hooks[s[1]], s[2])
  <2>1. \A s \in Slots : ~(s[2] <= Len(tx'.new))
    BY <1>6, <1>7, Zenon
  <2> QED
    BY <1>3, <2>1, ZenonT(60) DEF WorkHash, HashAt
<1>9. \A h \in Hash : Working(h)' = Users(h)
  BY <1>8, Zenon DEF Working, Users, Slots
<1>10. \A h \in Hash : IF defs[h] = Absent THEN Users(h) = {}
                       ELSE defs[h].rc > 0 /\ defs[h].rc = Cardinality(Users(h))
  BY <1>2, Zenon DEF ReferencesExact
<1>11. \A h \in Hash : IF tx'.defs[h] = Absent THEN Working(h)' = {}
                       ELSE tx'.defs[h].rc = Cardinality(Working(h)') /\ tx'.defs[h].rc # 0
  BY <1>6, <1>9, <1>10
<1>12. Counts(tx.defs, tx.doomed, Working)'
  BY <1>11, Zenon DEF Counts
<1>13. Len(tx'.new) <= MaxHooks
  BY <1>6, LimitTyped
<1> QED
  BY <1>1, <1>3, <1>5, <1>6, <1>12, <1>13, Zenon DEF LoopInv

\* The ledger's invariants hold while the ledger does not change.
LEMMA LedgerUnchanged ==
    ASSUME IInv, TypeOK', LoopInv', UNCHANGED ledger
    PROVE  IInv'
<1>1. /\ defs' = defs /\ hooks' = hooks /\ entries' = entries /\ stateCount' = stateCount
      /\ ownerCount' = ownerCount /\ namespaces' = namespaces
  BY Zenon DEF ledger, state
<1>2. ReferencesExact' /\ LengthInv'
  BY <1>1, ZenonT(60) DEF IInv, ReferencesExact, Users, HashAt, Slots, LengthInv
<1>3. StateCounted'
  BY <1>1, Zenon DEF IInv, StateCounted, EntriesOf
<1>4. OwnerCountBilled'
  BY <1>1, Zenon DEF IInv, OwnerCountBilled, Bill, HookReserve, Billed, Listed
<1> QED
  BY <1>2, <1>3, <1>4, Zenon DEF IInv

\* The reference counts do not depend on the state entries.
LEMMA HooksUnchanged ==
    ASSUME IInv, UNCHANGED <<defs, hooks, tx>>, tx = NoTx
    PROVE  ReferencesExact' /\ LengthInv' /\ LoopInv'
BY Zenon DEF IInv, ReferencesExact, Users, HashAt, Slots, LengthInv, LoopInv, Running

\* A hook that writes a state entry keeps the invariant.
LEMMA SetHookStatePreserves ==
    ASSUME IInv, NEW p \in Place, NEW affordable \in Affordable, SetHookState(p, affordable)
    PROVE  IInv'
<1> DEFINE a == p[1]
           mine == {q \in entries : q[1] = a}
<1>1. TypeOK /\ StateCounted /\ OwnerCountBilled
  BY Zenon DEF IInv
<1>2. /\ tx = NoTx /\ UNCHANGED <<defs, hooks, tx>> /\ p \notin entries
      /\ entries' = entries \cup {p}
      /\ stateCount' = [stateCount EXCEPT ![a] = @ + 1]
      /\ ownerCount' = [ownerCount EXCEPT ![a] = @ + 1]
      /\ namespaces' = [namespaces EXCEPT ![a] = @ \cup {p[2]}]
  BY Zenon DEF SetHookState
<1>3. /\ a \in Account /\ p[2] \in Namespace /\ entries \in SUBSET Place
      /\ stateCount \in [Account -> Nat] /\ ownerCount \in [Account -> Nat]
      /\ namespaces \in [Account -> SUBSET Namespace]
  BY <1>1, SetHookAssumption, Zenon DEF TypeOK
<1> HIDE DEF a
<1>4. IsFiniteSet(mine)
  <2>1. mine \in SUBSET Place
    BY <1>3, Zenon
  <2> QED
    BY <2>1, SetHookAssumption, FS_Subset, Zenon
<1>5. p \notin mine /\ stateCount[a] = Cardinality(mine)
  BY <1>1, <1>2, <1>3, Zenon DEF StateCounted
<1>6. Cardinality(mine \cup {p}) = Cardinality(mine) + 1
  BY <1>4, <1>5, FS_AddElement, ZenonT(60)
<1>7. \A b \in Account : {q \in entries' : q[1] = b} =
                             IF b = a THEN mine \cup {p} ELSE {q \in entries : q[1] = b}
  BY <1>2, Zenon DEF a
<1> HIDE DEF mine
<1>8. ASSUME NEW b \in Account
      PROVE  stateCount'[b] = Cardinality({q \in entries' : q[1] = b})
  <2>1. CASE b = a
    BY <1>2, <1>3, <1>5, <1>6, <1>7, <2>1, ZenonT(60)
  <2>2. CASE b # a
    <3>1. stateCount'[b] = stateCount[b]
      BY <1>2, <1>3, <2>2, Zenon
    <3> QED
      BY <1>1, <1>7, <2>2, <3>1, Zenon DEF StateCounted
  <2> QED
    BY <2>1, <2>2, Zenon
<1>9. ASSUME NEW b \in Account
      PROVE  namespaces'[b] = {n \in Namespace : {q \in entries' : q[1] = b /\ q[2] = n} # {}}
  <2>1. namespaces[b] = {n \in Namespace : {q \in entries : q[1] = b /\ q[2] = n} # {}}
    BY <1>1, ZenonT(60) DEF StateCounted, EntriesOf
  <2>2. namespaces'[b] = namespaces[b] \cup (IF b = a THEN {p[2]} ELSE {})
    BY <1>2, <1>3, Zenon
  <2>3. ASSUME NEW n \in Namespace
        PROVE  {q \in entries' : q[1] = b /\ q[2] = n} =
                   {q \in entries : q[1] = b /\ q[2] = n} \cup (IF b = a /\ p[2] = n THEN {p} ELSE {})
    BY <1>2, Zenon DEF a
  <2>4. CASE b = a
    <3>1. \A n \in Namespace : {q \in entries' : q[1] = b /\ q[2] = n} # {}
              <=> {q \in entries : q[1] = b /\ q[2] = n} # {} \/ n = p[2]
      BY <2>3, <2>4, Zenon
    <3> QED
      BY <1>3, <2>1, <2>2, <2>4, <3>1
  <2>5. CASE b # a
    <3>1. \A n \in Namespace : {q \in entries' : q[1] = b /\ q[2] = n} = {q \in entries : q[1] = b /\ q[2] = n}
      BY <2>3, <2>5, Zenon
    <3> QED
      BY <2>1, <2>2, <2>5, <3>1, Zenon
  <2> QED
    BY <2>4, <2>5, Zenon
<1>10. StateCounted'
  BY <1>8, <1>9, Zenon DEF StateCounted, EntriesOf
<1>11. ASSUME NEW b \in Account
       PROVE  Covers(ownerCount'[b], HookReserve(hooks[b]) + stateCount'[b], b)
  <2>1. /\ HookReserve(hooks[b]) \in Nat /\ Unbilled(b) \in Nat
        /\ Covers(ownerCount[b], HookReserve(hooks[b]) + stateCount[b], b)
    BY <1>1, BilledFinite, UnbilledTyped, Zenon DEF OwnerCountBilled, Bill, Covers, TypeOK
  <2>2. \/ ownerCount'[b] = ownerCount[b] /\ stateCount'[b] = stateCount[b]
        \/ ownerCount'[b] = ownerCount[b] + 1 /\ stateCount'[b] = stateCount[b] + 1
    BY <1>2, <1>3, Zenon
  <2>3. ownerCount[b] \in Nat /\ stateCount[b] \in Nat
    BY <1>3, Zenon
  <2> DEFINE r == HookReserve(hooks[b])
             u == Unbilled(b)
  <2> HIDE DEF r, u
  <2>4. /\ r \in Nat /\ u \in Nat
        /\ ownerCount[b] <= r + stateCount[b] /\ (r + stateCount[b]) - ownerCount[b] <= u
    BY <2>1, Zenon DEF r, u, Covers
  <2>5. ownerCount'[b] <= r + stateCount'[b] /\ (r + stateCount'[b]) - ownerCount'[b] <= u
    BY <2>2, <2>3, <2>4 DEF Confined
  <2> QED
    BY <2>5, Zenon DEF r, u, Covers
<1>12. OwnerCountBilled'
  BY <1>2, <1>11, ZenonT(60) DEF OwnerCountBilled, Bill, Covers, HookReserve, Billed, Listed
<1>13. entries' \in SUBSET Place /\ namespaces' \in [Account -> SUBSET Namespace]
  BY <1>2, <1>3, Zenon
<1>14. stateCount' \in [Account -> Nat] /\ ownerCount' \in [Account -> Nat]
  <2>1. stateCount[a] + 1 \in Nat /\ ownerCount[a] + 1 \in Nat
    BY <1>3
  <2> QED
    BY <1>2, <1>3, <2>1, Zenon
<1>15. TypeOK'
  BY <1>1, <1>2, <1>13, <1>14, Zenon DEF TypeOK
<1> QED
  BY <1>2, <1>10, <1>12, <1>15, HooksUnchanged, Zenon DEF IInv

\* A hook that deletes a state entry keeps the invariant.
LEMMA RemoveHookStatePreserves ==
    ASSUME IInv, NEW p \in Place, RemoveHookState(p)
    PROVE  IInv'
<1> DEFINE a == p[1]
           mine == {q \in entries : q[1] = a}
<1>1. TypeOK /\ StateCounted /\ OwnerCountBilled
  BY Zenon DEF IInv
<1>2. /\ tx = NoTx /\ UNCHANGED <<defs, hooks, tx>> /\ p \in entries
      /\ entries' = entries \ {p}
      /\ stateCount' = [stateCount EXCEPT ![a] = @ - 1]
      /\ ownerCount' = [ownerCount EXCEPT ![a] = Confined(@ - 1)]
      /\ namespaces' = [namespaces EXCEPT ![a] = IF EntriesOf(a, p[2]) = {p} THEN @ \ {p[2]} ELSE @]
  BY Zenon DEF RemoveHookState
<1>3. /\ a \in Account /\ p[2] \in Namespace /\ entries \in SUBSET Place
      /\ stateCount \in [Account -> Nat] /\ ownerCount \in [Account -> Nat]
      /\ namespaces \in [Account -> SUBSET Namespace]
  BY <1>1, SetHookAssumption, Zenon DEF TypeOK
<1> HIDE DEF a
<1>4. IsFiniteSet(mine)
  <2>1. mine \in SUBSET Place
    BY <1>3, Zenon
  <2> QED
    BY <2>1, SetHookAssumption, FS_Subset, Zenon
<1>5. p \in mine /\ stateCount[a] = Cardinality(mine)
  BY <1>1, <1>2, <1>3, Zenon DEF StateCounted, a
<1>6. Cardinality(mine \ {p}) = Cardinality(mine) - 1 /\ Cardinality(mine) \in Nat
  BY <1>4, <1>5, FS_RemoveElement, FS_CardinalityType, ZenonT(60)
<1>7. Cardinality(mine) # 0
  BY <1>4, <1>5, FS_EmptySet, Zenon
<1>8. \A b \in Account : {q \in entries' : q[1] = b} =
                             IF b = a THEN mine \ {p} ELSE {q \in entries : q[1] = b}
  BY <1>2, Zenon DEF a
<1> HIDE DEF mine
<1>9. ASSUME NEW b \in Account
      PROVE  stateCount'[b] = Cardinality({q \in entries' : q[1] = b})
  <2>1. CASE b = a
    BY <1>2, <1>3, <1>5, <1>6, <1>8, <2>1, ZenonT(60)
  <2>2. CASE b # a
    <3>1. stateCount'[b] = stateCount[b]
      BY <1>2, <1>3, <2>2, Zenon
    <3> QED
      BY <1>1, <1>8, <2>2, <3>1, ZenonT(60) DEF StateCounted
  <2> QED
    BY <2>1, <2>2, Zenon
<1>10. ASSUME NEW b \in Account
       PROVE  namespaces'[b] = {n \in Namespace : {q \in entries' : q[1] = b /\ q[2] = n} # {}}
  <2>1. namespaces[b] = {n \in Namespace : {q \in entries : q[1] = b /\ q[2] = n} # {}}
    BY <1>1, ZenonT(60) DEF StateCounted, EntriesOf
  <2>2. CASE b = a
    <3>1. namespaces'[b] = IF EntriesOf(a, p[2]) = {p} THEN namespaces[b] \ {p[2]} ELSE namespaces[b]
      BY <1>2, <1>3, <2>2, Zenon
    <3>2. \A n \in Namespace : {q \in entries' : q[1] = b /\ q[2] = n} = EntriesOf(a, n) \ {p}
      BY <1>2, <2>2, Zenon DEF EntriesOf
    <3>3. \A n \in Namespace : {q \in entries : q[1] = b /\ q[2] = n} = EntriesOf(a, n)
      BY <2>2, Zenon DEF EntriesOf
    <3>4. \A n \in Namespace : p \in EntriesOf(a, n) <=> n = p[2]
      BY <1>2, Zenon DEF EntriesOf, a
    <3>5. \A n \in Namespace : EntriesOf(a, n) \ {p} # {}
                                   <=> EntriesOf(a, n) # {} /\ ~(n = p[2] /\ EntriesOf(a, n) = {p})
      BY <3>4, Zenon
    <3>6. \A n \in Namespace : {q \in entries' : q[1] = b /\ q[2] = n} # {}
              <=> n \in namespaces[b] /\ ~(n = p[2] /\ EntriesOf(a, n) = {p})
      BY <2>1, <3>2, <3>3, <3>5, ZenonT(60)
    <3>7. namespaces[b] \in SUBSET Namespace
      BY <2>1, Zenon
    <3>8. CASE EntriesOf(a, p[2]) = {p}
      BY <3>1, <3>6, <3>7, <3>8, Zenon
    <3>9. CASE EntriesOf(a, p[2]) # {p}
      BY <3>1, <3>6, <3>7, <3>9, Zenon
    <3> QED
      BY <3>8, <3>9, Zenon
  <2>3. CASE b # a
    <3>1. namespaces'[b] = namespaces[b]
      BY <1>2, <1>3, <2>3, Zenon
    <3>2. \A n : {q \in entries' : q[1] = b /\ q[2] = n} = {q \in entries : q[1] = b /\ q[2] = n}
      BY <1>2, <2>3, Zenon DEF a
    <3> QED
      BY <2>1, <3>1, <3>2, Zenon
  <2> QED
    BY <2>2, <2>3, Zenon
<1>11. StateCounted'
  BY <1>9, <1>10, Zenon DEF StateCounted, EntriesOf
<1>12. stateCount[a] >= 1
  BY <1>5, <1>6, <1>7
<1>13. ASSUME NEW b \in Account
       PROVE  Covers(ownerCount'[b], HookReserve(hooks[b]) + stateCount'[b], b)
  <2>1. /\ HookReserve(hooks[b]) \in Nat /\ Unbilled(b) \in Nat
        /\ Covers(ownerCount[b], HookReserve(hooks[b]) + stateCount[b], b)
    BY <1>1, BilledFinite, UnbilledTyped, Zenon DEF OwnerCountBilled, Bill, Covers, TypeOK
  <2>2. \/ ownerCount'[b] = ownerCount[b] /\ stateCount'[b] = stateCount[b]
        \/ /\ ownerCount'[b] = Confined(ownerCount[b] - 1) /\ stateCount'[b] = stateCount[b] - 1
           /\ stateCount[b] >= 1
    BY <1>2, <1>3, <1>12, Zenon
  <2>3. ownerCount[b] \in Nat /\ stateCount[b] \in Nat
    BY <1>3, Zenon
  <2> DEFINE r == HookReserve(hooks[b])
             u == Unbilled(b)
  <2> HIDE DEF r, u
  <2>4. /\ r \in Nat /\ u \in Nat
        /\ ownerCount[b] <= r + stateCount[b] /\ (r + stateCount[b]) - ownerCount[b] <= u
    BY <2>1, Zenon DEF r, u, Covers
  <2>5. ownerCount'[b] <= r + stateCount'[b] /\ (r + stateCount'[b]) - ownerCount'[b] <= u
    BY <2>2, <2>3, <2>4 DEF Confined
  <2> QED
    BY <2>5, Zenon DEF r, u, Covers
<1>14. OwnerCountBilled'
  BY <1>2, <1>13, Zenon DEF OwnerCountBilled, Bill, Covers, HookReserve, Billed, Listed
<1>15. entries' \in SUBSET Place /\ namespaces' \in [Account -> SUBSET Namespace]
  BY <1>2, <1>3, Zenon
<1>16. stateCount' \in [Account -> Nat] /\ ownerCount' \in [Account -> Nat]
  <2>1. stateCount[a] - 1 \in Nat /\ Confined(ownerCount[a] - 1) \in Nat
    BY <1>3, <1>12 DEF Confined
  <2> QED
    BY <1>2, <1>3, <2>1, Zenon
<1>17. TypeOK'
  BY <1>1, <1>2, <1>15, <1>16, Zenon DEF TypeOK
<1> QED
  BY <1>2, <1>11, <1>14, <1>17, HooksUnchanged, Zenon DEF IInv

-----------------------------------------------------------------------------

\* The invariant holds in the first ledger.
LEMMA InitInvariant == Init => IInv
<1> SUFFICES ASSUME Init PROVE IInv
  BY Zenon
<1> DEFINE code == {h \in Hash : \E i \in 1 .. Len(GenesisCode) : GenesisCode[i] = h}
<1>1. /\ defs = [h \in Hash |-> IF h \in code THEN GenesisDefinition(h) ELSE Absent]
      /\ hooks = [a \in Account |-> GenesisArray(a)] /\ entries = {}
      /\ stateCount = [a \in Account |-> 0] /\ ownerCount = [a \in Account |-> Len(GenesisArray(a))]
      /\ namespaces = [a \in Account |-> {}] /\ tx = NoTx
  BY Zenon DEF Init
<1>2. /\ IsFiniteSet(Tables) /\ Cardinality(Tables) \in Nat
      /\ GenesisAccount \in Account /\ Tables \subseteq Account \ {GenesisAccount}
      /\ Absent \notin Hash /\ Absent \notin Definition /\ ZeroNamespace \in Namespace
      /\ GenesisCode \in Seq(Hash) /\ MaxHooks \in Nat /\ Len(GenesisCode) <= MaxHooks
      /\ \A i, j \in 1 .. Len(GenesisCode) : GenesisCode[i] = GenesisCode[j] => i = j
  <2>1. IsFiniteSet(Account) /\ Tables \subseteq Account
    BY SetHookAssumption, Zenon
  <2>2. IsFiniteSet(Tables) /\ Cardinality(Tables) \in Nat
    BY <2>1, FS_Subset, FS_CardinalityType, Zenon
  <2> QED BY <2>2, SetHookAssumption, Zenon
<1>3. \A h \in Hash : GenesisDefinition(h) \in Definition /\ GenesisDefinition(h).rc > 0
  <2>1. NoParams \in Params
    BY Zenon DEF NoParams, Params
  <2> DEFINE rc(h) == (IF h = GenesisCode[1] THEN Cardinality(Tables) ELSE 0) + 1
  <2>2. \A h \in Hash : rc(h) \in Nat /\ rc(h) > 0
    BY <1>2
  <2> HIDE DEF rc
  <2>3. \A h : GenesisDefinition(h) = [rc |-> rc(h), ns |-> ZeroNamespace, canEmit |-> Absent,
                                       flags |-> {}, params |-> NoParams]
    BY Zenon DEF GenesisDefinition, rc
  <2> QED BY <1>2, <2>1, <2>2, <2>3, Zenon DEF Definition, Optional
<1>4. TypeOK
  <2>1. \A a \in Account : GenesisArray(a) \in Seq(Optional(Hook)) /\ Len(GenesisArray(a)) \in Nat
    BY GenesisTyped
  <2>2. defs \in [Hash -> Optional(Definition)]
    BY <1>1, <1>3, Zenon DEF Optional
  <2> QED BY <1>1, <2>1, <2>2, Zenon DEF TypeOK
<1>5. LengthInv /\ LoopInv
  BY <1>1, GenesisTyped, Zenon DEF LengthInv, LoopInv, Running
<1>6. \A s \in Slots : s \in Account \X (1 .. MaxHooks) /\ HashAt(hooks[s[1]], s[2]) =
          IF s[1] = GenesisAccount /\ s[2] <= Len(GenesisCode) THEN GenesisCode[s[2]]
          ELSE IF s[1] \in Tables /\ s[2] = 1 THEN GenesisCode[1] ELSE Absent
  <2>1. \A s \in Slots : s[1] \in Account /\ s[2] \in 1 .. MaxHooks
    BY Zenon DEF Slots
  <2>2. \A a \in Account : hooks[a] = GenesisArray(a)
    BY <1>1, Zenon
  <2>3. ASSUME NEW a \in Account, NEW i \in 1 .. MaxHooks
        PROVE  HashAt(hooks[a], i) = IF a = GenesisAccount /\ i <= Len(GenesisCode) THEN GenesisCode[i]
                                     ELSE IF a \in Tables /\ i = 1 THEN GenesisCode[1] ELSE Absent
    <3>1. hooks[a] = GenesisArray(a)
      BY <2>2, Zenon
    <3>2. HashAt(GenesisArray(a), i) =
             IF a = GenesisAccount /\ i <= Len(GenesisCode) THEN GenesisCode[i]
             ELSE IF a \in Tables /\ i = 1 THEN GenesisCode[1] ELSE Absent
      BY GenesisTyped, Zenon
    <3> QED BY <3>1, <3>2, Zenon
  <2> QED BY <2>1, <2>3, Zenon DEF Slots
<1>7. ASSUME NEW h \in Hash, h \notin code PROVE Users(h) = {}
  <2>1. \A i \in 1 .. Len(GenesisCode) : GenesisCode[i] # h
    BY <1>7, Zenon
  <2>2. Tables # {} => 1 \in 1 .. Len(GenesisCode)
    <3>1. Tables # {} => GenesisCode # <<>>
      BY SetHookAssumption, Zenon
    <3> QED BY <1>2, <3>1
  <2>3. \A i \in 1 .. MaxHooks : i <= Len(GenesisCode) => i \in 1 .. Len(GenesisCode)
    BY <1>2
  <2> QED BY <1>2, <1>6, <2>1, <2>2, <2>3, Zenon DEF Users
<1>8. ASSUME NEW h \in code PROVE GenesisDefinition(h).rc = Cardinality(Users(h))
  <2>1. PICK i \in 1 .. Len(GenesisCode) : GenesisCode[i] = h
    BY <1>8, Zenon
  <2>2. /\ 1 \in 1 .. Len(GenesisCode) /\ i \in 1 .. MaxHooks /\ 1 \in 1 .. MaxHooks /\ h # Absent
        /\ \A j \in 1 .. MaxHooks : j <= Len(GenesisCode) <=> j \in 1 .. Len(GenesisCode)
    BY <1>2, <2>1
  <2>3. CASE i = 1
    <3> DEFINE all == Tables \cup {GenesisAccount}
    <3>1. ASSUME NEW s \in Slots PROVE HashAt(hooks[s[1]], s[2]) = h <=> s[1] \in all /\ s[2] = 1
      BY <1>2, <1>6, <2>1, <2>2, <2>3, <3>1, ZenonT(60) DEF Slots
    <3>2. Users(h) = all \X {1}
      <4>1. \A s \in Slots : s \in Users(h) <=> s[1] \in all /\ s[2] = 1
        BY <3>1, Zenon DEF Users
      <4>2. all \X {1} \subseteq Account \X (1 .. MaxHooks)
        BY <1>2, <2>2, Zenon
      <4> HIDE DEF all
      <4>3. \A s \in Account \X (1 .. MaxHooks) : s \in Users(h) <=> s \in all \X {1}
        BY <4>1 DEF Slots
      <4>4. Users(h) \subseteq Account \X (1 .. MaxHooks)
        BY Zenon DEF Users, Slots
      <4> QED BY <4>2, <4>3, <4>4, Zenon
    <3>3. GenesisAccount \notin Tables
      BY <1>2, Zenon
    <3>4. IsFiniteSet(all) /\ Cardinality(all) = Cardinality(Tables) + 1
      BY <1>2, <3>3, FS_AddElement, Zenon
    <3>5. IsFiniteSet({1}) /\ Cardinality({1}) = 1
      BY FS_Singleton, Zenon
    <3>6. Cardinality(all \X {1}) = Cardinality(all) * Cardinality({1})
      BY <3>4, <3>5, FS_Product, Zenon
    <3> HIDE DEF all
    <3>7. Cardinality(all \X {1}) = Cardinality(Tables) + 1
      BY <1>2, <3>4, <3>5, <3>6
    <3> QED BY <2>1, <2>3, <3>2, <3>7, Zenon DEF GenesisDefinition
  <2>4. CASE i # 1
    <3>1. h # GenesisCode[1]
      BY <1>2, <2>1, <2>2, <2>4, Zenon
    <3>2. ASSUME NEW s \in Slots PROVE HashAt(hooks[s[1]], s[2]) = h <=> s[1] = GenesisAccount /\ s[2] = i
      BY <1>2, <1>6, <2>1, <2>2, <3>1, <3>2, ZenonT(60) DEF Slots
    <3>3. Users(h) = {<<GenesisAccount, i>>}
      <4>1. \A s \in Slots : s \in Users(h) <=> s[1] = GenesisAccount /\ s[2] = i
        BY <3>2, Zenon DEF Users
      <4>2. <<GenesisAccount, i>> \in Account \X (1 .. MaxHooks)
        BY <1>2, <2>2, Zenon
      <4>3. \A s \in Account \X (1 .. MaxHooks) : s \in Users(h) <=> s = <<GenesisAccount, i>>
        BY <4>1 DEF Slots
      <4>4. Users(h) \subseteq Account \X (1 .. MaxHooks)
        BY Zenon DEF Users, Slots
      <4> QED BY <4>2, <4>3, <4>4, Zenon
    <3>4. Cardinality({<<GenesisAccount, i>>}) = 1
      BY FS_Singleton, Zenon
    <3>5. GenesisDefinition(h).rc = 0 + 1
      BY <3>1, Zenon DEF GenesisDefinition
    <3> QED BY <3>3, <3>4, <3>5
  <2> QED BY <2>3, <2>4, Zenon
<1>9. ReferencesExact
  <2>1. \A h \in Hash : defs[h] = IF h \in code THEN GenesisDefinition(h) ELSE Absent
    BY <1>1, Zenon
  <2>2. \A h \in Hash : GenesisDefinition(h) # Absent
    BY <1>2, <1>3, Zenon
  <2> HIDE DEF code
  <2> QED BY <1>3, <1>7, <1>8, <2>1, <2>2, Zenon DEF ReferencesExact
<1>10. StateCounted
  <2>1. \A a, n : {p \in entries : p[1] = a} = {} /\ EntriesOf(a, n) = {}
    BY <1>1, Zenon DEF EntriesOf
  <2> QED
    BY <1>1, <2>1, FS_EmptySet, Zenon DEF StateCounted
<1>11. OwnerCountBilled
  <2> SUFFICES ASSUME NEW a \in Account
               PROVE  ownerCount[a] <= Bill(a) /\ Bill(a) - ownerCount[a] <= Unbilled(a)
    BY Zenon DEF OwnerCountBilled
  <2> DEFINE n == Len(GenesisArray(a))
             b == HookReserve(GenesisArray(a))
  <2>1. Bill(a) = b + 0 /\ ownerCount[a] = n /\ Unbilled(a) = b - n
    BY <1>1, Zenon DEF Bill, Unbilled
  <2>2. GenesisArray(a) \in Seq(Optional(Hook)) /\ b \in Nat /\ Unbilled(a) \in Nat
    BY GenesisTyped, BilledFinite, UnbilledTyped, Zenon
  <2>3. n \in Nat
    BY <2>2
  <2> HIDE DEF n, b
  <2> QED BY <2>1, <2>2, <2>3
<1> QED
  BY <1>4, <1>5, <1>9, <1>10, <1>11, Zenon DEF IInv

\* Every step keeps the invariant.
LEMMA NextInvariant == IInv /\ [Next]_vars => IInv'
<1> SUFFICES ASSUME IInv, [Next]_vars PROVE IInv'
  BY Zenon
<1>1. ASSUME NEW a \in Account, Begin(a) PROVE IInv'
  BY <1>1, BeginPreserves, LedgerUnchanged, Zenon
<1>2. ASSUME Running, NEW e \in Menu[tx.account] \cup {BlankEntry}, SetHookObject(e) PROVE IInv'
  <2>1. TypeOK /\ LoopInv
    BY Zenon DEF IInv
  <2> QED
    BY <1>2, <2>1, LoopPreserves, LedgerUnchanged, Zenon
<1>3. ASSUME NEW affordable \in Affordable, Refuse(affordable) PROVE IInv'
  <2>1. TypeOK /\ Running /\ Abort("tecINSUFFICIENT_RESERVE")
    BY <1>3, Zenon DEF Refuse, LoopDone, IInv
  <2> QED
    BY <2>1, AbortPreserves, LedgerUnchanged, Zenon
<1>4. ASSUME NEW affordable \in Affordable, NEW gone \in SUBSET entries, Commit(affordable, gone)
      PROVE  IInv'
  BY <1>4, CommitPreserves, Zenon
<1>5. ASSUME Close PROVE IInv'
  <2>1. tx' = NoTx /\ UNCHANGED ledger
    BY <1>5, Zenon DEF Close
  <2>2. TypeOK' /\ LoopInv'
    BY <2>1, Zenon DEF IInv, TypeOK, LoopInv, Running, ledger, state
  <2> QED
    BY <2>1, <2>2, LedgerUnchanged, Zenon
<1>6. ASSUME NEW p \in Place, NEW affordable \in Affordable, SetHookState(p, affordable) PROVE IInv'
  BY <1>6, SetHookStatePreserves, Zenon
<1>7. ASSUME NEW p \in Place, RemoveHookState(p) PROVE IInv'
  BY <1>7, RemoveHookStatePreserves, Zenon
<1>8. ASSUME UNCHANGED vars PROVE IInv'
  <2>1. tx' = tx /\ UNCHANGED ledger
    BY <1>8, Zenon DEF vars
  <2>2. hooks' = hooks /\ defs' = defs
    BY <2>1, Zenon DEF ledger
  <2>3. TypeOK'
    BY <2>1, Zenon DEF IInv, TypeOK, ledger, state
  <2>4. LoopInv'
    BY <2>1, <2>2, ZenonT(60) DEF IInv, LoopInv, Running, Counts, Working, WorkHash, HashAt, Slots
  <2> QED
    BY <2>1, <2>3, <2>4, LedgerUnchanged, Zenon
<1>9. ASSUME Underflow PROVE IInv'
  <2>1. TypeOK /\ Running /\ Abort("tefINTERNAL")
    BY <1>9, Zenon DEF Underflow, LoopDone, IInv
  <2> QED
    BY <2>1, AbortPreserves, LedgerUnchanged, Zenon
<1> QED
  BY <1>1, <1>2, <1>3, <1>4, <1>5, <1>6, <1>7, <1>8, <1>9, Zenon DEF Next

\* The invariant holds in every reachable state.
LEMMA Invariance == Spec => []IInv
BY InitInvariant, NextInvariant, PTL DEF Spec

\* Every hook of every account has its definition, and a definition counts
\* exactly the positions that hold it, whatever a transaction replaces,
\* deletes and installs in one array (SetHook::setHook).
THEOREM ReferencesExactTheorem == Spec => []ReferencesExact
<1>1. IInv => ReferencesExact
  BY Zenon DEF IInv
<1> QED
  BY <1>1, Invariance, PTL

\* An account is billed for exactly its hooks, their parameters and grants,
\* and its state entries; one with genesis hooks for no more than that, and
\* for no less than that without the parameters these were installed with
\* (SetHook::setHook, destroyNamespace, activateXahauGenesis).
THEOREM OwnerCountAlwaysBilled == Spec => []OwnerCountBilled
<1>1. IInv => OwnerCountBilled
  BY Zenon DEF IInv
<1> QED
  BY <1>1, Invariance, PTL

\* The account root counts its state entries and lists exactly the
\* namespaces that hold one (setHookState, destroyNamespace).
THEOREM StateCountedTheorem == Spec => []StateCounted
<1>1. IInv => StateCounted
  BY Zenon DEF IInv
<1> QED
  BY <1>1, Invariance, PTL

\* The variables keep their types, the counts stay natural (SetHook.cpp).
THEOREM TypeCorrect == Spec => []TypeOK
<1>1. IInv => TypeOK
  BY Zenon DEF IInv
<1> QED
  BY <1>1, Invariance, PTL
-----------------------------------------------------------------------------
(* The merge of fields.                                                    *)

\* What MergeFaithful says of one hook h that object e has made of prev.
Faithful(e, h, prev, def) ==
    LET old == IF InferOperation(e) = "UPDATE" THEN prev
               ELSE [ns |-> Absent, params |-> NoParams, grants |-> {}]
    IN  /\ NamespaceOf(h, def) = IF e.ns # Absent THEN e.ns ELSE NamespaceOf(old, def)
        /\ h.grants = GrantsOf(e, old.grants)
        /\ \A p \in ParamName : ReadParam(h, def, p) = AskedParam(e, def, p, ReadParam(old, def, p))

\* And that its definition is in the view ds.
Shown(e, h, prev, ds) ==
    InferOperation(e) \in {"CREATE", "INSTALL", "UPDATE"} =>
        h.hash \in Hash /\ ds[h.hash] # Absent /\ Faithful(e, h, prev, ds[h.hash])

MergeInv ==
    tx # NoTx /\ tx.result \notin {"tesSUCCESS", "tesPARTIAL"} =>
        /\ Len(tx.asked) = Len(tx.new)
        /\ \A i \in 1 .. Len(tx.new) : Shown(tx.asked[i], tx.new[i], hooks[tx.account][i], tx.defs)

\* The definitions of the view read the same in ds.
SameText(ds) ==
    \A k \in Hash : tx.defs[k] # Absent =>
        ds[k] # Absent /\ ds[k].ns = tx.defs[k].ns /\ ds[k].params = tx.defs[k].params

\* What is read of a parameter whose stored value is v and whose default is d.
ReadValue(v, d) ==
    LET w == IF v # Absent THEN v ELSE d IN IF w = Blank THEN Absent ELSE w

\* What a given value asks for, given the default and what was read before.
AskedValue(g, d, before) ==
    IF g = Absent THEN before
    ELSE IF g = NoValue THEN ReadValue(Absent, d)
    ELSE IF g = Blank THEN Absent ELSE g

\* What updateHookParameters stores of the value v.
StoredValue(v, d) == IF v \in {NoValue, d} \/ (v = Blank /\ d = Absent) THEN Absent ELSE v

\* The special values differ.
LEMMA ValuesDiffer ==
    /\ Absent # Blank /\ Absent # NoValue /\ NoValue # Blank
    /\ Absent \notin ParamValue /\ Blank \notin ParamValue /\ NoValue \notin ParamValue
BY SetHookAssumption, Zenon

\* Storing only what differs from the default does not change what is read.
LEMMA ValueMerge ==
    ASSUME NEW d \in ParamValue \cup {Blank, Absent}, NEW o \in ParamValue \cup {Blank, Absent},
           NEW g \in ParamValue \cup {Blank, NoValue, Absent}
    PROVE  ReadValue(StoredValue(IF g # Absent THEN g ELSE o, d), d) = AskedValue(g, d, ReadValue(o, d))
<1>1. CASE g = Absent
  <2>1. o # NoValue
    BY ValuesDiffer, Zenon
  <2> QED
    BY <1>1, <2>1, ValuesDiffer, Zenon DEF ReadValue, StoredValue, AskedValue
<1>2. CASE g # Absent
  BY <1>2, ValuesDiffer, Zenon DEF ReadValue, StoredValue, AskedValue
<1> QED
  BY <1>1, <1>2, Zenon

\* updateHookParameters is faithful to what was given and to what was there.
LEMMA ParamsMerge ==
    ASSUME NEW def \in Definition, NEW old \in Params, NEW e \in Entry, NEW p \in ParamName
    PROVE  ReadValue(UpdateHookParameters(def, old, e.params)[p], def.params[p]) =
               AskedValue(IF e.params = Absent THEN Absent ELSE e.params[p], def.params[p],
                          ReadValue(old[p], def.params[p]))
<1> DEFINE g == IF e.params = Absent THEN Absent ELSE e.params[p]
           d == def.params[p]
           o == old[p]
<1>1. d \in ParamValue \cup {Blank, Absent} /\ o \in ParamValue \cup {Blank, Absent}
  BY Zenon DEF Definition, Params
<1>2. g \in ParamValue \cup {Blank, NoValue, Absent}
  BY Zenon DEF Entry, Optional
<1>3. UpdateHookParameters(def, old, e.params)[p] = StoredValue(IF g # Absent THEN g ELSE o, d)
  BY Zenon DEF UpdateHookParameters, StoredValue
<1> HIDE DEF g, d, o
<1>4. ReadValue(StoredValue(IF g # Absent THEN g ELSE o, d), d) = AskedValue(g, d, ReadValue(o, d))
  BY <1>1, <1>2, ValueMerge, Zenon
<1> QED
  BY <1>3, <1>4, Zenon DEF g, d, o

\* Faithful in terms of single values.
LEMMA FaithfulValues ==
    ASSUME NEW e, NEW h, NEW def, NEW p \in ParamName, NEW v
    PROVE  /\ ReadParam(h, def, p) = ReadValue(h.params[p], def.params[p])
           /\ ~(e.params = NoParams /\ InferOperation(e) = "UPDATE") =>
                  AskedParam(e, def, p, v) =
                      AskedValue(IF e.params = Absent THEN Absent ELSE e.params[p], def.params[p], v)
<1>1. NoParams[p] = Absent
  BY Zenon DEF NoParams
<1>2. \A k : ReadParam(k, def, p) = ReadValue(k.params[p], def.params[p])
  BY Zenon DEF ReadParam, ReadValue
<1>3. ReadParam([params |-> NoParams], def, p) = ReadValue(Absent, def.params[p])
  BY <1>1, Zenon DEF ReadParam, ReadValue
<1>4. ASSUME ~(e.params = NoParams /\ InferOperation(e) = "UPDATE")
      PROVE  AskedParam(e, def, p, v) =
                 AskedValue(IF e.params = Absent THEN Absent ELSE e.params[p], def.params[p], v)
  BY <1>3, <1>4, Zenon DEF AskedParam, AskedValue
<1> QED
  BY <1>2, <1>4, Zenon

\* Releasing the old hook's definition leaves its text.
LEMMA ReleasedText ==
    ASSUME TypeOK, LoopInv, Running, Position <= MaxHooks
    PROVE  SameText(tx.defs) /\ SameText(Released)
<1>1. SameText(tx.defs)
  BY Zenon DEF SameText
<1>2. CASE OldHook = Absent
  BY <1>1, <1>2, Zenon DEF Released
<1>3. CASE OldHook # Absent
  <2> DEFINE k == OldHook.hash
             d == tx.defs[k]
  <2>1. k \in Hash /\ d \in Definition
    BY <1>3, OldDefTyped, Zenon
  <2>2. tx.defs \in [Hash -> Optional(Definition)]
    BY TxTyped, Zenon
  <2>3. Released = [tx.defs EXCEPT ![k] = [d EXCEPT !.rc = IF d.rc > 0 THEN d.rc - 1 ELSE d.rc]]
    BY <1>3, <2>1, <2>2, Zenon DEF Released, ReduceReferenceCount
  <2> DEFINE f == [d EXCEPT !.rc = IF d.rc > 0 THEN d.rc - 1 ELSE d.rc]
  <2>4. f \in Definition /\ f.ns = d.ns /\ f.params = d.params
    BY <2>1 DEF Definition
  <2>5. f # Absent
    BY <2>4, SetHookAssumption, Zenon
  <2> HIDE DEF f
  <2>6. Released[k] = f /\ \A j \in Hash \ {k} : Released[j] = tx.defs[j]
    BY <2>1, <2>2, <2>3, Zenon DEF f
  <2> QED
    BY <1>1, <2>1, <2>4, <2>5, <2>6, Zenon DEF SameText
<1> QED
  BY <1>1, <1>2, <1>3, Zenon

\* What one iteration of the loop does to the view.
Iteration(e) ==
    \/ \E r \in {"tecNO_ENTRY", "tecINTERNAL", "tecREQUIRES_FLAG"} : Abort(r)
    \/ \E h, ds, doomed : /\ Push(e, h, ds, doomed)
                          /\ SameText(ds) /\ Shown(e, h, hooks[tx.account][Position], ds)

\* hsoUPDATE.
LEMMA UpdateFaithful ==
    ASSUME TypeOK, LoopInv, Running, Position <= MaxHooks, NEW e \in Entry, Update(e)
    PROVE  Iteration(e)
<1>1. CASE OldHook = Absent
  BY <1>1, Zenon DEF Update, Iteration
<1>2. CASE OldHook # Absent
  <2> DEFINE params == IF e.params = NoParams THEN NoParams
                       ELSE UpdateHookParameters(OldDef, OldHook.params, e.params)
             h == [hash |-> OldHook.hash,
                   ns |-> IF e.ns = Absent THEN OldHook.ns ELSE Differing(e.ns, OldDef.ns),
                   canEmit |-> IF e.canEmit = Absent THEN OldHook.canEmit
                               ELSE Differing(e.canEmit, OldDef.canEmit),
                   flags |-> e.flags,
                   params |-> params,
                   grants |-> GrantsOf(e, OldHook.grants)]
             def == tx.defs[OldHook.hash]
  <2>1. /\ OldHook \in Hook /\ OldHook.hash \in Hash /\ OldDef = def /\ def # Absent
        /\ def \in Definition
    BY <1>2, OldDefTyped, Zenon
  <2>2. OldHook = hooks[tx.account][Position]
    BY <1>2, Zenon DEF OldHook
  <2>3. InferOperation(e) = "UPDATE"
    BY Zenon DEF Update
  <2>4. Abort("tecINTERNAL") \/ Push(e, h, tx.defs, {})
    BY <1>2, Zenon DEF Update
  <2>5. /\ h.hash = OldHook.hash /\ h.params = params /\ h.grants = GrantsOf(e, OldHook.grants)
        /\ h.ns = IF e.ns = Absent THEN OldHook.ns ELSE Differing(e.ns, OldDef.ns)
    BY Zenon
  <2>6. OldHook.params \in Params
    BY <2>1, Zenon DEF Hook
  <2> HIDE DEF h, def
  <2>7. NamespaceOf(h, def) = IF e.ns # Absent THEN e.ns ELSE NamespaceOf(OldHook, def)
    BY <2>1, <2>5, Zenon DEF NamespaceOf, Differing
  <2>8. ASSUME NEW p \in ParamName
        PROVE  ReadParam(h, def, p) = AskedParam(e, def, p, ReadParam(OldHook, def, p))
    <3>1. CASE e.params = NoParams
      <4>1. h.params = NoParams
        BY <2>5, <3>1, Zenon
      <4> QED
        BY <2>3, <3>1, <4>1, Zenon DEF AskedParam, ReadParam
    <3>2. CASE e.params # NoParams
      <4>1. h.params = UpdateHookParameters(def, OldHook.params, e.params)
        BY <2>1, <2>5, <3>2, Zenon
      <4>2. ReadValue(h.params[p], def.params[p]) =
                AskedValue(IF e.params = Absent THEN Absent ELSE e.params[p], def.params[p],
                           ReadValue(OldHook.params[p], def.params[p]))
        BY <2>1, <2>6, <4>1, ParamsMerge, Zenon
      <4> DEFINE v == ReadParam(OldHook, def, p)
      <4>3. /\ ReadParam(h, def, p) = ReadValue(h.params[p], def.params[p])
            /\ v = ReadValue(OldHook.params[p], def.params[p])
        BY FaithfulValues, Zenon
      <4> HIDE DEF v
      <4>4. AskedParam(e, def, p, v) =
                AskedValue(IF e.params = Absent THEN Absent ELSE e.params[p], def.params[p], v)
        BY <3>2, FaithfulValues, Zenon
      <4>5. ReadParam(h, def, p) = AskedParam(e, def, p, v)
        BY <4>2, <4>3, <4>4, Zenon
      <4> QED
        BY <4>5, Zenon DEF v
    <3> QED
      BY <3>1, <3>2, Zenon
  <2>9. Faithful(e, h, OldHook, def)
    BY <2>3, <2>5, <2>7, <2>8, Zenon DEF Faithful
  <2>10. Shown(e, h, OldHook, tx.defs)
    BY <2>1, <2>5, <2>9, Zenon DEF Shown, def
  <2>11. SameText(tx.defs)
    BY ReleasedText, Zenon
  <2> QED
    BY <2>2, <2>4, <2>10, <2>11, Zenon DEF Iteration
<1> QED
  BY <1>1, <1>2, Zenon

\* hsoCREATE of code that no definition has.
LEMMA CreateFaithful ==
    ASSUME TypeOK, LoopInv, Running, Position <= MaxHooks, NEW e \in Entry, Admitted(e), Create(e)
    PROVE  Iteration(e)
<1> DEFINE def == [rc |-> 1, ns |-> e.ns, canEmit |-> e.canEmit, flags |-> LedgerFlags(e),
                   params |-> IF e.params = Absent THEN NoParams
                              ELSE [p \in ParamName |-> Default(e.params[p])]]
           h == [hash |-> e.code, ns |-> Absent, canEmit |-> Absent, flags |-> Absent,
                 params |-> NoParams, grants |-> GrantsOf(e, {})]
           ds == [Released EXCEPT ![e.code] = def]
           prev == hooks[tx.account][Position]
<1>1. /\ e.code \in Hash /\ e.ns # Absent /\ e.ns \in Namespace /\ tx.defs[e.code] = Absent
      /\ InferOperation(e) = "CREATE"
  <2>1. e.code # Absent /\ e.code # Blank /\ e.ns # Absent /\ tx.defs[e.code] = Absent
    BY Zenon DEF Create, InferOperation, Admitted, ValidateHookSetEntry
  <2> QED
    BY <2>1, Zenon DEF Entry, Optional, Create
<1>2. e.params = Absent \/ e.params \in [ParamName -> ParamValue \cup {Blank, NoValue, Absent}]
  BY Zenon DEF Entry, Optional
<1>3. def # Absent
  <2>1. (IF e.params = Absent THEN NoParams ELSE [p \in ParamName |-> Default(e.params[p])]) \in Params
    BY <1>2, Zenon DEF Params, NoParams, Default
  <2>2. e.canEmit \in Optional(Mask) /\ LedgerFlags(e) \in SUBSET Flag
    BY FlagsTyped, ZenonT(60) DEF Entry
  <2>3. def \in Definition
    BY <1>1, <2>1, <2>2, Zenon DEF Definition
  <2> QED
    BY <2>3, SetHookAssumption, Zenon
<1>4. /\ h.hash = e.code /\ h.ns = Absent /\ h.params = NoParams /\ h.grants = GrantsOf(e, {})
      /\ def.ns = e.ns
      /\ def.params = IF e.params = Absent THEN NoParams ELSE [p \in ParamName |-> Default(e.params[p])]
  BY Zenon
<1>5. Abort("tecREQUIRES_FLAG") \/ Push(e, h, ds, Doomed)
  BY Zenon DEF Create
<1> HIDE DEF h, def, prev
<1>6. Released \in [Hash -> Optional(Definition)]
  BY ReleasedCounted, Zenon
<1>7. ds[e.code] = def /\ \A k \in Hash \ {e.code} : ds[k] = Released[k]
  BY <1>1, <1>6, Zenon
<1> HIDE DEF ds
<1>8. SameText(ds)
  <2>1. SameText(Released)
    BY ReleasedText, Zenon
  <2> QED
    BY <1>1, <1>7, <2>1, Zenon DEF SameText
<1>9. ASSUME NEW p \in ParamName
      PROVE  ReadParam(h, def, p) =
                 AskedParam(e, def, p, ReadParam([ns |-> Absent, params |-> NoParams, grants |-> {}], def, p))
  <2> DEFINE d == def.params[p]
             g == IF e.params = Absent THEN Absent ELSE e.params[p]
  <2>1. NoParams[p] = Absent
    BY Zenon DEF NoParams
  <2>2. d = Default(g)
    BY <1>4, <2>1, ValuesDiffer, Zenon DEF Default
  <2>3. /\ ReadParam(h, def, p) = ReadValue(Absent, d)
        /\ ReadParam([ns |-> Absent, params |-> NoParams, grants |-> {}], def, p) = ReadValue(Absent, d)
    BY <1>4, <2>1, Zenon DEF ReadParam, ReadValue
  <2>4. AskedParam(e, def, p, ReadValue(Absent, d)) = AskedValue(g, d, ReadValue(Absent, d))
    BY <1>1, FaithfulValues, Zenon
  <2>5. g \in ParamValue \cup {Blank, NoValue, Absent}
    BY <1>2, Zenon
  <2> HIDE DEF d, g
  <2>6. ReadValue(Absent, d) = AskedValue(g, d, ReadValue(Absent, d))
    BY <2>2, <2>5, ValuesDiffer, Zenon DEF ReadValue, AskedValue, Default
  <2> QED
    BY <2>3, <2>4, <2>6, Zenon
<1>10. NamespaceOf(h, def) = e.ns
  BY <1>4, Zenon DEF NamespaceOf
<1>11. Faithful(e, h, prev, def)
  BY <1>1, <1>4, <1>9, <1>10, Zenon DEF Faithful
<1>12. Shown(e, h, prev, ds)
  BY <1>1, <1>3, <1>4, <1>7, <1>11, Zenon DEF Shown
<1> QED
  BY <1>5, <1>8, <1>12, Zenon DEF Iteration, prev

\* hsoINSTALL, and hsoCREATE of code that has a definition.
LEMMA InstallFaithful ==
    ASSUME TypeOK, LoopInv, Running, Position <= MaxHooks, NEW e \in Entry, Admitted(e), Install(e)
    PROVE  Iteration(e)
<1> DEFINE T == Target(e)
           def == tx.defs[T]
           h == [hash |-> T,
                 ns |-> IF e.ns = Absent THEN Absent ELSE Differing(e.ns, def.ns),
                 canEmit |-> IF e.canEmit = Absent THEN Absent
                             ELSE Differing(e.canEmit, DefHookCanEmit(def)),
                 flags |-> IF e.flags = Absent THEN Absent ELSE LedgerFlags(e),
                 params |-> UpdateHookParameters(def, NoParams, e.params),
                 grants |-> GrantsOf(e, {})]
           ds == IncrementReferenceCount(Released, T)
           prev == hooks[tx.account][Position]
           none == [ns |-> Absent, params |-> NoParams, grants |-> {}]
<1>1. T \in Hash /\ def # Absent /\ InferOperation(e) \in {"INSTALL", "CREATE"}
  <2>1. CASE e.hash # Absent
    BY <2>1, Zenon DEF Target, Admitted, LoopInv, Entry, Optional, Install
  <2>2. CASE e.hash = Absent
    <3>1. e.code # Absent /\ e.code # Blank /\ tx.defs[e.code] # Absent
      BY <2>2, ZenonT(60) DEF Install, InferOperation
    <3> QED
      BY <2>2, <3>1, Zenon DEF Target, Entry, Optional, Install
  <2> QED
    BY <2>1, <2>2, Zenon
<1>2. def \in Definition
  BY <1>1, TxTyped, Zenon DEF Optional
<1>3. /\ h.hash = T /\ h.params = UpdateHookParameters(def, NoParams, e.params)
      /\ h.grants = GrantsOf(e, {})
      /\ h.ns = IF e.ns = Absent THEN Absent ELSE Differing(e.ns, def.ns)
  BY Zenon
<1>4. \/ Abort("tecREQUIRES_FLAG") \/ Abort("tecINTERNAL")
      \/ Push(e, h, ds, Doomed)
  BY Zenon DEF Install
<1> HIDE DEF T, def, h, prev
<1>5. Released \in [Hash -> Optional(Definition)]
  BY ReleasedCounted, Zenon
<1>6. SameText(Released)
  BY ReleasedText, Zenon
<1>7. /\ Released[T] # Absent /\ Released[T] \in Definition
      /\ Released[T].ns = def.ns /\ Released[T].params = def.params
  BY <1>1, <1>5, <1>6, Zenon DEF SameText, Optional, def
<1> DEFINE f == [Released[T] EXCEPT !.rc = Released[T].rc + 1]
<1>8. f \in Definition /\ f.ns = def.ns /\ f.params = def.params
  BY <1>7 DEF Definition
<1>9. f # Absent
  BY <1>8, SetHookAssumption, Zenon
<1>10. ds = [Released EXCEPT ![T] = f]
  BY <1>1, <1>5, <1>7, Zenon DEF IncrementReferenceCount
<1> HIDE DEF f, ds
<1>11. ds[T] = f /\ \A k \in Hash \ {T} : ds[k] = Released[k]
  BY <1>1, <1>5, <1>10, Zenon
<1>12. SameText(ds)
  BY <1>1, <1>6, <1>8, <1>9, <1>11, Zenon DEF SameText, def
<1>13. ASSUME NEW p \in ParamName
       PROVE  ReadParam(h, f, p) = AskedParam(e, f, p, ReadParam(none, f, p))
  <2>1. NoParams \in Params /\ none.params = NoParams
    BY Zenon DEF NoParams, Params
  <2> HIDE DEF none
  <2>2. ReadValue(h.params[p], def.params[p]) =
            AskedValue(IF e.params = Absent THEN Absent ELSE e.params[p], def.params[p],
                       ReadValue(NoParams[p], def.params[p]))
    BY <1>2, <1>3, <2>1, ParamsMerge
  <2> DEFINE v == ReadParam(none, f, p)
  <2>3. /\ ReadParam(h, f, p) = ReadValue(h.params[p], f.params[p])
        /\ v = ReadValue(none.params[p], f.params[p])
    BY FaithfulValues, Zenon
  <2> HIDE DEF v
  <2>4. AskedParam(e, f, p, v) =
            AskedValue(IF e.params = Absent THEN Absent ELSE e.params[p], f.params[p], v)
    BY <1>1, FaithfulValues, Zenon
  <2>5. ReadParam(h, f, p) = AskedParam(e, f, p, v)
    BY <1>8, <2>1, <2>2, <2>3, <2>4, Zenon
  <2> QED
    BY <2>5, Zenon DEF v
<1>14. NamespaceOf(h, f) = IF e.ns # Absent THEN e.ns ELSE NamespaceOf(none, f)
  BY <1>3, <1>8, Zenon DEF NamespaceOf, Differing
<1>15. Faithful(e, h, prev, f)
  BY <1>1, <1>3, <1>13, <1>14, Zenon DEF Faithful
<1>16. Shown(e, h, prev, ds)
  BY <1>1, <1>3, <1>9, <1>11, <1>15, Zenon DEF Shown
<1> QED
  BY <1>4, <1>12, <1>16, Zenon DEF Iteration, prev

\* Every iteration builds a faithful hook or ends the loop.
LEMMA IterationFaithful ==
    ASSUME TypeOK, LoopInv, Running, NEW e \in Menu[tx.account] \cup {BlankEntry}, SetHookObject(e)
    PROVE  Iteration(e)
<1>1. e \in Entry
  <2>1. Menu[tx.account] \in SUBSET Entry
    BY TxTyped, SetHookAssumption, Zenon
  <2> QED
    BY <2>1, BlankTyped, Zenon
<1>2. Position <= MaxHooks /\ Admitted(e)
      /\ (Keep(e) \/ Delete(e) \/ Update(e) \/ Create(e) \/ Install(e))
  BY Zenon DEF SetHookObject, Step
<1>3. SameText(tx.defs) /\ SameText(Released)
  BY <1>2, ReleasedText, Zenon
<1>4. CASE Keep(e)
  <2>1. Push(e, OldHook, tx.defs, {}) /\ Shown(e, OldHook, hooks[tx.account][Position], tx.defs)
    BY <1>4, Zenon DEF Keep, Shown
  <2> QED
    BY <1>3, <2>1, Zenon DEF Iteration
<1>5. CASE Delete(e)
  <2>1. Push(e, Absent, Released, Doomed) /\ Shown(e, Absent, hooks[tx.account][Position], Released)
    BY <1>5, Zenon DEF Delete, Shown
  <2> QED
    BY <1>3, <2>1, Zenon DEF Iteration
<1> QED
  BY <1>1, <1>2, <1>4, <1>5, UpdateFaithful, CreateFaithful, InstallFaithful, Zenon

\* A hook stays faithful while the texts of definitions stay.
LEMMA ShownKept ==
    ASSUME NEW e, NEW h, NEW prev, NEW ds, SameText(ds), Shown(e, h, prev, tx.defs)
    PROVE  Shown(e, h, prev, ds)
<1> SUFFICES ASSUME InferOperation(e) \in {"CREATE", "INSTALL", "UPDATE"}
             PROVE  h.hash \in Hash /\ ds[h.hash] # Absent /\ Faithful(e, h, prev, ds[h.hash])
  BY Zenon DEF Shown
<1> DEFINE c == tx.defs[h.hash]
           d == ds[h.hash]
<1>1. h.hash \in Hash /\ c # Absent /\ Faithful(e, h, prev, c)
  BY Zenon DEF Shown
<1>2. d # Absent /\ d.ns = c.ns /\ d.params = c.params
  BY <1>1, Zenon DEF SameText
<1> HIDE DEF c, d
<1>3. \A k : NamespaceOf(k, d) = NamespaceOf(k, c)
  BY <1>2, Zenon DEF NamespaceOf
<1>4. \A k, p : ReadParam(k, d, p) = ReadParam(k, c, p)
  BY <1>2 DEF ReadParam
<1>5. \A p, v : AskedParam(e, d, p, v) = AskedParam(e, c, p, v)
  BY <1>4, Zenon DEF AskedParam
<1>6. Faithful(e, h, prev, d)
  BY <1>1, <1>3, <1>4, <1>5 DEF Faithful
<1> QED
  BY <1>1, <1>2, <1>6, Zenon DEF d

\* An iteration that ends the loop leaves what was built.
LEMMA AbortMerge ==
    ASSUME TypeOK, MergeInv, Running,
           NEW r \in {"tecNO_ENTRY", "tecINTERNAL", "tecREQUIRES_FLAG",
                  "tecINSUFFICIENT_RESERVE", "tefINTERNAL"},
           Abort(r)
    PROVE  MergeInv'
<1>1. tx \in Transaction /\ tx' = [tx EXCEPT !.result = r] /\ hooks' = hooks
  BY TxTyped, Zenon DEF Abort, ledger
<1>2. /\ tx'.asked = tx.asked /\ tx'.new = tx.new /\ tx'.defs = tx.defs /\ tx'.account = tx.account
  BY <1>1, Zenon DEF Transaction
<1>3. tx # NoTx /\ tx.result \notin {"tesSUCCESS", "tesPARTIAL"}
  BY Zenon DEF Running
<1>4. /\ Len(tx.asked) = Len(tx.new)
      /\ \A i \in 1 .. Len(tx.new) : Shown(tx.asked[i], tx.new[i], hooks[tx.account][i], tx.defs)
  BY <1>3, Zenon DEF MergeInv
<1>5. /\ Len(tx'.asked) = Len(tx'.new)
      /\ \A i \in 1 .. Len(tx'.new) : Shown(tx'.asked[i], tx'.new[i], hooks'[tx'.account][i], tx'.defs)
  BY <1>1, <1>2, <1>4, Zenon
<1> QED
  BY <1>5, Zenon DEF MergeInv, Shown, Faithful

\* An iteration that builds a hook keeps those built before it.
LEMMA PushMerge ==
    ASSUME TypeOK, MergeInv, Running, Position <= MaxHooks, NEW e \in Entry, NEW h, NEW ds, NEW doomed,
           Push(e, h, ds, doomed), SameText(ds), Shown(e, h, hooks[tx.account][Position], ds)
    PROVE  MergeInv'
<1>1. /\ tx \in Transaction /\ tx.new \in Seq(Optional(Hook)) /\ tx.asked \in Seq(Entry)
      /\ Position = Len(tx.new) + 1 /\ Len(tx.new) \in Nat
  BY TxTyped DEF Position
<1>2. /\ tx'.asked = Append(tx.asked, e) /\ tx'.new = Append(tx.new, h) /\ tx'.defs = ds
      /\ tx'.account = tx.account /\ hooks' = hooks
  BY <1>1, Zenon DEF Push, ledger, Transaction
<1>3. tx # NoTx /\ tx.result \notin {"tesSUCCESS", "tesPARTIAL"}
  BY Zenon DEF Running
<1>4. /\ Len(tx.asked) = Len(tx.new)
      /\ \A i \in 1 .. Len(tx.new) : Shown(tx.asked[i], tx.new[i], hooks[tx.account][i], tx.defs)
  BY <1>3, Zenon DEF MergeInv
<1> DEFINE n == Len(tx.new)
           s == tx'.new
           q == tx'.asked
<1>5. /\ Len(s) = n + 1 /\ Len(q) = n + 1 /\ s[n + 1] = h /\ q[n + 1] = e
      /\ \A i \in 1 .. n : s[i] = tx.new[i] /\ q[i] = tx.asked[i]
  BY <1>1, <1>2, <1>4
<1>6. \A i \in 1 .. n : Shown(q[i], s[i], hooks[tx.account][i], ds)
  BY <1>4, <1>5, ShownKept, Zenon
<1>7. Shown(q[n + 1], s[n + 1], hooks[tx.account][n + 1], ds)
  BY <1>1, <1>5, Zenon
<1>8. \A i \in 1 .. Len(s) : i \in 1 .. n \/ i = n + 1
  BY <1>1, <1>5
<1> HIDE DEF n, s, q
<1>9. \A i \in 1 .. Len(s) : Shown(q[i], s[i], hooks[tx.account][i], ds)
  BY <1>6, <1>7, <1>8, Zenon
<1> QED
  BY <1>2, <1>5, <1>9, Zenon DEF MergeInv, Shown, Faithful, s, q

\* Every step keeps what the loop has built faithful.
LEMMA NextMerge ==
    ASSUME IInv, MergeInv, [Next]_vars
    PROVE  MergeInv'
<1>1. TypeOK /\ LoopInv
  BY Zenon DEF IInv
<1>2. ASSUME NEW a \in Account, Begin(a) PROVE MergeInv'
  <2>1. tx'.asked = <<>> /\ tx'.new = <<>>
    BY <1>2, Zenon DEF Begin
  <2>2. Len(tx'.asked) = Len(tx'.new) /\ 1 .. Len(tx'.new) = {}
    BY <2>1
  <2> QED
    BY <2>2, Zenon DEF MergeInv
<1>3. ASSUME Running, NEW e \in Menu[tx.account] \cup {BlankEntry}, SetHookObject(e) PROVE MergeInv'
  <2>1. Iteration(e)
    BY <1>1, <1>3, IterationFaithful, Zenon
  <2>2. Position <= MaxHooks
    BY <1>3, Zenon DEF SetHookObject
  <2>3. e \in Entry
    <3>1. Menu[tx.account] \in SUBSET Entry
      BY <1>1, <1>3, TxTyped, SetHookAssumption, Zenon
    <3> QED
      BY <3>1, BlankTyped, Zenon
  <2> QED
    BY <1>1, <1>3, <2>1, <2>2, <2>3, AbortMerge, PushMerge, Zenon DEF Iteration
<1>4. ASSUME NEW affordable \in Affordable, Refuse(affordable) PROVE MergeInv'
  BY <1>1, <1>4, AbortMerge, Zenon DEF Refuse, LoopDone
<1>5. ASSUME NEW affordable \in Affordable, NEW gone \in SUBSET entries, Commit(affordable, gone)
      PROVE  MergeInv'
  <2>1. tx \in Transaction
    BY <1>1, <1>5, TxTyped, Zenon DEF Commit, LoopDone
  <2>2. Result(tx.account) \subseteq {"tesSUCCESS", "tesPARTIAL"}
    BY Zenon DEF Result
  <2>3. PICK r \in Result(tx.account) : tx' = [tx EXCEPT !.result = r]
    BY <1>5, Zenon DEF Commit
  <2>4. tx'.result \in {"tesSUCCESS", "tesPARTIAL"}
    BY <2>1, <2>2, <2>3, Zenon DEF Transaction
  <2> QED
    BY <2>4, Zenon DEF MergeInv
<1>6. CASE Close
  BY <1>6, Zenon DEF Close, MergeInv
<1>7. CASE UNCHANGED tx /\ (tx = NoTx \/ UNCHANGED hooks)
  <2>1. CASE tx = NoTx
    BY <1>7, <2>1, Zenon DEF MergeInv
  <2>2. CASE UNCHANGED hooks
    <3>1. ASSUME tx' # NoTx, tx'.result \notin {"tesSUCCESS", "tesPARTIAL"}
          PROVE  /\ Len(tx'.asked) = Len(tx'.new)
                 /\ \A i \in 1 .. Len(tx'.new) :
                        Shown(tx'.asked[i], tx'.new[i], hooks'[tx'.account][i], tx'.defs)
      BY <1>7, <2>2, <3>1, Zenon DEF MergeInv
    <3> QED
      BY <3>1, Zenon DEF MergeInv, Shown, Faithful
  <2> QED
    BY <1>7, <2>1, <2>2, Zenon
<1>8. ASSUME NEW p \in Place, NEW affordable \in Affordable, SetHookState(p, affordable) PROVE MergeInv'
  BY <1>7, <1>8, Zenon DEF SetHookState
<1>9. ASSUME NEW p \in Place, RemoveHookState(p) PROVE MergeInv'
  BY <1>7, <1>9, Zenon DEF RemoveHookState
<1>10. CASE UNCHANGED vars
  BY <1>7, <1>10, Zenon DEF vars, ledger
<1>11. ASSUME Underflow PROVE MergeInv'
  BY <1>1, <1>11, AbortMerge, Zenon DEF Underflow, LoopDone
<1> QED
  BY <1>2, <1>3, <1>4, <1>5, <1>6, <1>8, <1>9, <1>10, <1>11, Zenon DEF Next

\* Each hook that the loop of setHook has built reads what its object asked
\* for, whatever definitions, parameters and earlier hooks it meets, though
\* only what differs from the definition is stored: for any number of
\* accounts, positions, parameters and values.
THEOREM MergeAlwaysFaithful == Spec => []MergeFaithful
<1>1. Init => MergeInv
  BY Zenon DEF Init, MergeInv
<1>2. IInv /\ MergeInv /\ [Next]_vars => MergeInv'
  BY NextMerge, Zenon
<1>3. ASSUME TypeOK, MergeInv
      PROVE  MergeFaithful
  <2> SUFFICES ASSUME tx # NoTx, tx.result \notin {"tesSUCCESS", "tesPARTIAL"}
               PROVE  \A i \in DOMAIN tx.new :
                          Shown(tx.asked[i], tx.new[i], hooks[tx.account][i], tx.defs)
    BY Zenon DEF MergeFaithful, Shown, Faithful
  <2>1. DOMAIN tx.new = 1 .. Len(tx.new)
    BY DEF TypeOK, Transaction
  <2> QED
    BY <1>3, <2>1, Zenon DEF MergeInv
<1>4. IInv => TypeOK
  BY Zenon DEF IInv
<1> QED
  BY <1>1, <1>2, <1>3, <1>4, Invariance, PTL DEF Spec
=============================================================================
