------------------------------- MODULE SetHook -------------------------------
(***************************************************************************)
(* SetHook: the array of hooks of an account (ltHOOK), the hook            *)
(* definitions that accounts share (ltHOOK_DEFINITION, counted by          *)
(* reference), and the namespaces of hook state a transaction may destroy. *)
(*                                                                         *)
(* One iteration of the loop of SetHook::setHook is one step.  The loop    *)
(* works on the view of the transaction, tx.defs; the ledger changes only  *)
(* when the transaction commits, and no other transaction runs meanwhile.  *)
(* HookOn is merged as HookNamespace is, which stands for both.  The       *)
(* amendments fixNSDelete and featureHookCanEmit are enabled.              *)
(***************************************************************************)
EXTENDS Integers, Sequences, FiniteSets

CONSTANTS
    Account, Hash, Namespace, ParamName, ParamValue, Mask, Grant,
    Absent,             \* a field, a hook or a ledger entry that is not there
    Blank,              \* an empty value, or empty code
    NoValue,            \* a parameter given by name only
    NoTx,               \* no SetHook is being applied
    Menu,               \* Menu[a]: the sfHook objects a may submit
    Place,              \* <<a, n, k>>: the state entries hooks may write
    Affordable,         \* owner counts whose reserve a balance may cover
    MaxHooks,           \* maxHookChainLength() (10)
    MaxParams,          \* parameters of one hook (16)
    MaxGrants,          \* grants of one hook (8)
    MaxNamespaceDelete, \* maxNamespaceDelete() (256)
    GenesisAccount,
    Tables,             \* the accounts of the layer 2 tables
    GenesisCode,        \* genesis_hooks: the governance hook first; none on other networks
    GovernParams,       \* the parameters of the governance hook, at genesis and at the tables
    ZeroNamespace

VARIABLES
    defs,        \* the hook definitions in the ledger
    hooks,       \* the sfHooks array of each account, empty without ltHOOK
    entries,     \* the state entries in the ledger
    stateCount,  \* sfHookStateCount
    ownerCount,  \* sfOwnerCount, hooks and state only
    namespaces,  \* sfHookNamespaces
    tx           \* the SetHook being applied

state == <<entries, stateCount, namespaces>>
ledger == <<defs, hooks, ownerCount, state>>
vars == <<ledger, tx>>

Flag == {"OVERRIDE", "NSDELETE", "COLLECT"}
Optional(S) == {Absent} \cup S

Params == [ParamName -> ParamValue \cup {Blank, Absent}]
Definition == [rc : Nat, ns : Namespace, canEmit : Optional(Mask), flags : SUBSET Flag,
               params : Params]
Hook == [hash : Hash, ns : Optional(Namespace), canEmit : Optional(Mask),
         flags : Optional(SUBSET Flag), params : Params, grants : SUBSET Grant]
Entry == [code : Hash \cup {Blank, Absent}, hash : Optional(Hash), ns : Optional(Namespace),
          canEmit : Optional(Mask), flags : Optional(SUBSET Flag),
          params : Optional([ParamName -> ParamValue \cup {Blank, NoValue, Absent}]),
          grants : Optional(SUBSET Grant)]

ASSUME SetHookAssumption ==
    /\ Absent \notin Hash \cup Namespace \cup Mask \cup ParamValue \cup {Blank, NoValue}
    /\ \A S \in (SUBSET Flag) \cup (SUBSET Grant) : S # Absent
    /\ Blank \notin Hash \cup ParamValue /\ NoValue \notin ParamValue \cup {Blank}
    /\ Absent \notin Definition \cup Hook
    /\ Menu \in [Account -> SUBSET Entry]
    /\ \A p \in Place : p[1] \in Account /\ p[2] \in Namespace
    /\ Absent \notin ParamName \cup Grant /\ ParamName \cap Grant = {}
    /\ IsFiniteSet(Account) /\ IsFiniteSet(Place)
    /\ IsFiniteSet(ParamName) /\ IsFiniteSet(Grant)
    /\ MaxHooks \in Nat /\ MaxParams \in Nat /\ MaxGrants \in Nat
    /\ MaxNamespaceDelete \in Nat \ {0} /\ Affordable \subseteq Nat
    /\ GenesisAccount \in Account /\ Tables \subseteq Account \ {GenesisAccount}
    /\ GenesisCode \in Seq(Hash) /\ Len(GenesisCode) <= MaxHooks
    /\ \A i, j \in 1 .. Len(GenesisCode) : GenesisCode[i] = GenesisCode[j] => i = j
    /\ GenesisCode = <<>> => Tables = {}
    /\ GovernParams \in [{GenesisAccount} \cup Tables -> Params]
    /\ ZeroNamespace \in Namespace

-----------------------------------------------------------------------------
(* What an sfHook object of a transaction asks for.                        *)

Flags(e) == IF e.flags = Absent THEN {} ELSE e.flags

InferOperation(e) ==
    IF e.hash # Absent /\ e.code # Absent THEN "INVALID"
    ELSE IF e.hash # Absent THEN "INSTALL"
    ELSE IF e.code # Absent THEN IF e.code = Blank THEN "DELETE" ELSE "CREATE"
    ELSE IF \A f \in DOMAIN e : e[f] = Absent THEN "NOOP"
    ELSE IF e.ns # Absent /\ "NSDELETE" \in Flags(e) THEN "NSDELETE"
    ELSE "UPDATE"

Listed(params) == {p \in ParamName : params[p] # Absent}

ValidateHookSetEntry(e) ==
    LET op == InferOperation(e)
    IN  /\ op # "INVALID"
        /\ op \in {"NSDELETE", "DELETE"} => e.params = Absent /\ e.grants = Absent /\ e.canEmit = Absent
        /\ op = "NSDELETE" => e.flags = {"NSDELETE"}
        /\ op = "DELETE" => e.ns = Absent /\ "OVERRIDE" \in Flags(e)
        /\ op = "UPDATE" => Flags(e) \cap {"OVERRIDE", "NSDELETE"} = {}
        /\ op = "CREATE" => e.ns # Absent
        /\ e.params # Absent => Cardinality(Listed(e.params)) <= MaxParams
        /\ e.grants # Absent => Cardinality(e.grants) <= MaxGrants

-----------------------------------------------------------------------------
(* The definitions of hooks and the merge of fields.                       *)

\* Mutant of ReduceReferenceCount: the count is left to the later removal.
ReduceReferenceCountNot(ds, h) == ds

ReduceReferenceCount(ds, h) == [ds EXCEPT ![h].rc = IF @ > 0 THEN @ - 1 ELSE @]

IncrementReferenceCount(ds, h) == [ds EXCEPT ![h].rc = @ + 1]

\* The value of a parameter of a definition; getFieldVL of an absent value is empty.
Default(v) == IF v = NoValue THEN Blank ELSE v

\* Mutant of UpdateHookParameters: an explicit blank is always dropped.
UpdateHookParametersBlankless(def, old, given) ==
    [p \in ParamName |->
        LET v == IF given # Absent /\ given[p] # Absent THEN given[p] ELSE old[p]
        IN  IF v \in {NoValue, Blank, def.params[p]} THEN Absent ELSE v]

UpdateHookParameters(def, old, given) ==
    [p \in ParamName |->
        LET v == IF given # Absent /\ given[p] # Absent THEN given[p] ELSE old[p]
        IN  IF \/ v \in {NoValue, def.params[p]}
               \/ v = Blank /\ def.params[p] = Absent
            THEN Absent ELSE v]

NoParams == [p \in ParamName |-> Absent]

\* What is stored of a field: nothing if it is the definition's own value.
Differing(new, ofDefinition) == IF new = ofDefinition THEN Absent ELSE new

GrantsOf(e, otherwise) == IF e.grants = Absent THEN otherwise ELSE e.grants

\* What an array of hooks is billed for: each hook, each of its parameters
\* and each of its grants.
Billed(array) ==
    {item \in (1 .. Len(array)) \X (ParamName \cup Grant \cup {Absent}) :
        LET h == array[item[1]]
        IN  h # Absent /\ item[2] \in {Absent} \cup Listed(h.params) \cup h.grants}

HookReserve(array) == Cardinality(Billed(array))

-----------------------------------------------------------------------------
(* The loop of setHook over the positions of the array.                    *)

Position == Len(tx.new) + 1

OldHook == IF Position <= Len(hooks[tx.account]) THEN hooks[tx.account][Position] ELSE Absent

OldDef == IF OldHook = Absent THEN Absent ELSE tx.defs[OldHook.hash]

NamespaceOf(h, def) == IF h.ns # Absent THEN h.ns ELSE def.ns

MarkedNamespaces(e) ==
    IF "NSDELETE" \notin Flags(e) THEN {}
    ELSE IF InferOperation(e) = "NSDELETE" THEN {e.ns}
    ELSE IF OldHook # Absent THEN {NamespaceOf(OldHook, OldDef)} ELSE {}

\* The definition of the hook that leaves the position loses a reference.
Released == IF OldHook = Absent THEN tx.defs ELSE ReduceReferenceCount(tx.defs, OldHook.hash)

Doomed == IF OldHook # Absent /\ Released[OldHook.hash].rc = 0 THEN {OldHook.hash} ELSE {}

Running == tx # NoTx /\ tx.result = "running"

\* preflight and preclaim let the object pass.
Admitted(e) == ValidateHookSetEntry(e) /\ (e.hash # Absent => defs[e.hash] # Absent)

Push(e, h, ds, doomed) ==
    /\ tx' = [tx EXCEPT !.asked = Append(@, e), !.new = Append(@, h), !.defs = ds,
                        !.doomed = @ \cup doomed, !.marked = @ \cup MarkedNamespaces(e)]
    /\ UNCHANGED ledger

Abort(result) == tx' = [tx EXCEPT !.result = result] /\ UNCHANGED ledger

BlankEntry == [code |-> Absent, hash |-> Absent, ns |-> Absent, canEmit |-> Absent,
               flags |-> Absent, params |-> Absent, grants |-> Absent]

Keep(e) ==
    /\ InferOperation(e) \in {"NOOP", "NSDELETE"}
    /\ Push(e, OldHook, tx.defs, {})

Delete(e) ==
    /\ InferOperation(e) = "DELETE"
    /\ Push(e, Absent, Released, Doomed)

Update(e) ==
    /\ InferOperation(e) = "UPDATE"
    /\ IF OldHook = Absent
       THEN Abort("tecNO_ENTRY")
       ELSE LET params == IF e.params = NoParams THEN NoParams
                          ELSE UpdateHookParameters(OldDef, OldHook.params, e.params)
                h == [hash |-> OldHook.hash,
                      ns |-> IF e.ns = Absent THEN OldHook.ns ELSE Differing(e.ns, OldDef.ns),
                      canEmit |-> IF e.canEmit = Absent THEN OldHook.canEmit
                                  ELSE Differing(e.canEmit, OldDef.canEmit),
                      flags |-> e.flags,
                      params |-> params,
                      grants |-> GrantsOf(e, OldHook.grants)]
            IN  IF Cardinality(Listed(params)) > MaxParams
                THEN Abort("tecINTERNAL")
                ELSE Push(e, h, tx.defs, {})

\* The object names a hook by its hash, or by code that hashes to it.
Target(e) == IF e.hash # Absent THEN e.hash ELSE e.code

Overrides(e) == OldHook = Absent \/ "OVERRIDE" \in Flags(e)

LedgerFlags(e) == Flags(e) \ {"OVERRIDE", "NSDELETE"}

\* hsoCREATE of code that no definition has.
Create(e) ==
    /\ InferOperation(e) = "CREATE" /\ tx.defs[e.code] = Absent
    /\ IF ~Overrides(e)
       THEN Abort("tecREQUIRES_FLAG")
       ELSE LET def == [rc |-> 1, ns |-> e.ns, canEmit |-> e.canEmit, flags |-> LedgerFlags(e),
                        params |-> IF e.params = Absent THEN NoParams
                                   ELSE [p \in ParamName |-> Default(e.params[p])]]
                h == [hash |-> e.code, ns |-> Absent, canEmit |-> Absent, flags |-> Absent,
                      params |-> NoParams, grants |-> GrantsOf(e, {})]
            IN  Push(e, h, [Released EXCEPT ![e.code] = def], Doomed)

\* The definition's sfHookCanEmit as hsoINSTALL sees it.  The variable that
\* holds it was set from the old definition, and is kept if the new one has none.
DefHookCanEmit(def) ==
    IF def.canEmit # Absent THEN def.canEmit
    ELSE IF OldHook # Absent THEN OldDef.canEmit ELSE Absent

\* hsoINSTALL, and hsoCREATE of code that has a definition.
Install(e) ==
    /\ \/ InferOperation(e) = "INSTALL"
       \/ InferOperation(e) = "CREATE" /\ tx.defs[e.code] # Absent
    /\ IF ~Overrides(e)
       THEN Abort("tecREQUIRES_FLAG")
       ELSE LET def == tx.defs[Target(e)]
                params == UpdateHookParameters(def, NoParams, e.params)
                h == [hash |-> Target(e),
                      ns |-> IF e.ns = Absent THEN Absent ELSE Differing(e.ns, def.ns),
                      canEmit |-> IF e.canEmit = Absent THEN Absent
                                  ELSE Differing(e.canEmit, DefHookCanEmit(def)),
                      flags |-> IF e.flags = Absent THEN Absent ELSE LedgerFlags(e),
                      params |-> params,
                      grants |-> GrantsOf(e, {})]
            IN  IF Cardinality(Listed(params)) > MaxParams
                THEN Abort("tecINTERNAL")
                ELSE Push(e, h, IncrementReferenceCount(Released, Target(e)), Doomed)

Step(e) == Keep(e) \/ Delete(e) \/ Update(e) \/ Create(e) \/ Install(e)

-----------------------------------------------------------------------------
(* Transactions, and the hooks that write state between them.              *)

Begin(a) ==
    /\ tx = NoTx
    /\ tx' = [account |-> a, asked |-> <<>>, new |-> <<>>, defs |-> defs, doomed |-> {},
              marked |-> {}, result |-> "running"]
    /\ UNCHANGED ledger

SetHookObject(e) ==
    /\ Running /\ Position <= MaxHooks
    /\ Admitted(e) /\ Step(e)

EntriesOf(a, n) == {p \in entries : p[1] = a /\ p[2] = n}

\* destroyNamespace deletes all entries of n, or as many as it may.
Destroys(a, n, gone) ==
    IF Cardinality(EntriesOf(a, n)) <= MaxNamespaceDelete
    THEN EntriesOf(a, n) \subseteq gone
    ELSE Cardinality(EntriesOf(a, n) \cap gone) = MaxNamespaceDelete

Partial(a, n) == Cardinality(EntriesOf(a, n)) > MaxNamespaceDelete

\* adjustOwnerCount does not go below zero.
Confined(n) == IF n < 0 THEN 0 ELSE n

NewOwnerCount == ownerCount[tx.account] + HookReserve(tx.new) - HookReserve(hooks[tx.account])

\* Mutant of OwnerCountAfter: the destroyed entries stay billed, as before
\* the amendment fixNSDelete.
OwnerCountAfterUnfixed(a, gone) == Confined(NewOwnerCount)

OwnerCountAfter(a, gone) ==
    Confined(Confined(ownerCount[a] - Cardinality(gone)) + HookReserve(tx.new) - HookReserve(hooks[a]))

\* Mutant of Unlisted: a namespace is taken off the list even in part.
UnlistedEarly(a) == tx.marked

Unlisted(a) == {n \in tx.marked : ~Partial(a, n)}

\* A definition whose last reference went, and did not come back, is erased.
Remaining == [h \in Hash |-> IF h \in tx.doomed /\ tx.defs[h].rc = 0 THEN Absent ELSE tx.defs[h]]

\* An array of blanks only is no ltHOOK.
NewArray == IF \A i \in DOMAIN tx.new : tx.new[i] = Absent THEN <<>> ELSE tx.new

LoopDone ==
    /\ Running /\ Len(tx.new) >= Len(hooks[tx.account])
    /\ \E i \in DOMAIN tx.asked : tx.asked[i] # BlankEntry

Refuse(affordable) ==
    /\ LoopDone /\ NewOwnerCount > affordable
    /\ Abort("tecINSUFFICIENT_RESERVE")

\* More would be given back than was ever billed.
Underflow ==
    /\ LoopDone /\ NewOwnerCount < 0
    /\ Abort("tefINTERNAL")

\* The namespaces are destroyed in the order of a set; the last one's result
\* is the transaction's.
Result(a) ==
    IF tx.marked = {} THEN {"tesSUCCESS"}
    ELSE {IF Partial(a, n) THEN "tesPARTIAL" ELSE "tesSUCCESS" : n \in tx.marked}

Commit(affordable, gone) ==
    LET a == tx.account
    IN  /\ LoopDone /\ NewOwnerCount \in 0 .. affordable
        /\ \A p \in gone : p[1] = a /\ p[2] \in tx.marked
        /\ \A n \in tx.marked : Destroys(a, n, gone)
        /\ defs' = Remaining
        /\ hooks' = [hooks EXCEPT ![a] = NewArray]
        /\ entries' = entries \ gone
        /\ stateCount' = [stateCount EXCEPT ![a] = @ - Cardinality(gone)]
        /\ namespaces' = [namespaces EXCEPT ![a] = @ \ Unlisted(a)]
        /\ ownerCount' = [ownerCount EXCEPT ![a] = OwnerCountAfter(a, gone)]
        /\ \E result \in Result(a) : tx' = [tx EXCEPT !.result = result]

Close ==
    /\ tx # NoTx /\ tx.result # "running"
    /\ tx' = NoTx
    /\ UNCHANGED ledger

\* setHookState for a hook of the account.
SetHookState(p, affordable) ==
    LET a == p[1]
    IN  /\ tx = NoTx /\ hooks[a] # <<>>
        /\ p \notin entries /\ ownerCount[a] + 1 <= affordable
        /\ entries' = entries \cup {p}
        /\ stateCount' = [stateCount EXCEPT ![a] = @ + 1]
        /\ ownerCount' = [ownerCount EXCEPT ![a] = @ + 1]
        /\ namespaces' = [namespaces EXCEPT ![a] = @ \cup {p[2]}]
        /\ UNCHANGED <<defs, hooks, tx>>

RemoveHookState(p) ==
    LET a == p[1]
    IN  /\ tx = NoTx /\ hooks[a] # <<>>
        /\ p \in entries
        /\ entries' = entries \ {p}
        /\ stateCount' = [stateCount EXCEPT ![a] = @ - 1]
        /\ ownerCount' = [ownerCount EXCEPT ![a] = Confined(@ - 1)]
        /\ namespaces' = [namespaces EXCEPT ![a] =
                IF EntriesOf(a, p[2]) = {p} THEN @ \ {p[2]} ELSE @]
        /\ UNCHANGED <<defs, hooks, tx>>

-----------------------------------------------------------------------------
(* activateXahauGenesis installs the first hooks.  Their parameters are in *)
(* the arrays, and the owner counts are raised by the hooks alone.         *)

GenesisHook(h, params) ==
    [hash |-> h, ns |-> Absent, canEmit |-> Absent, flags |-> Absent, params |-> params, grants |-> {}]

GenesisArray(a) ==
    IF a = GenesisAccount
    THEN [i \in 1 .. Len(GenesisCode) |->
             GenesisHook(GenesisCode[i], IF i = 1 THEN GovernParams[a] ELSE NoParams)]
    ELSE IF a \in Tables THEN <<GenesisHook(GenesisCode[1], GovernParams[a])>> ELSE <<>>

GenesisDefinition(h) ==
    [rc |-> (IF h = GenesisCode[1] THEN Cardinality(Tables) ELSE 0) + 1,
     ns |-> ZeroNamespace, canEmit |-> Absent, flags |-> {}, params |-> NoParams]

Init ==
    /\ defs = [h \in Hash |-> IF \E i \in 1 .. Len(GenesisCode) : GenesisCode[i] = h
                              THEN GenesisDefinition(h) ELSE Absent]
    /\ hooks = [a \in Account |-> GenesisArray(a)]
    /\ entries = {}
    /\ stateCount = [a \in Account |-> 0]
    /\ ownerCount = [a \in Account |-> Len(GenesisArray(a))]
    /\ namespaces = [a \in Account |-> {}]
    /\ tx = NoTx

Next ==
    \/ \E a \in Account : Begin(a)
    \/ Running /\ \E e \in Menu[tx.account] \cup {BlankEntry} : SetHookObject(e)
    \/ \E affordable \in Affordable : Refuse(affordable)
    \/ Underflow
    \/ \E affordable \in Affordable : \E gone \in SUBSET entries : Commit(affordable, gone)
    \/ Close
    \/ \E p \in Place, affordable \in Affordable : SetHookState(p, affordable)
    \/ \E p \in Place : RemoveHookState(p)

Spec == Init /\ [][Next]_vars

-----------------------------------------------------------------------------
(* Properties.                                                             *)

Transaction ==
    [account : Account, asked : Seq(Entry), new : Seq(Optional(Hook)),
     defs : [Hash -> Optional(Definition)], doomed : SUBSET Hash, marked : SUBSET Namespace,
     result : {"running", "tesSUCCESS", "tesPARTIAL", "tecNO_ENTRY", "tecINTERNAL",
               "tecREQUIRES_FLAG", "tecINSUFFICIENT_RESERVE", "tefINTERNAL"}]

TypeOK ==
    /\ defs \in [Hash -> Optional(Definition)]
    /\ hooks \in [Account -> Seq(Optional(Hook))]
    /\ entries \subseteq Place
    /\ stateCount \in [Account -> Nat] /\ ownerCount \in [Account -> Nat]
    /\ namespaces \in [Account -> SUBSET Namespace]
    /\ tx \in {NoTx} \cup Transaction

\* The code at a position of an array, Absent at a blank and past the end.
HashAt(array, i) == IF i \in 1 .. Len(array) /\ array[i] # Absent THEN array[i].hash ELSE Absent

Slots == Account \X (1 .. MaxHooks)

Users(h) == {s \in Slots : HashAt(hooks[s[1]], s[2]) = h}

\* A hook definition is in the ledger exactly while some account has it
\* installed, and its reference count is the number of positions, over all
\* accounts, that hold it: no hook is left without its code and no
\* definition stays behind without a user (setHook, reduceReferenceCount,
\* incrementReferenceCount).
ReferencesExact ==
    \A h \in Hash :
        IF defs[h] = Absent THEN Users(h) = {}
        ELSE defs[h].rc > 0 /\ defs[h].rc = Cardinality(Users(h))

\* What an account is billed for, and how much of it the activation left out.
Bill(a) == HookReserve(hooks[a]) + stateCount[a]
Unbilled(a) == HookReserve(GenesisArray(a)) - Len(GenesisArray(a))

\* The owner count of an account is what its hooks and its state entries are
\* billed for, after any mix of installations, updates, deletions and
\* namespaces destroyed in whole or in part; an account with genesis hooks
\* stays short of it by at most the parameters they were installed with,
\* also where a count is cut off at zero (setHook, destroyNamespace,
\* activateXahauGenesis).
OwnerCountBilled ==
    \A a \in Account : ownerCount[a] <= Bill(a) /\ Bill(a) - ownerCount[a] <= Unbilled(a)

\* The account root counts its state entries and lists the namespaces that
\* hold one: a namespace destroyed in part stays listed, one destroyed in
\* whole does not (destroyNamespace, setHookState).
StateCounted ==
    \A a \in Account :
        /\ stateCount[a] = Cardinality({p \in entries : p[1] = a})
        /\ namespaces[a] = {n \in Namespace : EntriesOf(a, n) # {}}

\* What a hook reads of a parameter (gatherHookParameters, hook_param).
ReadParam(h, def, p) ==
    LET v == IF h.params[p] # Absent THEN h.params[p] ELSE def.params[p]
    IN  IF v = Blank THEN Absent ELSE v

\* What the object asks the parameter to be, given what it was.
AskedParam(e, def, p, before) ==
    IF e.params = NoParams /\ InferOperation(e) = "UPDATE" THEN ReadParam([params |-> NoParams], def, p)
    ELSE IF e.params = Absent \/ e.params[p] = Absent THEN before
    ELSE IF e.params[p] = NoValue THEN ReadParam([params |-> NoParams], def, p)
    ELSE IF e.params[p] = Blank THEN Absent
    ELSE e.params[p]

\* Each hook the loop has built reads the namespace, the parameters and the
\* grants its object asked for, and where the object is silent what it read
\* before (an update) or the definition's own (an installation), though only
\* what differs from the definition is stored (setHook, updateHookParameters).
MergeFaithful ==
    tx # NoTx /\ tx.result \notin {"tesSUCCESS", "tesPARTIAL"} =>
        \A i \in DOMAIN tx.new :
            LET e == tx.asked[i]
                op == InferOperation(e)
                h == tx.new[i]
                old == IF op = "UPDATE" THEN hooks[tx.account][i]
                       ELSE [ns |-> Absent, params |-> NoParams, grants |-> {}]
            IN  op \in {"CREATE", "INSTALL", "UPDATE"} =>
                    LET def == tx.defs[h.hash]
                    IN  /\ NamespaceOf(h, def) = IF e.ns # Absent THEN e.ns ELSE NamespaceOf(old, def)
                        /\ h.grants = GrantsOf(e, old.grants)
                        /\ \A p \in ParamName :
                               ReadParam(h, def, p) = AskedParam(e, def, p, ReadParam(old, def, p))
=============================================================================
