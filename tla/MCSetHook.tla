------------------------------ MODULE MCSetHook ------------------------------
(* An account, the genesis account, a layer 2 table, two pieces of code,   *)
(* one of them the governance hook, and a menu of sfHook objects for TLC.  *)
EXTENDS SetHook

CONSTANTS a1, a2, a3, h1, h2, n1, n2, p, q, val, m, g

\* An object with some fields.
E(fields) == [f \in DOMAIN BlankEntry |-> IF f \in DOMAIN fields THEN fields[f] ELSE Absent]

Give(vp, vq) == [x \in ParamName |-> IF x = p THEN vp ELSE vq]

Create1 == E([code |-> h1, ns |-> n1, params |-> Give(val, Absent), canEmit |-> m, flags |-> {"OVERRIDE"}])
Create2 == E([code |-> h2, ns |-> n2, params |-> Give(Absent, NoValue), flags |-> {"OVERRIDE", "NSDELETE"}])
Install1 == E([hash |-> h1, ns |-> n2, params |-> Give(Blank, Absent), grants |-> {}])
Regrant == E([ns |-> n1, params |-> Give(Absent, val), grants |-> {g}])
Reset == E([params |-> Give(NoValue, Absent), grants |-> {}])
DeleteNs == E([code |-> Blank, flags |-> {"OVERRIDE", "NSDELETE"}])
Install1Over == E([hash |-> h1, flags |-> {"OVERRIDE"}])
DestroyNs1 == E([ns |-> n1, flags |-> {"NSDELETE"}])

FullMenu ==
    [a \in Account |->
        IF a = a1 THEN {Create1, Create2, Install1, Regrant, Reset, DeleteNs, DestroyNs1}
        ELSE IF a = GenesisAccount THEN {Install1Over, DeleteNs}
        ELSE {}]

Places == {<<a1, n1, 1>>, <<a1, n1, 2>>, <<a2, n1, 1>>}

Governance == <<h2>>
OneParameter == [a \in {a2, a3} |-> Give(val, Absent)]

Counts == {4}
=============================================================================
