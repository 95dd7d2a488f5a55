--------------------------- MODULE MCValidations ---------------------------
(* Two chains part after the second ledger; the first one is too old to be *)
(* validated, and to be known to the last ones.  In the first setup         *)
(* validators divide themselves between the chains; in the second they share *)
(* ledgers that have to be acquired, and one loses and regains trust; in the *)
(* third that one's validations also come late, and become stale.           *)
EXTENDS Validations

CONSTANTS A, B, C

Chains == <<  <<1>>, <<1, 2>>, <<1, 2, 3>>, <<1, 2, 4>>, <<1, 2, 3, 5>>, <<1, 2, 4, 6>> >>

Bounds ==
    {[nodes |-> {A, B, C}, fickle |-> {}, late |-> {}, held |-> Recent, own |-> {3}, maxTime |-> 1],
     [nodes |-> {A, B}, fickle |-> {B}, late |-> {}, held |-> {2, 4}, own |-> {}, maxTime |-> 1],
     [nodes |-> {C}, fickle |-> {C}, late |-> {C}, held |-> {2, 4, 6}, own |-> {}, maxTime |-> 2]}
=============================================================================
